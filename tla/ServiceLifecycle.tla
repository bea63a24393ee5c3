-------------------------- MODULE ServiceLifecycle --------------------------
(***************************************************************************)
(* The administrator's commands of relayx.ops on one host: config init,     *)
(* install service, uninstall service, and the service actions.  A command  *)
(* is a sequence of steps on files, accounts and systemd; any step may      *)
(* raise, or the process may be killed before it, and what was done so far  *)
(* stays done.  Commands run one after the other; meanwhile the service may  *)
(* crash and the host may be booted again.                                  *)
(*                                                                         *)
(* systemd is external: it keeps the definition of a unit that is enabled   *)
(* or running until the next reload, which enable and disable do too, drops *)
(* that of any other, and reads it from disk when it has none.              *)
(***************************************************************************)
EXTENDS Naturals, Sequences

CONSTANTS
    Ports,        \* ports an administrator may choose
    DefaultPort,  \* server_port of RelaySettings
    NoPort,       \* the option or the line is absent
    NoUnit,       \* no unit file, or no definition of it in systemd
    NoFile,       \* no environment file
    Torn,         \* a file that was truncated and not written
    Down,         \* the service is not running
    Retrying,     \* it ended or failed to start, and systemd will start it again
    Interrupts,   \* whether a command may fail at any of its steps, and the host be booted
    MaxCommands   \* bound: as many commands are run

ASSUME LifecycleAssumption ==
    /\ DefaultPort \notin {NoPort, Down, Retrying} /\ Ports \cap {NoPort, Down, Retrying} = {}
    /\ Interrupts \in BOOLEAN /\ MaxCommands \in Nat

VARIABLES
    command,  \* the command begun last, with its options
    before,   \* history: the one before it
    todo,     \* the steps it still has to take
    failed,   \* whether it ended before its last step
    count,    \* how many commands were begun
    unit,     \* the unit file: NoUnit, Torn, or the override it carries
    loaded,   \* systemd's definition of the unit
    enabled,  \* whether the unit is started at boot
    running,  \* the port the service listens on, Down or Retrying
    env,      \* the environment file: NoFile, Torn, or its port line and secrets
    workdir,  \* whether the working directory exists
    account   \* whether the service's account exists

cli == <<command, before, todo, failed, count>>
systemd == <<loaded, enabled, running>>
files == <<unit, env, workdir, account>>
vars == <<cli, systemd, files>>

\* The classes of secrets an environment file may hold.
Secrets == {"generated", "template", "equal"}

\* The absences and the torn file are values of their own.
ASSUME FilesAssumption ==
    /\ Down # Retrying /\ Torn \notin {NoUnit, NoFile}
    /\ \A port \in Ports \cup {NoPort} :
          /\ [port |-> port] \notin {NoUnit, NoFile, Torn}
          /\ \A secrets \in Secrets :
                [port |-> port, secrets |-> secrets] \notin {NoUnit, NoFile, Torn}

Whole(file) == file \notin {NoUnit, NoFile, Torn}

Init ==
    /\ command = [cmd |-> "none"] /\ before = command /\ todo = <<>> /\ failed = FALSE /\ count = 0
    /\ unit = NoUnit /\ loaded = NoUnit /\ enabled = FALSE /\ running = Down
    /\ env = NoFile /\ workdir = FALSE
    /\ account \in BOOLEAN

-----------------------------------------------------------------------------
(* The steps of each command *)

If(condition, step) == IF condition THEN <<step>> ELSE <<>>

\* Mutants: a unit file that is there is kept; systemd is asked to enable the
\* unit before it is written.
InstallKeepsUnit(o) ==
    <<"mkdir">> \o If(unit = NoUnit, "truncate unit") \o If(unit = NoUnit, "write unit")
    \o If(o.createUser /\ ~account, "useradd")
    \o <<"daemon-reload", "enable">> \o If(o.start, "start")
InstallUnitLast(o) ==
    If(o.createUser /\ ~account, "useradd") \o <<"daemon-reload", "enable">>
    \o <<"mkdir", "truncate unit", "write unit">> \o If(o.start, "start")

\* install_service: whether the account exists is looked up before anything is done.
InstallSteps(o) ==
    <<"mkdir", "truncate unit", "write unit">> \o If(o.createUser /\ ~account, "useradd")
    \o <<"daemon-reload", "enable">> \o If(o.start, "start")

\* Mutants: the running service is left alone; the unit file goes first.
UninstallRunning(o) ==
    <<"disable", "unlink unit", "daemon-reload">>
    \o If(o.purge, "purge env") \o If(o.purge, "purge workdir")
UninstallUnlinkFirst(o) ==
    <<"stop", "unlink unit", "disable", "daemon-reload">>
    \o If(o.purge, "purge env") \o If(o.purge, "purge workdir")

UninstallSteps(o) ==
    <<"stop", "disable", "unlink unit", "daemon-reload">>
    \o If(o.purge, "purge env") \o If(o.purge, "purge workdir")

\* Mutant: an existing file is overwritten.
MayWriteAnyway(o) == TRUE
\* write_env_file refuses to overwrite without --force.
MayWrite(o) == env = NoFile \/ o.force

Begin(o, steps) ==
    /\ todo = <<>>
    /\ count < MaxCommands
    /\ before' = command /\ command' = o /\ todo' = steps /\ failed' = FALSE /\ count' = count + 1
    /\ UNCHANGED <<systemd, files>>

Install ==
    \E port \in Ports \cup {NoPort}, createUser, start \in BOOLEAN :
        LET o == [cmd |-> "install", port |-> port, createUser |-> createUser, start |-> start]
        IN  Begin(o, InstallSteps(o))

Uninstall ==
    \E purge \in BOOLEAN :
        LET o == [cmd |-> "uninstall", purge |-> purge]
        IN  Begin(o, UninstallSteps(o))

\* config init, with generated secrets or the placeholders, and init; the chmod that
\* ends write_env_file changes permissions only.
ConfigInit ==
    \E port \in Ports, force \in BOOLEAN, secrets \in {"generated", "template"} :
        LET o == [cmd |-> "config init", port |-> port, force |-> force, secrets |-> secrets]
        IN  MayWrite(o) /\ Begin(o, <<"truncate env", "write env", "chmod env">>)

\* service start, stop and restart: one systemctl call, whose failure is returned.
ServiceAction ==
    \E action \in {"start", "stop", "restart"} : Begin([cmd |-> action], <<action>>)

-----------------------------------------------------------------------------
(* What the steps do *)

Definition == IF loaded = NoUnit THEN unit ELSE loaded

\* Whether systemctl can carry out the step; anything else is the host's matter.
Possible(step) ==
    CASE step = "enable"                 -> Whole(unit)
      [] step \in {"start", "restart"}   -> Whole(Definition)
      [] step = "stop"                   -> Definition # NoUnit
      [] step = "disable"                -> unit # NoUnit
      [] OTHER                           -> TRUE

Take(step) ==
    /\ todo # <<>>
    /\ Head(todo) = step
    /\ Possible(step)
    /\ todo' = Tail(todo)
    /\ UNCHANGED <<command, before, failed, count>>

MakeDirs ==
    /\ Take("mkdir")
    /\ workdir' = TRUE
    /\ UNCHANGED <<systemd, unit, env, account>>

WriteUnit ==
    /\ \/ Take("truncate unit") /\ unit' = Torn
       \/ Take("write unit") /\ unit' = [port |-> command.port]
       \/ Take("unlink unit") /\ unit' = NoUnit
    /\ UNCHANGED <<systemd, env, workdir, account>>

WriteEnv ==
    /\ \/ Take("truncate env") /\ env' = Torn
       \/ Take("write env") /\ env' = [port |-> command.port, secrets |-> command.secrets]
       \/ Take("chmod env") /\ env' = env
       \/ Take("purge env") /\ env' = NoFile
    /\ UNCHANGED <<systemd, unit, workdir, account>>

UserAdd ==
    /\ Take("useradd")
    /\ account' = TRUE
    /\ UNCHANGED <<systemd, unit, env, workdir>>

PurgeWorkdir ==
    /\ Take("purge workdir")
    /\ workdir' = FALSE
    /\ UNCHANGED <<systemd, unit, env, account>>

\* A definition that nothing refers to is dropped.
Reloaded == IF enabled \/ running # Down THEN unit ELSE NoUnit

DaemonReload ==
    /\ Take("daemon-reload")
    /\ loaded' = Reloaded
    /\ UNCHANGED <<enabled, running, files>>

Enable ==
    /\ Take("enable")
    /\ enabled' = TRUE
    /\ loaded' = unit
    /\ UNCHANGED <<running, files>>

Disable ==
    /\ Take("disable")
    /\ enabled' = FALSE
    /\ loaded' = IF running = Down THEN NoUnit ELSE unit
    /\ UNCHANGED <<running, files>>

Stop ==
    /\ Take("stop")
    /\ running' = Down
    /\ loaded' = IF enabled THEN loaded ELSE NoUnit
    /\ UNCHANGED <<enabled, files>>

\* Mutant: settings that name no port are not given the default.
PortUnset(definition) == IF env.port # NoPort THEN env.port ELSE definition.port

\* The unit has the environment file as well as its own Environment line, and systemd
\* gives the file precedence over the line; the file may be absent.
Port(definition) ==
    IF env.port # NoPort THEN env.port
    ELSE IF definition.port # NoPort THEN definition.port ELSE DefaultPort

\* RelaySettings refuses a token that equals the key.
Validates(settings) == settings.secrets # "equal"
\* create_app decodes the key: the placeholder of the template is not base64.
KeyDecodes(settings) == settings.secrets # "template"

\* The process starts under its account and in its directory, with its settings.
CanServe == account /\ workdir /\ Whole(env) /\ Validates(env) /\ KeyDecodes(env)

Launched(definition) == IF CanServe THEN Port(definition) ELSE Retrying

\* start leaves a service that is running as it is; systemctl does not wait to see
\* whether the process stays.
Start ==
    /\ Take("start") \/ Take("restart")
    /\ running' = IF running \notin {Down, Retrying} /\ Head(todo) = "start"
                  THEN running ELSE Launched(Definition)
    /\ loaded' = Definition
    /\ UNCHANGED <<enabled, files>>

-----------------------------------------------------------------------------
(* What happens to the service and the host meanwhile *)

\* Mutant: the unit has no Restart line.
OnFailureDown == Down
\* Restart=on-failure
OnFailure == Retrying

\* The process fails.
Crash ==
    /\ running \notin {Down, Retrying}
    /\ running' = OnFailure
    /\ UNCHANGED <<cli, loaded, enabled, files>>

\* RestartSec later: five starts within StartLimitIntervalSec are never reached.
Retry ==
    /\ running = Retrying
    /\ running' = IF Whole(Definition) THEN Launched(Definition) ELSE Down
    /\ UNCHANGED <<cli, loaded, enabled, files>>

\* The host goes down, with a command that was running, and comes up: what is enabled
\* is started from what is on disk.
Boot ==
    /\ Interrupts
    /\ loaded' = IF enabled THEN unit ELSE NoUnit
    /\ running' = IF enabled /\ Whole(unit) THEN Launched(unit) ELSE Down
    /\ todo' = <<>>
    /\ failed' = (failed \/ todo # <<>>)
    /\ UNCHANGED <<command, before, count, enabled, files>>

\* A step that is not possible fails; with Interrupts any step may fail.
Interrupt ==
    /\ todo # <<>>
    /\ Interrupts \/ ~Possible(Head(todo))
    /\ todo' = <<>> /\ failed' = TRUE
    /\ UNCHANGED <<command, before, count, systemd, files>>

\* The administrator edits the environment file: another port line or none, other
\* secrets.
EditEnv ==
    /\ todo = <<>> /\ Whole(env)
    /\ \E port \in Ports \cup {NoPort}, secrets \in Secrets :
          env' = [port |-> port, secrets |-> secrets]
    /\ before' = command /\ command' = [cmd |-> "edit"]
    /\ UNCHANGED <<todo, failed, count, systemd, unit, workdir, account>>

Next ==
    \/ Install \/ Uninstall \/ ConfigInit \/ ServiceAction \/ EditEnv
    \/ MakeDirs \/ WriteUnit \/ WriteEnv \/ UserAdd \/ PurgeWorkdir
    \/ DaemonReload \/ Enable \/ Disable \/ Stop \/ Start \/ Interrupt
    \/ Crash \/ Retry \/ Boot

Spec == Init /\ [][Next]_vars

-----------------------------------------------------------------------------
Units == {NoUnit, Torn} \cup [port : Ports \cup {NoPort}]

TypeOK ==
    /\ unit \in Units /\ loaded \in Units
    /\ env \in {NoFile, Torn} \cup [port : Ports \cup {NoPort}, secrets : Secrets]
    /\ running \in Ports \cup {DefaultPort, Down, Retrying}
    /\ {enabled, workdir, account, failed} \subseteq BOOLEAN
    /\ count \in 0 .. MaxCommands

Completed(cmd) == command.cmd = cmd /\ todo = <<>> /\ ~failed

\* No service is left enabled or running without its unit file, wherever an
\* installation or a removal was cut off: the unit is removed after the service is
\* stopped and disabled, and enabled after it is written (ops.py 254-290).
NoOrphan == (enabled \/ running # Down) => unit # NoUnit

\* An installation that completes leaves everything it is for, whatever earlier
\* attempts left behind: the unit with these options, known to systemd, enabled, the
\* directory, the account, and a service that is up or being started again, until
\* another command, whatever crash or boot comes between (ops.py 210-266).
InstallComplete ==
    Completed("install") =>
        /\ unit = [port |-> command.port] /\ loaded = unit /\ enabled
        /\ workdir
        /\ command.createUser => account
        /\ command.start => running # Down

\* A removal that completes leaves nothing of the service, and with --purge nothing
\* of its files (ops.py 269-299).
UninstallComplete ==
    Completed("uninstall") =>
        /\ unit = NoUnit /\ loaded = NoUnit /\ ~enabled /\ running = Down
        /\ command.purge => (env = NoFile /\ ~workdir)

\* An installation can be run again from whatever state a failure left: none of its
\* steps is refused (ops.py 252-266).
InstallAgain == (command.cmd = "install" /\ todo # <<>>) => Possible(Head(todo))

\* The configuration is only lost or replaced by a command that was told to, with
\* --purge or --force, or by the administrator (ops.py 118, 291).
ConfigKept ==
    [][(Whole(env) /\ env' # env) =>
          \/ command.cmd = "uninstall" /\ command.purge
          \/ command.cmd = "config init" /\ command.force
          \/ command'.cmd = "edit"]_vars

\* An enabled service goes down only when it is told to stop, or when the host is booted
\* after an installation was cut off between truncating its unit and writing it:
\* crashes, configurations it cannot use, and commands cut off at any other step leave
\* it up or being started again (ops.py 172-173, 254-290).
StaysUp ==
    [][(running # Down /\ running' = Down /\ enabled) =>
          \/ todo # <<>> /\ Head(todo) = "stop"
          \/ unit = Torn /\ Boot]_vars

\* A service whose unit is reinstalled with a port override and then restarted
\* listens on that port (OPERATIONS.md 157-162).
OverrideTakesEffect ==
    (/\ before.cmd = "install" /\ before.port # NoPort
     /\ Completed("restart") /\ running \notin {Down, Retrying})
    => running = before.port

\* A removal with --purge can follow one without it: as long as there is a working
\* directory to purge, none of its steps is refused (OPERATIONS.md 24-34).
PurgeCanFollow ==
    (command.cmd = "uninstall" /\ command.purge /\ workdir /\ todo # <<>>)
    => Possible(Head(todo))
=============================================================================
