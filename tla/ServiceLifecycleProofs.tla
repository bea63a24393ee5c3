----------------------- MODULE ServiceLifecycleProofs -----------------------
(***************************************************************************)
(* Proofs about ServiceLifecycle, for every set of ports and any number of  *)
(* commands, cut off anywhere, with crashes and boots between any two steps. *)
(***************************************************************************)
EXTENDS ServiceLifecycle, SequenceTheorems, TLAPS

-----------------------------------------------------------------------------
(* Plans: what is left of a command *)

Then(step, rest) == <<step>> \o rest

LEMMA ThenFacts ==
    ASSUME NEW S, NEW step \in S, NEW rest \in Seq(S)
    PROVE  /\ Then(step, rest) \in Seq(S) /\ Then(step, rest) # <<>>
           /\ Head(Then(step, rest)) = step /\ Tail(Then(step, rest)) = rest
  <1>1. <<step>> \in Seq(S) /\ Len(<<step>>) = 1 /\ <<step>>[1] = step
    OBVIOUS
  <1>2. /\ <<step>> \o rest \in Seq(S) /\ Len(<<step>> \o rest) = Len(<<step>>) + Len(rest)
        /\ <<step>> \o rest # <<>>
    BY <1>1, ConcatProperties, ConcatEqualIffEmpty
  <1> QED BY <1>1, <1>2 DEF Then

LEMMA ThenConcat ==
    ASSUME NEW S, NEW step \in S, NEW s \in Seq(S), NEW t \in Seq(S)
    PROVE  Then(step, s) \o t = Then(step, s \o t)
  <1>1. <<step>> \in Seq(S)
    OBVIOUS
  <1> QED BY <1>1, ConcatAssociative DEF Then

\* A plan is its first step and then the rest of it.
LEMMA FirstAndRest ==
    ASSUME NEW S, NEW s \in Seq(S), s # <<>>
    PROVE  s = Then(Head(s), Tail(s))
  <1>1. /\ Head(s) \in S /\ Tail(s) \in Seq(S) /\ Len(Tail(s)) = Len(s) - 1
        /\ \A i \in 1 .. Len(Tail(s)) : Tail(s)[i] = s[i + 1]
        /\ Len(s) \in Nat \ {0}
    BY HeadTailProperties, EmptySeq
  <1>2. <<Head(s)>> \in Seq(S) /\ Len(<<Head(s)>>) = 1 /\ <<Head(s)>>[1] = s[1]
    BY <1>1
  <1> DEFINE t == <<Head(s)>> \o Tail(s)
  <1>3. /\ t \in Seq(S) /\ Len(t) = Len(s)
        /\ \A i \in 1 .. Len(s) : t[i] = IF i <= 1 THEN <<Head(s)>>[i] ELSE Tail(s)[i - 1]
    BY <1>1, <1>2, ConcatProperties
  <1> HIDE DEF t
  <1>4. \A i \in 1 .. Len(s) : t[i] = s[i]
    <2> TAKE i \in 1 .. Len(s)
    <2>1. CASE i = 1
      BY <1>1, <1>2, <1>3, <2>1
    <2>2. CASE i # 1
      <3>1. i - 1 \in 1 .. Len(Tail(s)) /\ (i - 1) + 1 = i
        BY <1>1, <2>2
      <3> QED BY <1>1, <1>3, <2>2, <3>1
    <2> QED BY <2>1, <2>2
  <1>5. t = s
    BY <1>3, <1>4, SeqEqual
  <1> QED BY <1>5 DEF t, Then

Step == {"mkdir", "truncate unit", "write unit", "useradd", "daemon-reload", "enable", "start",
         "stop", "restart", "disable", "unlink unit", "purge env", "purge workdir",
         "truncate env", "write env", "chmod env"}

\* What is left of an installation before each of its steps; u is whether it adds the
\* account, s whether it starts the service.
Starting(s) == IF s THEN Then("start", <<>>) ELSE <<>>
Enabling(s) == Then("enable", Starting(s))
Reloading(s) == Then("daemon-reload", Enabling(s))
Adding(s) == Then("useradd", Reloading(s))
Written(u, s) == IF u THEN Adding(s) ELSE Reloading(s)
Writing(u, s) == Then("write unit", Written(u, s))
Truncating(u, s) == Then("truncate unit", Writing(u, s))
Installing(u, s) == Then("mkdir", Truncating(u, s))

\* What is left of a removal; p is whether it purges the files.
PurgingDir(p) == IF p THEN Then("purge workdir", <<>>) ELSE <<>>
Purging(p) == IF p THEN Then("purge env", PurgingDir(p)) ELSE <<>>
Forgetting(p) == Then("daemon-reload", Purging(p))
Unlinking(p) == Then("unlink unit", Forgetting(p))
Disabling(p) == Then("disable", Unlinking(p))
Stopping(p) == Then("stop", Disabling(p))

\* What is left of config init.
ChangingMode == Then("chmod env", <<>>)
WritingEnv == Then("write env", ChangingMode)
TruncatingEnv == Then("truncate env", WritingEnv)

LEMMA StepFacts ==
    ASSUME NEW step \in Step, NEW rest \in Seq(Step)
    PROVE  /\ Then(step, rest) \in Seq(Step) /\ Then(step, rest) # <<>>
           /\ Head(Then(step, rest)) = step /\ Tail(Then(step, rest)) = rest
  BY ThenFacts

LEMMA PlansOK ==
    ASSUME NEW u \in BOOLEAN, NEW s \in BOOLEAN
    PROVE  /\ Starting(s) \in Seq(Step) /\ Enabling(s) \in Seq(Step)
           /\ Reloading(s) \in Seq(Step) /\ Adding(s) \in Seq(Step)
           /\ Written(u, s) \in Seq(Step) /\ Writing(u, s) \in Seq(Step)
           /\ Truncating(u, s) \in Seq(Step) /\ Installing(u, s) \in Seq(Step)
           /\ PurgingDir(s) \in Seq(Step) /\ Purging(s) \in Seq(Step)
           /\ Forgetting(s) \in Seq(Step) /\ Unlinking(s) \in Seq(Step)
           /\ Disabling(s) \in Seq(Step) /\ Stopping(s) \in Seq(Step)
           /\ ChangingMode \in Seq(Step) /\ WritingEnv \in Seq(Step)
           /\ TruncatingEnv \in Seq(Step)
  <1>1. <<>> \in Seq(Step)
    OBVIOUS
  <1>2. /\ "mkdir" \in Step /\ "truncate unit" \in Step /\ "write unit" \in Step
        /\ "useradd" \in Step /\ "daemon-reload" \in Step /\ "enable" \in Step /\ "start" \in Step
        /\ "stop" \in Step /\ "disable" \in Step /\ "unlink unit" \in Step
        /\ "purge env" \in Step /\ "purge workdir" \in Step
        /\ "truncate env" \in Step /\ "write env" \in Step /\ "chmod env" \in Step
    BY DEF Step
  <1>3. /\ Starting(s) \in Seq(Step) /\ PurgingDir(s) \in Seq(Step) /\ ChangingMode \in Seq(Step)
    BY <1>1, <1>2, StepFacts DEF Starting, PurgingDir, ChangingMode
  <1>4. /\ Enabling(s) \in Seq(Step) /\ Purging(s) \in Seq(Step) /\ WritingEnv \in Seq(Step)
    BY <1>1, <1>2, <1>3, StepFacts DEF Enabling, Purging, WritingEnv
  <1>5. Reloading(s) \in Seq(Step) /\ Forgetting(s) \in Seq(Step) /\ TruncatingEnv \in Seq(Step)
    BY <1>2, <1>4, StepFacts DEF Reloading, Forgetting, TruncatingEnv
  <1>6. Adding(s) \in Seq(Step) /\ Unlinking(s) \in Seq(Step)
    BY <1>2, <1>5, StepFacts DEF Adding, Unlinking
  <1>7. Written(u, s) \in Seq(Step) /\ Disabling(s) \in Seq(Step)
    BY <1>2, <1>5, <1>6, StepFacts DEF Written, Disabling
  <1>8. Writing(u, s) \in Seq(Step) /\ Stopping(s) \in Seq(Step)
    BY <1>2, <1>7, StepFacts DEF Writing, Stopping
  <1>9. Truncating(u, s) \in Seq(Step)
    BY <1>2, <1>8, StepFacts DEF Truncating
  <1>10. Installing(u, s) \in Seq(Step)
    BY <1>2, <1>9, StepFacts DEF Installing
  <1> QED BY <1>3, <1>4, <1>5, <1>6, <1>7, <1>8, <1>9, <1>10

\* p begins with this step and goes on with the rest.
Goes(p, step, rest) == p # <<>> /\ Head(p) = step /\ Tail(p) = rest

LEMMA PlanSteps ==
    ASSUME NEW u \in BOOLEAN, NEW s \in BOOLEAN
    PROVE  /\ Goes(Installing(u, s), "mkdir", Truncating(u, s))
           /\ Goes(Truncating(u, s), "truncate unit", Writing(u, s))
           /\ Goes(Writing(u, s), "write unit", Written(u, s))
           /\ Goes(Adding(s), "useradd", Reloading(s))
           /\ Goes(Reloading(s), "daemon-reload", Enabling(s))
           /\ Goes(Enabling(s), "enable", Starting(s))
           /\ s => Goes(Starting(s), "start", <<>>)
           /\ Goes(Stopping(s), "stop", Disabling(s))
           /\ Goes(Disabling(s), "disable", Unlinking(s))
           /\ Goes(Unlinking(s), "unlink unit", Forgetting(s))
           /\ Goes(Forgetting(s), "daemon-reload", Purging(s))
           /\ s => Goes(Purging(s), "purge env", PurgingDir(s))
           /\ s => Goes(PurgingDir(s), "purge workdir", <<>>)
           /\ Goes(TruncatingEnv, "truncate env", WritingEnv)
           /\ Goes(WritingEnv, "write env", ChangingMode)
           /\ Goes(ChangingMode, "chmod env", <<>>)
  <1>1. <<>> \in Seq(Step)
    OBVIOUS
  <1>2. ASSUME NEW step \in Step, NEW rest \in Seq(Step) PROVE Goes(Then(step, rest), step, rest)
    BY <1>2, StepFacts DEF Goes
  <1>3. /\ Goes(Installing(u, s), "mkdir", Truncating(u, s))
        /\ Goes(Truncating(u, s), "truncate unit", Writing(u, s))
        /\ Goes(Writing(u, s), "write unit", Written(u, s))
        /\ Goes(Adding(s), "useradd", Reloading(s))
    BY <1>2, PlansOK DEF Step, Installing, Truncating, Writing, Adding
  <1>4. /\ Goes(Reloading(s), "daemon-reload", Enabling(s))
        /\ Goes(Enabling(s), "enable", Starting(s))
        /\ s => Goes(Starting(s), "start", <<>>)
    BY <1>1, <1>2, PlansOK DEF Step, Reloading, Enabling, Starting
  <1>5. /\ Goes(Stopping(s), "stop", Disabling(s))
        /\ Goes(Disabling(s), "disable", Unlinking(s))
        /\ Goes(Unlinking(s), "unlink unit", Forgetting(s))
    BY <1>2, PlansOK DEF Step, Stopping, Disabling, Unlinking
  <1>6. /\ Goes(Forgetting(s), "daemon-reload", Purging(s))
        /\ s => Goes(Purging(s), "purge env", PurgingDir(s))
        /\ s => Goes(PurgingDir(s), "purge workdir", <<>>)
    BY <1>1, <1>2, PlansOK DEF Step, Forgetting, Purging, PurgingDir
  <1>7. /\ Goes(TruncatingEnv, "truncate env", WritingEnv)
        /\ Goes(WritingEnv, "write env", ChangingMode)
        /\ Goes(ChangingMode, "chmod env", <<>>)
    BY <1>1, <1>2, PlansOK DEF Step, TruncatingEnv, WritingEnv, ChangingMode
  <1> QED BY <1>3, <1>4, <1>5, <1>6, <1>7

LEMMA StepNames ==
    /\ "mkdir" \in Step /\ "truncate unit" \in Step /\ "write unit" \in Step
    /\ "useradd" \in Step /\ "daemon-reload" \in Step /\ "enable" \in Step
    /\ "start" \in Step /\ "stop" \in Step /\ "restart" \in Step /\ "disable" \in Step
    /\ "unlink unit" \in Step /\ "purge env" \in Step /\ "purge workdir" \in Step
    /\ "truncate env" \in Step /\ "write env" \in Step /\ "chmod env" \in Step
  BY DEF Step

\* A tuple of steps is its first step and then the rest of it.
LEMMA Tuples ==
    /\ \A a \in Step : <<a>> \in Seq(Step) /\ <<a>> = Then(a, <<>>)
    /\ \A a, b \in Step : <<a, b>> \in Seq(Step) /\ <<a, b>> = Then(a, <<b>>)
    /\ \A a, b, c \in Step : <<a, b, c>> \in Seq(Step) /\ <<a, b, c>> = Then(a, <<b, c>>)
    /\ \A a, b, c, d \in Step :
          <<a, b, c, d>> \in Seq(Step) /\ <<a, b, c, d>> = Then(a, <<b, c, d>>)
  <1>1. ASSUME NEW a \in Step PROVE <<a>> \in Seq(Step) /\ <<a>> = Then(a, <<>>)
    <2>1. <<a>> \in Seq(Step) /\ <<a>> # <<>> /\ Head(<<a>>) = a /\ Tail(<<a>>) = <<>>
      OBVIOUS
    <2> QED BY <2>1, FirstAndRest
  <1>2. ASSUME NEW a \in Step, NEW b \in Step
        PROVE  <<a, b>> \in Seq(Step) /\ <<a, b>> = Then(a, <<b>>)
    <2>1. /\ <<a, b>> \in Seq(Step) /\ <<a, b>> # <<>>
          /\ Head(<<a, b>>) = a /\ Tail(<<a, b>>) = <<b>>
      OBVIOUS
    <2> QED BY <2>1, FirstAndRest
  <1>3. ASSUME NEW a \in Step, NEW b \in Step, NEW c \in Step
        PROVE  <<a, b, c>> \in Seq(Step) /\ <<a, b, c>> = Then(a, <<b, c>>)
    <2>1. /\ <<a, b, c>> \in Seq(Step) /\ <<a, b, c>> # <<>>
          /\ Head(<<a, b, c>>) = a /\ Tail(<<a, b, c>>) = <<b, c>>
      OBVIOUS
    <2> QED BY <2>1, FirstAndRest
  <1>4. ASSUME NEW a \in Step, NEW b \in Step, NEW c \in Step, NEW d \in Step
        PROVE  <<a, b, c, d>> \in Seq(Step) /\ <<a, b, c, d>> = Then(a, <<b, c, d>>)
    <2>1. /\ <<a, b, c, d>> \in Seq(Step) /\ <<a, b, c, d>> # <<>>
          /\ Head(<<a, b, c, d>>) = a /\ Tail(<<a, b, c, d>>) = <<b, c, d>>
      OBVIOUS
    <2> QED BY <2>1, FirstAndRest
  <1> QED BY <1>1, <1>2, <1>3, <1>4

\* A tuple of steps before a plan is its steps, one after the other, before the plan.
LEMMA TupleConcat ==
    ASSUME NEW rest \in Seq(Step)
    PROVE  /\ \A a \in Step : <<a>> \o rest = Then(a, rest)
           /\ \A a, b \in Step : <<a, b>> \o rest = Then(a, Then(b, rest))
           /\ \A a, b, c \in Step : <<a, b, c>> \o rest = Then(a, Then(b, Then(c, rest)))
           /\ \A a, b, c, d \in Step :
                 <<a, b, c, d>> \o rest = Then(a, Then(b, Then(c, Then(d, rest))))
  <1> DEFINE Before(s) == s \o rest
  <1>1. \A a \in Step, s \in Seq(Step) : Before(Then(a, s)) = Then(a, Before(s))
    BY ThenConcat
  <1>2. \A a \in Step : Before(<<a>>) = Then(a, rest)
    BY DEF Then
  <1> HIDE DEF Before
  <1>3. ASSUME NEW a \in Step, NEW b \in Step PROVE Before(<<a, b>>) = Then(a, Then(b, rest))
    <2>1. <<b>> \in Seq(Step) /\ <<a, b>> = Then(a, <<b>>)
      BY Tuples
    <2> QED BY <1>1, <1>2, <2>1
  <1>4. ASSUME NEW a \in Step, NEW b \in Step, NEW c \in Step
        PROVE  Before(<<a, b, c>>) = Then(a, Then(b, Then(c, rest)))
    <2>1. <<b, c>> \in Seq(Step) /\ <<a, b, c>> = Then(a, <<b, c>>)
      BY Tuples
    <2> QED BY <1>1, <1>3, <2>1
  <1>5. ASSUME NEW a \in Step, NEW b \in Step, NEW c \in Step, NEW d \in Step
        PROVE  Before(<<a, b, c, d>>) = Then(a, Then(b, Then(c, Then(d, rest))))
    <2>1. <<b, c, d>> \in Seq(Step) /\ <<a, b, c, d>> = Then(a, <<b, c, d>>)
      BY Tuples
    <2>2. Before(Then(a, <<b, c, d>>)) = Then(a, Before(<<b, c, d>>))
      BY <1>1, <2>1
    <2>3. Before(<<b, c, d>>) = Then(b, Then(c, Then(d, rest)))
      BY <1>4
    <2> QED BY <2>1, <2>2, <2>3
  <1> QED BY <1>2, <1>3, <1>4, <1>5 DEF Before

\* A step that is taken under a condition, before a plan.
LEMMA IfPlan ==
    ASSUME NEW t, NEW step \in Step, NEW rest \in Seq(Step)
    PROVE  /\ If(t, step) \in Seq(Step)
           /\ t => If(t, step) = Then(step, <<>>) /\ If(t, step) \o rest = Then(step, rest)
           /\ ~t => If(t, step) = <<>> /\ If(t, step) \o rest = rest
  <1>1. <<step>> \in Seq(Step) /\ <<step>> = Then(step, <<>>) /\ <<step>> \o rest = Then(step, rest)
    BY Tuples DEF Then
  <1>2. <<>> \in Seq(Step) /\ <<>> \o rest = rest
    BY ConcatEmptySeq
  <1>3. CASE t
    <2>1. If(t, step) = <<step>>
      BY <1>3 DEF If
    <2> QED BY <1>1, <1>3, <2>1
  <1>4. CASE ~t
    <2>1. If(t, step) = <<>>
      BY <1>4 DEF If
    <2> QED BY <1>2, <1>4, <2>1
  <1> QED BY <1>3, <1>4

LEMMA Associative == \A p, q, r \in Seq(Step) : (p \o q) \o r = p \o (q \o r)
  BY ConcatAssociative

\* The sequences that the commands are written as are these plans.
LEMMA InstallStepsPlan ==
    ASSUME NEW o, o.createUser \in BOOLEAN, o.start \in BOOLEAN, account \in BOOLEAN
    PROVE  InstallSteps(o) = Installing(o.createUser /\ ~account, o.start)
  <1> DEFINE u == o.createUser /\ ~account
             s == o.start
             a == <<"mkdir", "truncate unit", "write unit">>
             b == <<"daemon-reload", "enable">>
             c == If(u, "useradd")
             d == If(s, "start")
  <1>1. u \in BOOLEAN /\ s \in BOOLEAN
    OBVIOUS
  <1>2. InstallSteps(o) = ((a \o c) \o b) \o d
    BY DEF InstallSteps
  <1>3. a \in Seq(Step) /\ b \in Seq(Step)
    BY StepNames, Tuples
  <1> HIDE DEF u, s
  <1>4. Starting(s) \in Seq(Step) /\ Reloading(s) \in Seq(Step) /\ Written(u, s) \in Seq(Step)
    BY <1>1, PlansOK
  <1>5. c \in Seq(Step)
    BY <1>4, StepNames, IfPlan
  <1>6. d = Starting(s)
    <2>1. CASE s
      BY <1>4, <2>1, StepNames, IfPlan DEF Starting
    <2>2. CASE ~s
      BY <1>4, <2>2, StepNames, IfPlan DEF Starting
    <2> QED BY <2>1, <2>2
  <1>7. b \o Starting(s) = Reloading(s)
    <2>1. \A x, y \in Step : <<x, y>> \o Starting(s) = Then(x, Then(y, Starting(s)))
      BY <1>4, TupleConcat
    <2>2. b \o Starting(s) = Then("daemon-reload", Then("enable", Starting(s)))
      BY <2>1, StepNames, Zenon
    <2> QED BY <2>2 DEF Reloading, Enabling
  <1>8. c \o Reloading(s) = Written(u, s)
    <2>1. CASE u
      <3>1. c \o Reloading(s) = Then("useradd", Reloading(s))
        <4>1. \A step \in Step : If(u, step) \o Reloading(s) = Then(step, Reloading(s))
          BY <1>4, <2>1, IfPlan
        <4> QED BY <4>1, StepNames
      <3> QED BY <2>1, <3>1 DEF Written, Adding
    <2>2. CASE ~u
      <3>1. c \o Reloading(s) = Reloading(s)
        <4>1. \A step \in Step : If(u, step) \o Reloading(s) = Reloading(s)
          BY <1>4, <2>2, IfPlan
        <4> QED BY <4>1, StepNames
      <3> QED BY <2>2, <3>1 DEF Written
    <2> QED BY <2>1, <2>2
  <1>9. a \o Written(u, s) = Installing(u, s)
    <2>1. a \o Written(u, s)
          = Then("mkdir", Then("truncate unit", Then("write unit", Written(u, s))))
      <3>1. \A x, y, z \in Step :
               <<x, y, z>> \o Written(u, s) = Then(x, Then(y, Then(z, Written(u, s))))
        BY <1>4, TupleConcat
      <3>2. "mkdir" \in Step /\ "truncate unit" \in Step /\ "write unit" \in Step
        BY StepNames
      <3> QED BY <3>1, <3>2, Zenon
    <2> QED BY <2>1 DEF Installing, Truncating, Writing
  <1> HIDE DEF a, b, c, d
  <1>10. a \o c \in Seq(Step)
    BY <1>3, <1>5, ConcatProperties
  <1>11. ((a \o c) \o b) \o Starting(s) = (a \o c) \o (b \o Starting(s))
    <2>1. Starting(s) \in Seq(Step) /\ b \in Seq(Step)
      BY <1>3, <1>4
    <2> QED BY <1>10, <2>1, Associative, Zenon
  <1>12. (a \o c) \o Reloading(s) = a \o (c \o Reloading(s))
    BY <1>3, <1>4, <1>5, Associative
  <1>13. InstallSteps(o) = Installing(u, s)
    BY <1>2, <1>6, <1>7, <1>8, <1>9, <1>11, <1>12
  <1> QED BY <1>13 DEF u, s

LEMMA UninstallStepsPlan ==
    ASSUME NEW o, o.purge \in BOOLEAN
    PROVE  UninstallSteps(o) = Stopping(o.purge)
  <1> DEFINE p == o.purge
             a == <<"stop", "disable", "unlink unit", "daemon-reload">>
             c == If(p, "purge env")
             d == If(p, "purge workdir")
  <1>1. p \in BOOLEAN
    OBVIOUS
  <1>2. UninstallSteps(o) = (a \o c) \o d
    BY DEF UninstallSteps
  <1>3. a \in Seq(Step)
    BY StepNames, Tuples
  <1> HIDE DEF p
  <1>4. PurgingDir(p) \in Seq(Step) /\ Purging(p) \in Seq(Step)
    BY <1>1, PlansOK
  <1>5. c \in Seq(Step)
    BY <1>4, StepNames, IfPlan
  <1>6. d = PurgingDir(p)
    <2>1. CASE p
      BY <1>4, <2>1, StepNames, IfPlan DEF PurgingDir
    <2>2. CASE ~p
      BY <1>4, <2>2, StepNames, IfPlan DEF PurgingDir
    <2> QED BY <2>1, <2>2
  <1>7. c \o PurgingDir(p) = Purging(p)
    <2>1. CASE p
      <3>1. c \o PurgingDir(p) = Then("purge env", PurgingDir(p))
        <4>1. \A step \in Step : If(p, step) \o PurgingDir(p) = Then(step, PurgingDir(p))
          BY <1>4, <2>1, IfPlan
        <4> QED BY <4>1, StepNames
      <3> QED BY <2>1, <3>1 DEF Purging
    <2>2. CASE ~p
      <3>1. c \o PurgingDir(p) = PurgingDir(p)
        <4>1. \A step \in Step : If(p, step) \o PurgingDir(p) = PurgingDir(p)
          BY <1>4, <2>2, IfPlan
        <4> QED BY <4>1, StepNames
      <3>2. PurgingDir(p) = <<>> /\ Purging(p) = <<>>
        BY <2>2 DEF PurgingDir, Purging
      <3> QED BY <3>1, <3>2
    <2> QED BY <2>1, <2>2
  <1>8. a \o Purging(p) = Stopping(p)
    <2>1. a \o Purging(p)
          = Then("stop", Then("disable", Then("unlink unit", Then("daemon-reload", Purging(p)))))
      <3>1. \A x, y, z, w \in Step : <<x, y, z, w>> \o Purging(p)
                                     = Then(x, Then(y, Then(z, Then(w, Purging(p)))))
        BY <1>4, TupleConcat
      <3>2. "stop" \in Step /\ "disable" \in Step
        BY StepNames
      <3>3. "unlink unit" \in Step /\ "daemon-reload" \in Step
        BY StepNames
      <3>4. \A z, w \in Step : <<"stop", "disable", z, w>> \o Purging(p)
                              = Then("stop", Then("disable", Then(z, Then(w, Purging(p)))))
        BY <3>1, <3>2, Zenon
      <3> QED BY <3>3, <3>4, Zenon
    <2> QED BY <2>1 DEF Stopping, Disabling, Unlinking, Forgetting
  <1> HIDE DEF a, c, d
  <1>9. (a \o c) \o PurgingDir(p) = a \o (c \o PurgingDir(p))
    BY <1>3, <1>4, <1>5, Associative
  <1>10. UninstallSteps(o) = Stopping(p)
    BY <1>2, <1>6, <1>7, <1>8, <1>9
  <1> QED BY <1>10 DEF p

LEMMA ConfigStepsPlan == <<"truncate env", "write env", "chmod env">> = TruncatingEnv
  <1>1. <<"truncate env", "write env", "chmod env">>
        = Then("truncate env", <<"write env", "chmod env">>)
    <2>1. \A a, b, c \in Step : <<a, b, c>> = Then(a, <<b, c>>)
      BY Tuples
    <2>2. "truncate env" \in Step /\ "write env" \in Step /\ "chmod env" \in Step
      BY StepNames
    <2> QED BY <2>1, <2>2, Zenon
  <1>2. <<"write env", "chmod env">> = Then("write env", <<"chmod env">>)
    BY StepNames, Tuples
  <1>3. <<"chmod env">> = Then("chmod env", <<>>)
    BY StepNames, Tuples
  <1> QED BY <1>1, <1>2, <1>3 DEF TruncatingEnv, WritingEnv, ChangingMode

LEMMA ActionPlan ==
    ASSUME NEW action \in {"start", "stop", "restart"}
    PROVE  <<action>> = Then(action, <<>>) /\ Goes(Then(action, <<>>), action, <<>>)
  <1>1. action \in Step
    BY DEF Step
  <1>2. <<>> \in Seq(Step)
    OBVIOUS
  <1> QED BY <1>1, <1>2, Tuples, StepFacts DEF Goes

-----------------------------------------------------------------------------
(* The inductive invariant *)

Installs == [cmd : {"install"}, port : Ports \cup {NoPort}, createUser : BOOLEAN, start : BOOLEAN]
Uninstalls == [cmd : {"uninstall"}, purge : BOOLEAN]
Configs == [cmd : {"config init"}, port : Ports, force : BOOLEAN,
            secrets : {"generated", "template"}]
Actions == [cmd : {"start", "stop", "restart"}]
Others == [cmd : {"none", "edit"}]
Commands == Installs \cup Uninstalls \cup Configs \cup Actions \cup Others

Typed == TypeOK /\ command \in Commands

\* systemd has a definition of what runs, and forgets a unit that is neither enabled
\* nor running.
SystemdInv ==
    /\ running # Down => Whole(loaded)
    /\ Whole(loaded) => enabled \/ running # Down

\* What each step of an installation finds done.
AccountReady == command.createUser => account
UnitWritten == workdir /\ unit = [port |-> command.port]
InstallAt ==
    \/ \E u \in BOOLEAN :
          /\ u \/ AccountReady
          /\ \/ todo = Installing(u, command.start)
             \/ workdir /\ todo = Truncating(u, command.start)
             \/ workdir /\ todo = Writing(u, command.start)
    \/ UnitWritten /\ todo = Adding(command.start)
    \/ UnitWritten /\ AccountReady /\ todo = Reloading(command.start)
    \/ UnitWritten /\ AccountReady /\ todo = Enabling(command.start)
    \/ /\ UnitWritten /\ AccountReady /\ enabled /\ loaded = unit
       /\ command.start /\ todo = Starting(command.start)

\* What each step of a removal finds done.
Disabled == running = Down /\ ~enabled /\ loaded = NoUnit
UninstallAt ==
    \/ todo = Stopping(command.purge)
    \/ running = Down /\ todo = Disabling(command.purge)
    \/ Disabled /\ todo = Unlinking(command.purge)
    \/ Disabled /\ unit = NoUnit /\ todo = Forgetting(command.purge)
    \/ Disabled /\ unit = NoUnit /\ command.purge /\ todo = Purging(command.purge)
    \/ /\ Disabled /\ unit = NoUnit /\ env = NoFile
       /\ command.purge /\ todo = PurgingDir(command.purge)

\* What each step of config init finds done.
ConfigAt ==
    \/ (env = NoFile \/ command.force) /\ todo = TruncatingEnv
    \/ env = Torn /\ todo = WritingEnv
    \/ todo = ChangingMode

Progress ==
    \/ todo = <<>>
    \/ command \in Installs /\ InstallAt
    \/ command \in Uninstalls /\ UninstallAt
    \/ command \in Configs /\ ConfigAt
    \/ command \in Actions /\ todo = Then(command.cmd, <<>>)

LifeInv == Typed /\ NoOrphan /\ SystemdInv /\ Progress /\ InstallComplete /\ UninstallComplete

LEMMA CommandFacts ==
    /\ \A c \in Installs : /\ c.cmd = "install" /\ c.port \in Ports \cup {NoPort}
                           /\ c.createUser \in BOOLEAN /\ c.start \in BOOLEAN
    /\ \A c \in Uninstalls : c.cmd = "uninstall" /\ c.purge \in BOOLEAN
    /\ \A c \in Configs : /\ c.cmd = "config init" /\ c.port \in Ports
                          /\ c.force \in BOOLEAN /\ c.secrets \in {"generated", "template"}
    /\ \A c \in Actions : c.cmd \in {"start", "stop", "restart"}
    /\ \A c \in Others : c.cmd \in {"none", "edit"}
  BY DEF Installs, Uninstalls, Configs, Actions, Others

\* The step that is taken next, what it finds, and what is left after it.
Position ==
    \/ /\ Head(todo) = "mkdir" /\ command \in Installs
       /\ \E u \in BOOLEAN : (u \/ AccountReady) /\ Tail(todo) = Truncating(u, command.start)
    \/ /\ Head(todo) = "truncate unit" /\ command \in Installs /\ workdir
       /\ \E u \in BOOLEAN : (u \/ AccountReady) /\ Tail(todo) = Writing(u, command.start)
    \/ /\ Head(todo) = "write unit" /\ command \in Installs /\ workdir
       /\ \/ Tail(todo) = Adding(command.start)
          \/ AccountReady /\ Tail(todo) = Reloading(command.start)
    \/ /\ Head(todo) = "useradd" /\ command \in Installs /\ UnitWritten
       /\ Tail(todo) = Reloading(command.start)
    \/ /\ Head(todo) = "daemon-reload" /\ command \in Installs /\ UnitWritten /\ AccountReady
       /\ Tail(todo) = Enabling(command.start)
    \/ /\ Head(todo) = "enable" /\ command \in Installs /\ UnitWritten /\ AccountReady
       /\ Tail(todo) = Starting(command.start)
    \/ /\ Head(todo) = "start" /\ command \in Installs /\ UnitWritten /\ AccountReady
       /\ enabled /\ loaded = unit /\ Tail(todo) = <<>>
    \/ /\ Head(todo) = "stop" /\ command \in Uninstalls
       /\ Tail(todo) = Disabling(command.purge)
    \/ /\ Head(todo) = "disable" /\ command \in Uninstalls /\ running = Down
       /\ Tail(todo) = Unlinking(command.purge)
    \/ /\ Head(todo) = "unlink unit" /\ command \in Uninstalls /\ Disabled
       /\ Tail(todo) = Forgetting(command.purge)
    \/ /\ Head(todo) = "daemon-reload" /\ command \in Uninstalls /\ Disabled /\ unit = NoUnit
       /\ Tail(todo) = Purging(command.purge)
    \/ /\ Head(todo) = "purge env" /\ command \in Uninstalls /\ Disabled /\ unit = NoUnit
       /\ command.purge /\ Tail(todo) = PurgingDir(command.purge)
    \/ /\ Head(todo) = "purge workdir" /\ command \in Uninstalls /\ Disabled /\ unit = NoUnit
       /\ env = NoFile /\ Tail(todo) = <<>>
    \/ /\ Head(todo) = "truncate env" /\ command \in Configs /\ (env = NoFile \/ command.force)
       /\ Tail(todo) = WritingEnv
    \/ Head(todo) = "write env" /\ command \in Configs /\ env = Torn /\ Tail(todo) = ChangingMode
    \/ Head(todo) = "chmod env" /\ command \in Configs /\ Tail(todo) = <<>>
    \/ /\ Head(todo) \in {"start", "stop", "restart"} /\ command \in Actions
       /\ Tail(todo) = <<>>

LEMMA AtStep ==
    ASSUME LifeInv, todo # <<>>
    PROVE  Position
  <1>1. CASE command \in Installs /\ InstallAt
    <2>1. command.start \in BOOLEAN
      BY <1>1, CommandFacts
    <2>2. ASSUME NEW u \in BOOLEAN, u \/ AccountReady, todo = Installing(u, command.start)
          PROVE  Position
      <3>1. Goes(todo, "mkdir", Truncating(u, command.start))
        BY <2>1, <2>2, PlanSteps
      <3> QED BY <1>1, <2>2, <3>1 DEF Goes, Position
    <2>3. ASSUME NEW u \in BOOLEAN, u \/ AccountReady, workdir,
                 todo = Truncating(u, command.start)
          PROVE  Position
      <3>1. Goes(todo, "truncate unit", Writing(u, command.start))
        BY <2>1, <2>3, PlanSteps
      <3> QED BY <1>1, <2>3, <3>1 DEF Goes, Position
    <2>4. ASSUME NEW u \in BOOLEAN, u \/ AccountReady, workdir,
                 todo = Writing(u, command.start)
          PROVE  Position
      <3>1. Goes(todo, "write unit", Written(u, command.start))
        BY <2>1, <2>4, PlanSteps
      <3>2. \/ Written(u, command.start) = Adding(command.start)
            \/ AccountReady /\ Written(u, command.start) = Reloading(command.start)
        BY <2>4 DEF Written
      <3> QED BY <1>1, <2>4, <3>1, <3>2 DEF Goes, Position
    <2>5. CASE UnitWritten /\ todo = Adding(command.start)
      <3>1. Goes(todo, "useradd", Reloading(command.start))
        BY <2>1, <2>5, PlanSteps
      <3> QED BY <1>1, <2>5, <3>1 DEF Goes, Position
    <2>6. CASE UnitWritten /\ AccountReady /\ todo = Reloading(command.start)
      <3>1. Goes(todo, "daemon-reload", Enabling(command.start))
        BY <2>1, <2>6, PlanSteps
      <3> QED BY <1>1, <2>6, <3>1 DEF Goes, Position
    <2>7. CASE UnitWritten /\ AccountReady /\ todo = Enabling(command.start)
      <3>1. Goes(todo, "enable", Starting(command.start))
        BY <2>1, <2>7, PlanSteps
      <3> QED BY <1>1, <2>7, <3>1 DEF Goes, Position
    <2>8. CASE /\ UnitWritten /\ AccountReady /\ enabled /\ loaded = unit
               /\ command.start /\ todo = Starting(command.start)
      <3>1. Goes(todo, "start", <<>>)
        BY <2>1, <2>8, PlanSteps
      <3> QED BY <1>1, <2>8, <3>1 DEF Goes, Position
    <2> QED BY <1>1, <2>2, <2>3, <2>4, <2>5, <2>6, <2>7, <2>8 DEF InstallAt
  <1>2. CASE command \in Uninstalls /\ UninstallAt
    <2>1. command.purge \in BOOLEAN
      BY <1>2, CommandFacts
    <2>2. CASE todo = Stopping(command.purge)
      <3>1. Goes(todo, "stop", Disabling(command.purge))
        BY <2>1, <2>2, PlanSteps
      <3> QED BY <1>2, <3>1 DEF Goes, Position
    <2>3. CASE running = Down /\ todo = Disabling(command.purge)
      <3>1. Goes(todo, "disable", Unlinking(command.purge))
        BY <2>1, <2>3, PlanSteps
      <3> QED BY <1>2, <2>3, <3>1 DEF Goes, Position
    <2>4. CASE Disabled /\ todo = Unlinking(command.purge)
      <3>1. Goes(todo, "unlink unit", Forgetting(command.purge))
        BY <2>1, <2>4, PlanSteps
      <3> QED BY <1>2, <2>4, <3>1 DEF Goes, Position
    <2>5. CASE Disabled /\ unit = NoUnit /\ todo = Forgetting(command.purge)
      <3>1. Goes(todo, "daemon-reload", Purging(command.purge))
        BY <2>1, <2>5, PlanSteps
      <3> QED BY <1>2, <2>5, <3>1 DEF Goes, Position
    <2>6. CASE Disabled /\ unit = NoUnit /\ command.purge /\ todo = Purging(command.purge)
      <3>1. Goes(todo, "purge env", PurgingDir(command.purge))
        BY <2>1, <2>6, PlanSteps
      <3> QED BY <1>2, <2>6, <3>1 DEF Goes, Position
    <2>7. CASE /\ Disabled /\ unit = NoUnit /\ env = NoFile
               /\ command.purge /\ todo = PurgingDir(command.purge)
      <3>1. Goes(todo, "purge workdir", <<>>)
        BY <2>1, <2>7, PlanSteps
      <3> QED BY <1>2, <2>7, <3>1 DEF Goes, Position
    <2> QED BY <1>2, <2>2, <2>3, <2>4, <2>5, <2>6, <2>7 DEF UninstallAt
  <1>3. CASE command \in Configs /\ ConfigAt
    <2>1. CASE (env = NoFile \/ command.force) /\ todo = TruncatingEnv
      <3>1. Goes(todo, "truncate env", WritingEnv)
        BY <2>1, PlanSteps
      <3> QED BY <1>3, <2>1, <3>1 DEF Goes, Position
    <2>2. CASE env = Torn /\ todo = WritingEnv
      <3>1. Goes(todo, "write env", ChangingMode)
        BY <2>2, PlanSteps
      <3> QED BY <1>3, <2>2, <3>1 DEF Goes, Position
    <2>3. CASE todo = ChangingMode
      <3>1. Goes(todo, "chmod env", <<>>)
        BY <2>3, PlanSteps
      <3> QED BY <1>3, <3>1 DEF Goes, Position
    <2> QED BY <1>3, <2>1, <2>2, <2>3 DEF ConfigAt
  <1>4. CASE command \in Actions /\ todo = Then(command.cmd, <<>>)
    <2>1. command.cmd \in {"start", "stop", "restart"}
      BY <1>4, CommandFacts
    <2>2. Goes(todo, command.cmd, <<>>)
      BY <1>4, <2>1, ActionPlan
    <2> QED BY <1>4, <2>1, <2>2 DEF Goes, Position
  <1> QED BY <1>1, <1>2, <1>3, <1>4 DEF LifeInv, Progress

-----------------------------------------------------------------------------
(* The steps of the commands *)

\* What holds of a command once it is done says nothing while steps are left.
LEMMA NotDone ==
    ASSUME todo' # <<>>
    PROVE  InstallComplete' /\ UninstallComplete'
  BY DEF InstallComplete, UninstallComplete, Completed

LEMMA MakeDirsKeeps ==
    ASSUME LifeInv, MakeDirs
    PROVE  LifeInv'
  <1>1. todo # <<>> /\ Head(todo) = "mkdir" /\ todo' = Tail(todo)
    BY DEF MakeDirs, Take
  <1>2. PICK u \in BOOLEAN : (u \/ AccountReady) /\ todo' = Truncating(u, command.start)
    BY <1>1, AtStep DEF Position
  <1>3. command \in Installs /\ command.start \in BOOLEAN
    BY <1>1, AtStep, CommandFacts DEF Position
  <1>4. todo' # <<>>
    BY <1>2, <1>3, PlanSteps DEF Goes
  <1>5. Typed' /\ NoOrphan' /\ SystemdInv'
    BY DEF LifeInv, MakeDirs, Take, systemd, Typed, TypeOK, NoOrphan, SystemdInv, Whole
  <1>6. Progress'
    BY <1>2, <1>3 DEF MakeDirs, Take, Progress, InstallAt, AccountReady
  <1> QED BY <1>4, <1>5, <1>6, NotDone DEF LifeInv

LEMMA WriteUnitKeeps ==
    ASSUME LifeInv, WriteUnit
    PROVE  LifeInv'
  <1>1. CASE Take("truncate unit") /\ unit' = Torn
    <2>1. todo # <<>> /\ Head(todo) = "truncate unit" /\ todo' = Tail(todo)
      BY <1>1 DEF Take
    <2>2. PICK u \in BOOLEAN : (u \/ AccountReady) /\ todo' = Writing(u, command.start)
      BY <2>1, AtStep DEF Position
    <2>3. command \in Installs /\ command.start \in BOOLEAN /\ workdir
      BY <2>1, AtStep, CommandFacts DEF Position
    <2>4. todo' # <<>>
      BY <2>2, <2>3, PlanSteps DEF Goes
    <2>5. Typed'
      BY <1>1 DEF LifeInv, WriteUnit, Take, systemd, Typed, TypeOK, Units
    <2>6. NoOrphan' /\ SystemdInv'
      BY <1>1, FilesAssumption
      DEF LifeInv, WriteUnit, Take, systemd, NoOrphan, SystemdInv, Whole
    <2>7. Progress'
      BY <1>1, <2>2, <2>3 DEF WriteUnit, Take, Progress, InstallAt, AccountReady
    <2> QED BY <2>4, <2>5, <2>6, <2>7, NotDone DEF LifeInv
  <1>2. CASE Take("write unit") /\ unit' = [port |-> command.port]
    <2>1. todo # <<>> /\ Head(todo) = "write unit" /\ todo' = Tail(todo)
      BY <1>2 DEF Take
    <2>2. /\ command \in Installs /\ command.start \in BOOLEAN /\ workdir
          /\ command.port \in Ports \cup {NoPort}
      BY <2>1, AtStep, CommandFacts DEF Position
    <2>3. \/ todo' = Adding(command.start)
          \/ AccountReady /\ todo' = Reloading(command.start)
      BY <2>1, AtStep DEF Position
    <2>4. todo' # <<>>
      BY <2>2, <2>3, PlanSteps DEF Goes
    <2>5. Typed'
      <3>1. unit' \in Units
        BY <1>2, <2>2 DEF Units
      <3> QED BY <1>2, <3>1 DEF LifeInv, WriteUnit, Take, systemd, Typed, TypeOK
    <2>6. NoOrphan' /\ SystemdInv'
      BY <1>2, <2>2, FilesAssumption
      DEF LifeInv, WriteUnit, Take, systemd, NoOrphan, SystemdInv, Whole
    <2>7. UnitWritten' /\ command' = command /\ account' = account
      BY <1>2, <2>2 DEF WriteUnit, Take, UnitWritten
    <2>8. Progress'
      BY <2>2, <2>3, <2>7 DEF Progress, InstallAt, AccountReady
    <2> QED BY <2>4, <2>5, <2>6, <2>8, NotDone DEF LifeInv
  <1>3. CASE Take("unlink unit") /\ unit' = NoUnit
    <2>1. todo # <<>> /\ Head(todo) = "unlink unit" /\ todo' = Tail(todo)
      BY <1>3 DEF Take
    <2>2. /\ command \in Uninstalls /\ command.purge \in BOOLEAN /\ Disabled
          /\ todo' = Forgetting(command.purge)
      BY <2>1, AtStep, CommandFacts DEF Position
    <2>3. todo' # <<>>
      BY <2>2, PlanSteps DEF Goes
    <2>4. Typed'
      BY <1>3 DEF LifeInv, WriteUnit, Take, systemd, Typed, TypeOK, Units
    <2>5. Disabled' /\ unit' = NoUnit /\ command' = command
      BY <1>3, <2>2 DEF WriteUnit, Take, systemd, Disabled
    <2>6. NoOrphan' /\ SystemdInv'
      BY <2>5 DEF Disabled, NoOrphan, SystemdInv, Whole
    <2>7. Progress'
      BY <2>2, <2>5 DEF Progress, UninstallAt
    <2> QED BY <2>3, <2>4, <2>6, <2>7, NotDone DEF LifeInv
  <1> QED BY <1>1, <1>2, <1>3 DEF WriteUnit

LEMMA WriteEnvKeeps ==
    ASSUME LifeInv, WriteEnv
    PROVE  LifeInv'
  <1>1. /\ todo # <<>> /\ todo' = Tail(todo) /\ command' = command /\ unit' = unit
        /\ running' = running /\ enabled' = enabled /\ loaded' = loaded
        /\ workdir' = workdir /\ account' = account /\ failed' = failed /\ count' = count
    BY DEF WriteEnv, Take, systemd
  <1>2. NoOrphan' /\ SystemdInv'
    BY <1>1 DEF LifeInv, NoOrphan, SystemdInv, Whole
  <1>3. CASE Take("truncate env") /\ env' = Torn
    <2>1. command \in Configs /\ todo' = WritingEnv
      BY <1>1, <1>3, AtStep DEF Take, Position
    <2>2. todo' # <<>>
      BY <2>1, PlanSteps DEF Goes
    <2>3. Typed'
      BY <1>1, <1>3 DEF LifeInv, Typed, TypeOK
    <2>4. Progress'
      BY <1>1, <1>3, <2>1 DEF Progress, ConfigAt
    <2> QED BY <1>2, <2>2, <2>3, <2>4, NotDone DEF LifeInv
  <1>4. CASE Take("write env") /\ env' = [port |-> command.port, secrets |-> command.secrets]
    <2>1. command \in Configs /\ todo' = ChangingMode
      BY <1>1, <1>4, AtStep DEF Take, Position
    <2>2. todo' # <<>>
      BY <2>1, PlanSteps DEF Goes
    <2>3. env' \in [port : Ports \cup {NoPort}, secrets : Secrets]
      BY <1>4, <2>1, CommandFacts DEF Secrets
    <2>4. Typed'
      BY <1>1, <2>3 DEF LifeInv, Typed, TypeOK
    <2>5. Progress'
      BY <1>1, <2>1 DEF Progress, ConfigAt
    <2> QED BY <1>2, <2>2, <2>4, <2>5, NotDone DEF LifeInv
  <1>5. CASE Take("chmod env") /\ env' = env
    <2>1. command \in Configs /\ todo' = <<>>
      BY <1>1, <1>5, AtStep DEF Take, Position
    <2>2. command.cmd = "config init"
      BY <2>1, CommandFacts
    <2>3. Typed' /\ Progress' /\ InstallComplete' /\ UninstallComplete'
      BY <1>1, <1>5, <2>1, <2>2
      DEF LifeInv, Typed, TypeOK, Progress, InstallComplete, UninstallComplete, Completed
    <2> QED BY <1>2, <2>3 DEF LifeInv
  <1>6. CASE Take("purge env") /\ env' = NoFile
    <2>1. /\ command \in Uninstalls /\ command.purge /\ Disabled /\ unit = NoUnit
          /\ todo' = PurgingDir(command.purge)
      BY <1>1, <1>6, AtStep DEF Take, Position
    <2>2. command.purge \in BOOLEAN
      BY <2>1, CommandFacts
    <2>3. todo' # <<>>
      BY <2>1, <2>2, PlanSteps DEF Goes
    <2>4. Typed'
      BY <1>1, <1>6 DEF LifeInv, Typed, TypeOK
    <2>5. Disabled' /\ unit' = NoUnit
      BY <1>1, <2>1 DEF Disabled
    <2>6. Progress'
      BY <1>1, <1>6, <2>1, <2>5 DEF Progress, UninstallAt
    <2> QED BY <1>2, <2>3, <2>4, <2>6, NotDone DEF LifeInv
  <1> QED BY <1>3, <1>4, <1>5, <1>6 DEF WriteEnv

LEMMA UserAddKeeps ==
    ASSUME LifeInv, UserAdd
    PROVE  LifeInv'
  <1>1. /\ todo # <<>> /\ Head(todo) = "useradd" /\ todo' = Tail(todo)
        /\ command' = command /\ account' = TRUE
    BY DEF UserAdd, Take
  <1>2. /\ command \in Installs /\ command.start \in BOOLEAN /\ UnitWritten
        /\ todo' = Reloading(command.start)
    BY <1>1, AtStep, CommandFacts DEF Position
  <1>3. todo' # <<>>
    BY <1>2, PlanSteps DEF Goes
  <1>4. Typed'
    BY DEF LifeInv, UserAdd, Take, systemd, Typed, TypeOK
  <1>5. NoOrphan' /\ SystemdInv'
    BY DEF LifeInv, UserAdd, Take, systemd, NoOrphan, SystemdInv, Whole
  <1>6. UnitWritten' /\ AccountReady'
    BY <1>1, <1>2 DEF UserAdd, Take, UnitWritten, AccountReady
  <1>7. Progress'
    BY <1>1, <1>2, <1>6 DEF Progress, InstallAt
  <1> QED BY <1>3, <1>4, <1>5, <1>7, NotDone DEF LifeInv

LEMMA PurgeWorkdirKeeps ==
    ASSUME LifeInv, PurgeWorkdir
    PROVE  LifeInv'
  <1>1. /\ todo # <<>> /\ Head(todo) = "purge workdir" /\ todo' = Tail(todo)
        /\ command' = command /\ workdir' = FALSE
    BY DEF PurgeWorkdir, Take
  <1>2. /\ command \in Uninstalls /\ Disabled /\ unit = NoUnit /\ env = NoFile
        /\ todo' = <<>>
    BY <1>1, AtStep DEF Position
  <1>3. Typed'
    BY DEF LifeInv, PurgeWorkdir, Take, systemd, Typed, TypeOK
  <1>4. NoOrphan' /\ SystemdInv'
    BY DEF LifeInv, PurgeWorkdir, Take, systemd, NoOrphan, SystemdInv, Whole
  <1>5. Disabled' /\ unit' = NoUnit /\ env' = NoFile
    BY <1>2 DEF PurgeWorkdir, systemd, Disabled
  <1>6. Progress' /\ UninstallComplete'
    BY <1>1, <1>2, <1>5 DEF Progress, UninstallComplete, Disabled
  <1>7. InstallComplete'
    BY <1>1, <1>2, CommandFacts DEF InstallComplete, Completed
  <1> QED BY <1>3, <1>4, <1>6, <1>7 DEF LifeInv

LEMMA DaemonReloadKeeps ==
    ASSUME LifeInv, DaemonReload
    PROVE  LifeInv'
  <1>1. /\ todo # <<>> /\ Head(todo) = "daemon-reload" /\ todo' = Tail(todo)
        /\ command' = command /\ running' = running /\ enabled' = enabled /\ failed' = failed
        /\ count' = count /\ unit' = unit /\ env' = env /\ workdir' = workdir
        /\ account' = account /\ loaded' = Reloaded
    BY DEF DaemonReload, Take, files
  <1>2. Typed'
    BY <1>1 DEF LifeInv, Typed, TypeOK, Units, Reloaded
  <1>3. NoOrphan'
    BY <1>1 DEF LifeInv, NoOrphan
  <1>4. CASE command \in Installs
    <2>1. command.cmd = "install" /\ command.start \in BOOLEAN /\ command.port \in Ports \cup {NoPort}
      BY <1>4, CommandFacts
    <2>2. /\ UnitWritten /\ AccountReady /\ todo' = Enabling(command.start)
      BY <1>1, <2>1, AtStep, CommandFacts DEF Position
    <2>3. todo' # <<>>
      BY <2>1, <2>2, PlanSteps DEF Goes
    <2>4. Whole(unit)
      BY <2>1, <2>2, FilesAssumption DEF UnitWritten, Whole
    <2>5. SystemdInv'
      BY <1>1, <2>4 DEF SystemdInv, Reloaded, Whole
    <2>6. UnitWritten' /\ AccountReady'
      BY <1>1, <2>2 DEF UnitWritten, AccountReady
    <2>7. Progress'
      BY <1>1, <1>4, <2>2, <2>6 DEF Progress, InstallAt
    <2> QED BY <1>2, <1>3, <2>3, <2>5, <2>7, NotDone DEF LifeInv
  <1>5. CASE command \notin Installs
    <2>1. /\ command \in Uninstalls /\ Disabled /\ unit = NoUnit
          /\ todo' = Purging(command.purge)
      BY <1>1, <1>5, AtStep DEF Position
    <2>2. command.purge \in BOOLEAN /\ command.cmd = "uninstall"
      BY <2>1, CommandFacts
    <2>3. Disabled' /\ unit' = NoUnit
      BY <1>1, <2>1 DEF Disabled, Reloaded
    <2>4. SystemdInv'
      BY <2>3 DEF SystemdInv, Disabled, Whole
    <2>5. CASE command.purge
      <3>1. todo' # <<>>
        BY <2>1, <2>2, <2>5, PlanSteps DEF Goes
      <3>2. Progress'
        BY <1>1, <2>1, <2>3, <2>5 DEF Progress, UninstallAt
      <3> QED BY <1>2, <1>3, <2>4, <3>1, <3>2, NotDone DEF LifeInv
    <2>6. CASE ~command.purge
      <3>1. todo' = <<>>
        BY <2>1, <2>6 DEF Purging
      <3>2. Progress' /\ InstallComplete' /\ UninstallComplete'
        BY <1>1, <2>2, <2>3, <2>6, <3>1
        DEF Progress, InstallComplete, UninstallComplete, Completed, Disabled
      <3> QED BY <1>2, <1>3, <2>4, <3>2 DEF LifeInv
    <2> QED BY <2>5, <2>6
  <1> QED BY <1>4, <1>5

LEMMA EnableKeeps ==
    ASSUME LifeInv, Enable
    PROVE  LifeInv'
  <1>1. /\ todo # <<>> /\ Head(todo) = "enable" /\ todo' = Tail(todo) /\ Possible("enable")
        /\ command' = command /\ running' = running /\ enabled' = TRUE /\ failed' = failed
        /\ count' = count /\ unit' = unit /\ env' = env /\ workdir' = workdir
        /\ account' = account /\ loaded' = unit
    BY DEF Enable, Take, files
  <1>2. Whole(unit)
    BY <1>1 DEF Possible
  <1>3. /\ command \in Installs /\ UnitWritten /\ AccountReady
        /\ todo' = Starting(command.start)
    BY <1>1, AtStep DEF Position
  <1>4. command.cmd = "install" /\ command.start \in BOOLEAN
    BY <1>3, CommandFacts
  <1>5. Typed'
    BY <1>1 DEF LifeInv, Typed, TypeOK
  <1>6. NoOrphan' /\ SystemdInv'
    BY <1>1, <1>2 DEF NoOrphan, SystemdInv, Whole
  <1>7. UnitWritten' /\ AccountReady'
    BY <1>1, <1>3 DEF UnitWritten, AccountReady
  <1>8. CASE command.start
    <2>1. todo' # <<>>
      BY <1>3, <1>4, <1>8, PlanSteps DEF Goes
    <2>2. Progress'
      BY <1>1, <1>3, <1>7, <1>8 DEF Progress, InstallAt
    <2> QED BY <1>5, <1>6, <2>1, <2>2, NotDone DEF LifeInv
  <1>9. CASE ~command.start
    <2>1. todo' = <<>>
      BY <1>3, <1>9 DEF Starting
    <2>2. Progress' /\ UninstallComplete'
      BY <1>1, <1>4, <2>1 DEF Progress, UninstallComplete, Completed
    <2>3. InstallComplete'
      BY <1>1, <1>7, <1>9 DEF InstallComplete, UnitWritten, AccountReady
    <2> QED BY <1>5, <1>6, <2>2, <2>3 DEF LifeInv
  <1> QED BY <1>8, <1>9

LEMMA DisableKeeps ==
    ASSUME LifeInv, Disable
    PROVE  LifeInv'
  <1>1. /\ todo # <<>> /\ Head(todo) = "disable" /\ todo' = Tail(todo)
        /\ command' = command /\ running' = running /\ enabled' = FALSE /\ failed' = failed
        /\ count' = count /\ unit' = unit /\ env' = env /\ workdir' = workdir
        /\ account' = account /\ loaded' = IF running = Down THEN NoUnit ELSE unit
    BY DEF Disable, Take, files
  <1>2. /\ command \in Uninstalls /\ running = Down /\ todo' = Unlinking(command.purge)
    BY <1>1, AtStep DEF Position
  <1>3. command.purge \in BOOLEAN
    BY <1>2, CommandFacts
  <1>4. todo' # <<>>
    BY <1>2, <1>3, PlanSteps DEF Goes
  <1>5. Typed'
    BY <1>1 DEF LifeInv, Typed, TypeOK, Units
  <1>6. Disabled'
    BY <1>1, <1>2 DEF Disabled
  <1>7. NoOrphan' /\ SystemdInv'
    BY <1>6 DEF NoOrphan, SystemdInv, Whole, Disabled
  <1>8. Progress'
    BY <1>1, <1>2, <1>6 DEF Progress, UninstallAt
  <1> QED BY <1>4, <1>5, <1>7, <1>8, NotDone DEF LifeInv

LEMMA StopKeeps ==
    ASSUME LifeInv, Stop
    PROVE  LifeInv'
  <1>1. /\ todo # <<>> /\ Head(todo) = "stop" /\ todo' = Tail(todo)
        /\ command' = command /\ running' = Down /\ enabled' = enabled /\ failed' = failed
        /\ count' = count /\ unit' = unit /\ env' = env /\ workdir' = workdir
        /\ account' = account /\ loaded' = IF enabled THEN loaded ELSE NoUnit
    BY DEF Stop, Take, files
  <1>2. Typed'
    BY <1>1 DEF LifeInv, Typed, TypeOK, Units
  <1>3. NoOrphan' /\ SystemdInv'
    BY <1>1 DEF LifeInv, NoOrphan, SystemdInv, Whole
  <1>4. CASE command \in Uninstalls
    <2>1. command.purge \in BOOLEAN /\ command.cmd = "uninstall"
      BY <1>4, CommandFacts
    <2>2. todo' = Disabling(command.purge)
      BY <1>1, <2>1, AtStep, CommandFacts DEF Position
    <2>3. todo' # <<>>
      BY <2>1, <2>2, PlanSteps DEF Goes
    <2>4. Progress'
      BY <1>1, <1>4, <2>2 DEF Progress, UninstallAt
    <2> QED BY <1>2, <1>3, <2>3, <2>4, NotDone DEF LifeInv
  <1>5. CASE command \notin Uninstalls
    <2>1. command \in Actions /\ todo' = <<>>
      BY <1>1, <1>5, AtStep DEF Position
    <2>2. Progress' /\ InstallComplete' /\ UninstallComplete'
      BY <1>1, <2>1, CommandFacts DEF Progress, InstallComplete, UninstallComplete, Completed
    <2> QED BY <1>2, <1>3, <2>2 DEF LifeInv
  <1> QED BY <1>4, <1>5

\* A service that is launched comes up or is started again.
LEMMA LaunchedFacts ==
    ASSUME LifeInv, NEW definition \in Units, Whole(definition)
    PROVE  /\ Launched(definition) \in Ports \cup {DefaultPort, Down, Retrying}
           /\ Launched(definition) # Down
  <1>1. definition.port \in Ports \cup {NoPort}
    BY DEF Units, Whole
  <1>2. CASE CanServe
    <2>1. env.port \in Ports \cup {NoPort}
      BY <1>2 DEF CanServe, Whole, LifeInv, Typed, TypeOK
    <2>2. Port(definition) \in Ports \cup {DefaultPort}
      BY <1>1, <2>1 DEF Port
    <2> QED BY <1>2, <2>2, LifecycleAssumption DEF Launched
  <1>3. CASE ~CanServe
    BY <1>3, FilesAssumption DEF Launched
  <1> QED BY <1>2, <1>3

\* systemd starts nothing whose unit is gone.
LEMMA DefinitionFacts ==
    ASSUME LifeInv
    PROVE  Definition \in Units /\ (Whole(Definition) => unit # NoUnit)
  BY DEF LifeInv, Typed, TypeOK, SystemdInv, NoOrphan, Definition, Whole

LEMMA StartKeeps ==
    ASSUME LifeInv, Start
    PROVE  LifeInv'
  <1>1. /\ todo # <<>> /\ Head(todo) \in {"start", "restart"} /\ todo' = Tail(todo)
        /\ Whole(Definition)
        /\ command' = command /\ enabled' = enabled /\ failed' = failed
        /\ count' = count /\ unit' = unit /\ env' = env /\ workdir' = workdir
        /\ account' = account /\ loaded' = Definition
    BY DEF Start, Take, Possible, files
  <1>2. running' \in Ports \cup {DefaultPort, Down, Retrying} /\ running' # Down
    <2>1. \/ running \notin {Down, Retrying} /\ running' = running
          \/ running' = Launched(Definition)
      BY DEF Start
    <2>2. running \in Ports \cup {DefaultPort, Down, Retrying}
      BY DEF LifeInv, Typed, TypeOK
    <2> QED BY <1>1, <2>1, <2>2, LaunchedFacts, DefinitionFacts
  <1>3. Typed'
    BY <1>1, <1>2, DefinitionFacts DEF LifeInv, Typed, TypeOK
  <1>4. NoOrphan' /\ SystemdInv'
    BY <1>1, <1>2, DefinitionFacts DEF NoOrphan, SystemdInv, Whole
  <1>5. todo' = <<>> /\ (command \in Actions \/ command \in Installs)
    BY <1>1, AtStep DEF Position
  <1>6. Progress'
    BY <1>5 DEF Progress
  <1>7. CASE command \in Actions
    <2>1. InstallComplete' /\ UninstallComplete'
      BY <1>1, <1>7, CommandFacts DEF InstallComplete, UninstallComplete, Completed
    <2> QED BY <1>3, <1>4, <1>6, <2>1 DEF LifeInv
  <1>8. CASE command \in Installs
    <2>1. command.cmd = "install" /\ command.port \in Ports \cup {NoPort}
      BY <1>8, CommandFacts
    <2>2. UnitWritten /\ AccountReady /\ enabled /\ loaded = unit
      BY <1>1, <2>1, AtStep, CommandFacts DEF Position
    <2>3. loaded' = unit
      BY <1>1, <2>2 DEF Definition
    <2>4. InstallComplete'
      BY <1>1, <1>2, <2>2, <2>3 DEF InstallComplete, UnitWritten, AccountReady
    <2>5. UninstallComplete'
      BY <1>1, <2>1 DEF UninstallComplete, Completed
    <2> QED BY <1>3, <1>4, <1>6, <2>4, <2>5 DEF LifeInv
  <1> QED BY <1>5, <1>7, <1>8

-----------------------------------------------------------------------------
(* What happens meanwhile *)

\* What a step that leaves the plan alone keeps of its progress: the files, and a
\* service that is down stays down.
LEMMA ProgressKept ==
    ASSUME LifeInv, UNCHANGED <<cli, enabled, files>>,
           running = Down => running' = Down /\ loaded' = loaded,
           Whole(loaded) => loaded' = loaded
    PROVE  Progress'
  <1>1. /\ todo' = todo /\ command' = command /\ enabled' = enabled /\ unit' = unit
        /\ env' = env /\ workdir' = workdir /\ account' = account
    BY DEF cli, files
  <1>2. CASE command \in Installs /\ InstallAt
    <2>1. unit = [port |-> command.port] => Whole(unit)
      BY <1>2, CommandFacts, FilesAssumption DEF Whole
    <2>2. InstallAt'
      BY <1>1, <1>2, <2>1 DEF InstallAt, UnitWritten, AccountReady
    <2> QED BY <1>1, <1>2, <2>2 DEF Progress
  <1>3. CASE command \in Uninstalls /\ UninstallAt
    <2>1. Disabled => Disabled'
      BY <1>1 DEF Disabled
    <2>2. UninstallAt'
      BY <1>1, <1>3, <2>1 DEF UninstallAt
    <2> QED BY <1>1, <1>3, <2>2 DEF Progress
  <1>4. CASE command \in Configs /\ ConfigAt
    BY <1>1, <1>4 DEF Progress, ConfigAt
  <1>5. CASE todo = <<>> \/ (command \in Actions /\ todo = Then(command.cmd, <<>>))
    BY <1>1, <1>5 DEF Progress
  <1> QED BY <1>2, <1>3, <1>4, <1>5 DEF LifeInv, Progress

LEMMA CrashKeeps ==
    ASSUME LifeInv, Crash
    PROVE  LifeInv'
  <1>1. /\ running # Down /\ running' = Retrying /\ Retrying # Down
        /\ loaded' = loaded /\ UNCHANGED <<cli, enabled, files>>
    BY FilesAssumption DEF Crash, OnFailure
  <1>2. Progress'
    BY <1>1, ProgressKept
  <1>3. Typed' /\ NoOrphan' /\ SystemdInv'
    BY <1>1 DEF LifeInv, cli, files, Typed, TypeOK, NoOrphan, SystemdInv, Whole
  <1>4. InstallComplete' /\ UninstallComplete'
    BY <1>1 DEF LifeInv, cli, files, InstallComplete, UninstallComplete, Completed
  <1> QED BY <1>2, <1>3, <1>4 DEF LifeInv

LEMMA RetryKeeps ==
    ASSUME LifeInv, Retry
    PROVE  LifeInv' /\ running' # Down
  <1>1. /\ running # Down /\ loaded' = loaded /\ UNCHANGED <<cli, enabled, files>>
        /\ running' = IF Whole(Definition) THEN Launched(Definition) ELSE Down
    BY FilesAssumption DEF Retry
  <1>2. Whole(Definition)
    BY <1>1 DEF LifeInv, SystemdInv, Definition, Whole
  <1>3. running' \in Ports \cup {DefaultPort, Down, Retrying} /\ running' # Down
    BY <1>1, <1>2, LaunchedFacts, DefinitionFacts
  <1>4. Progress'
    BY <1>1, ProgressKept
  <1>5. Typed' /\ NoOrphan' /\ SystemdInv'
    BY <1>1, <1>3 DEF LifeInv, cli, files, Typed, TypeOK, NoOrphan, SystemdInv, Whole
  <1>6. InstallComplete' /\ UninstallComplete'
    BY <1>1, <1>3 DEF LifeInv, cli, files, InstallComplete, UninstallComplete, Completed
  <1> QED BY <1>3, <1>4, <1>5, <1>6 DEF LifeInv

LEMMA BootKeeps ==
    ASSUME LifeInv, Boot
    PROVE  LifeInv'
  <1>1. /\ todo' = <<>> /\ failed' = (failed \/ todo # <<>>)
        /\ command' = command /\ count' = count /\ enabled' = enabled /\ unit' = unit
        /\ env' = env /\ workdir' = workdir /\ account' = account
        /\ loaded' = IF enabled THEN unit ELSE NoUnit
        /\ running' = IF enabled /\ Whole(unit) THEN Launched(unit) ELSE Down
    BY DEF Boot, files
  <1>2. unit \in Units
    BY DEF LifeInv, Typed, TypeOK
  <1>3. /\ running' \in Ports \cup {DefaultPort, Down, Retrying}
        /\ enabled /\ Whole(unit) => running' # Down
        /\ ~(enabled /\ Whole(unit)) => running' = Down
    BY <1>1, <1>2, LaunchedFacts
  <1>4. Typed'
    <2>1. failed' \in BOOLEAN
      BY <1>1
    <2> QED BY <1>1, <1>2, <1>3, <2>1 DEF LifeInv, Typed, TypeOK, Units
  <1>5. NoOrphan' /\ SystemdInv'
    BY <1>1, <1>3 DEF LifeInv, NoOrphan, SystemdInv, Whole
  <1>6. Progress'
    BY <1>1 DEF Progress
  <1>7. ASSUME Completed("install")' PROVE InstallComplete'
    <2>1. Completed("install")
      BY <1>1, <1>7 DEF Completed
    <2>2. command.port \in Ports \cup {NoPort}
      BY <2>1, CommandFacts DEF LifeInv, Typed, Commands, Completed
    <2>3. Whole(unit)
      BY <2>1, <2>2, FilesAssumption DEF LifeInv, InstallComplete, Whole
    <2> QED BY <1>1, <1>3, <2>1, <2>3 DEF LifeInv, InstallComplete
  <1>8. ASSUME Completed("uninstall")' PROVE UninstallComplete'
    <2>1. Completed("uninstall")
      BY <1>1, <1>8 DEF Completed
    <2> QED BY <1>1, <1>3, <2>1 DEF LifeInv, UninstallComplete
  <1>9. InstallComplete' /\ UninstallComplete'
    BY <1>7, <1>8 DEF InstallComplete, UninstallComplete
  <1> QED BY <1>4, <1>5, <1>6, <1>9 DEF LifeInv

LEMMA InterruptKeeps ==
    ASSUME LifeInv, Interrupt
    PROVE  LifeInv'
  <1>1. /\ todo' = <<>> /\ failed' = TRUE /\ command' = command /\ count' = count
        /\ UNCHANGED <<systemd, files>>
    BY DEF Interrupt
  <1>2. Typed' /\ NoOrphan' /\ SystemdInv'
    BY <1>1 DEF LifeInv, systemd, files, Typed, TypeOK, NoOrphan, SystemdInv, Whole
  <1>3. Progress' /\ InstallComplete' /\ UninstallComplete'
    BY <1>1 DEF Progress, InstallComplete, UninstallComplete, Completed
  <1> QED BY <1>2, <1>3 DEF LifeInv

LEMMA EditEnvKeeps ==
    ASSUME LifeInv, EditEnv
    PROVE  LifeInv'
  <1>1. PICK port \in Ports \cup {NoPort}, secrets \in Secrets :
           env' = [port |-> port, secrets |-> secrets]
    BY DEF EditEnv
  <1>2. env' \in [port : Ports \cup {NoPort}, secrets : Secrets]
    BY <1>1
  <1>3. /\ todo = <<>> /\ todo' = todo /\ command' = [cmd |-> "edit"]
        /\ failed' = failed /\ count' = count /\ UNCHANGED <<systemd, unit, workdir, account>>
    BY DEF EditEnv
  <1>4. command' \in Others /\ command'.cmd = "edit"
    BY <1>3 DEF Others
  <1>5. Typed'
    BY <1>2, <1>3, <1>4 DEF LifeInv, systemd, Typed, TypeOK, Commands
  <1>6. NoOrphan' /\ SystemdInv'
    BY <1>3 DEF LifeInv, systemd, NoOrphan, SystemdInv, Whole
  <1>7. Progress' /\ InstallComplete' /\ UninstallComplete'
    BY <1>3, <1>4 DEF Progress, InstallComplete, UninstallComplete, Completed
  <1> QED BY <1>5, <1>6, <1>7 DEF LifeInv

-----------------------------------------------------------------------------
(* The commands *)

\* A command that begins changes nothing yet.
LEMMA BeginKeeps ==
    ASSUME LifeInv, NEW o \in Commands, NEW steps, steps # <<>>, Begin(o, steps), Progress'
    PROVE  LifeInv'
  <1>1. /\ command' = o /\ todo' = steps /\ failed' = FALSE /\ count' = count + 1
        /\ count < MaxCommands /\ UNCHANGED <<systemd, files>>
    BY DEF Begin
  <1>2. count' \in 0 .. MaxCommands
    BY <1>1, LifecycleAssumption DEF LifeInv, Typed, TypeOK
  <1>3. Typed'
    BY <1>1, <1>2 DEF LifeInv, systemd, files, Typed, TypeOK
  <1>4. NoOrphan' /\ SystemdInv'
    BY <1>1 DEF LifeInv, systemd, files, NoOrphan, SystemdInv, Whole
  <1> QED BY <1>1, <1>3, <1>4, NotDone DEF LifeInv

LEMMA InstallKeeps ==
    ASSUME LifeInv, Install
    PROVE  LifeInv'
  <1>1. PICK port \in Ports \cup {NoPort}, createUser \in BOOLEAN, start \in BOOLEAN :
           LET o == [cmd |-> "install", port |-> port,
                     createUser |-> createUser, start |-> start]
           IN  Begin(o, InstallSteps(o))
    BY DEF Install
  <1> DEFINE o == [cmd |-> "install", port |-> port,
                   createUser |-> createUser, start |-> start]
             u == o.createUser /\ ~account
  <1>2. Begin(o, InstallSteps(o))
    BY <1>1
  <1>3. o \in Installs /\ o.createUser \in BOOLEAN /\ o.start \in BOOLEAN
    BY DEF Installs
  <1>4. account \in BOOLEAN
    BY DEF LifeInv, Typed, TypeOK
  <1> HIDE DEF o
  <1>5. InstallSteps(o) = Installing(u, o.start)
    BY <1>3, <1>4, InstallStepsPlan
  <1>6. u \in BOOLEAN
    OBVIOUS
  <1>7. command' = o /\ todo' = Installing(u, command'.start) /\ account' = account
    BY <1>2, <1>5 DEF Begin, files
  <1>8. u \/ AccountReady'
    BY <1>4, <1>7 DEF AccountReady
  <1>9. Progress'
    BY <1>3, <1>6, <1>7, <1>8 DEF Progress, InstallAt
  <1>10. InstallSteps(o) # <<>>
    <2> HIDE DEF u
    <2>1. Goes(Installing(u, o.start), "mkdir", Truncating(u, o.start))
      BY <1>3, <1>6, PlanSteps
    <2> QED BY <1>5, <2>1 DEF Goes
  <1> QED BY <1>2, <1>3, <1>9, <1>10, BeginKeeps DEF Commands

LEMMA UninstallKeeps ==
    ASSUME LifeInv, Uninstall
    PROVE  LifeInv'
  <1>1. PICK purge \in BOOLEAN : LET o == [cmd |-> "uninstall", purge |-> purge]
                                 IN  Begin(o, UninstallSteps(o))
    BY DEF Uninstall
  <1> DEFINE o == [cmd |-> "uninstall", purge |-> purge]
  <1>2. Begin(o, UninstallSteps(o))
    BY <1>1
  <1>3. o \in Uninstalls /\ o.purge \in BOOLEAN
    BY DEF Uninstalls
  <1> HIDE DEF o
  <1>4. UninstallSteps(o) = Stopping(o.purge)
    BY <1>3, UninstallStepsPlan
  <1>5. command' = o /\ todo' = Stopping(command'.purge)
    BY <1>2, <1>4 DEF Begin
  <1>6. Progress'
    BY <1>3, <1>5 DEF Progress, UninstallAt
  <1>7. UninstallSteps(o) # <<>>
    BY <1>3, <1>4, PlanSteps DEF Goes
  <1> QED BY <1>2, <1>3, <1>6, <1>7, BeginKeeps DEF Commands

LEMMA ConfigInitKeeps ==
    ASSUME LifeInv, ConfigInit
    PROVE  LifeInv'
  <1> DEFINE steps == <<"truncate env", "write env", "chmod env">>
  <1>1. PICK port \in Ports, force \in BOOLEAN, secrets \in {"generated", "template"} :
           LET o == [cmd |-> "config init", port |-> port, force |-> force,
                     secrets |-> secrets]
           IN  MayWrite(o) /\ Begin(o, steps)
    BY DEF ConfigInit
  <1> DEFINE o == [cmd |-> "config init", port |-> port, force |-> force, secrets |-> secrets]
  <1>2. MayWrite(o) /\ Begin(o, steps)
    BY <1>1
  <1>3. o \in Configs
    BY DEF Configs
  <1>4. steps = TruncatingEnv
    BY ConfigStepsPlan
  <1> HIDE DEF o, steps
  <1>5. command' = o /\ todo' = TruncatingEnv /\ env' = env
    BY <1>2, <1>4 DEF Begin, files
  <1>6. env' = NoFile \/ command'.force
    BY <1>2, <1>5 DEF MayWrite
  <1>7. Progress'
    BY <1>3, <1>5, <1>6 DEF Progress, ConfigAt
  <1>8. steps # <<>>
    BY <1>4, PlanSteps DEF Goes
  <1> QED BY <1>2, <1>3, <1>7, <1>8, BeginKeeps DEF Commands

LEMMA ServiceActionKeeps ==
    ASSUME LifeInv, ServiceAction
    PROVE  LifeInv'
  <1>1. PICK action \in {"start", "stop", "restart"} : Begin([cmd |-> action], <<action>>)
    BY DEF ServiceAction
  <1> DEFINE o == [cmd |-> action]
  <1>2. o \in Actions /\ o.cmd = action
    BY DEF Actions
  <1>3. <<action>> = Then(action, <<>>) /\ <<action>> # <<>>
    BY ActionPlan DEF Goes
  <1> HIDE DEF o
  <1>4. command' = o /\ todo' = Then(action, <<>>)
    BY <1>1, <1>3 DEF Begin, o
  <1>5. Progress'
    BY <1>2, <1>4 DEF Progress
  <1> QED BY <1>1, <1>2, <1>3, <1>5, BeginKeeps DEF Commands, o

-----------------------------------------------------------------------------
(* The theorems *)

LEMMA InitLife ==
    ASSUME Init
    PROVE  LifeInv
  <1>1. command \in Others /\ command.cmd = "none"
    BY DEF Init, Others
  <1>2. Typed
    <2>1. 0 \in 0 .. MaxCommands
      BY LifecycleAssumption
    <2>2. {enabled, workdir, account, failed} \subseteq BOOLEAN
      BY DEF Init
    <2>3. command \in Commands
      BY <1>1 DEF Commands
    <2> QED BY <2>1, <2>2, <2>3 DEF Init, Typed, TypeOK, Units
  <1> QED BY <1>1, <1>2 DEF Init, LifeInv, NoOrphan, SystemdInv, Whole, Progress,
                            InstallComplete, UninstallComplete, Completed

LEMMA StepLife ==
    ASSUME LifeInv, [Next]_vars
    PROVE  LifeInv'
  <1>1. CASE Install \/ Uninstall \/ ConfigInit \/ ServiceAction \/ EditEnv
    BY <1>1, InstallKeeps, UninstallKeeps, ConfigInitKeeps, ServiceActionKeeps, EditEnvKeeps
  <1>2. CASE MakeDirs \/ WriteUnit \/ WriteEnv \/ UserAdd \/ PurgeWorkdir
    BY <1>2, MakeDirsKeeps, WriteUnitKeeps, WriteEnvKeeps, UserAddKeeps, PurgeWorkdirKeeps
  <1>3. CASE DaemonReload \/ Enable \/ Disable \/ Stop \/ Start
    BY <1>3, DaemonReloadKeeps, EnableKeeps, DisableKeeps, StopKeeps, StartKeeps
  <1>4. CASE Interrupt \/ Crash \/ Retry \/ Boot
    BY <1>4, InterruptKeeps, CrashKeeps, RetryKeeps, BootKeeps
  <1>5. CASE UNCHANGED vars
    BY <1>5 DEF vars, cli, systemd, files, LifeInv, Typed, TypeOK, NoOrphan, SystemdInv, Whole,
                Progress, InstallAt, UnitWritten, AccountReady, UninstallAt, Disabled, ConfigAt,
                InstallComplete, UninstallComplete, Completed
  <1> QED BY <1>1, <1>2, <1>3, <1>4, <1>5 DEF Next

\* Between any two steps of any commands, and whatever cuts them off, what is left of
\* a command finds done what the steps before it were for (ops.py 210-299).
THEOREM LifeInductive == Spec => []LifeInv
  <1>1. Init => LifeInv
    BY InitLife
  <1>2. LifeInv /\ [Next]_vars => LifeInv'
    BY StepLife
  <1> QED BY <1>1, <1>2, PTL DEF Spec

\* Unit files, definitions, settings and the running service stay in their types
\* (ops.py 78-299).
THEOREM LifeTypeOKThm == Spec => []TypeOK
  <1>1. LifeInv => TypeOK
    BY DEF LifeInv, Typed
  <1> QED BY <1>1, LifeInductive, PTL

\* However many commands are cut off wherever, no service is left enabled or running
\* without its unit file (ops.py 254-290).
THEOREM NoOrphanThm == Spec => []NoOrphan
  <1>1. LifeInv => NoOrphan
    BY DEF LifeInv
  <1> QED BY <1>1, LifeInductive, PTL

\* An installation that completes leaves everything it is for, whatever was there
\* before, through any crashes and boots after it (ops.py 210-266).
THEOREM InstallCompleteThm == Spec => []InstallComplete
  <1>1. LifeInv => InstallComplete
    BY DEF LifeInv
  <1> QED BY <1>1, LifeInductive, PTL

\* A removal that completes leaves nothing of the service, and with --purge nothing of
\* its files (ops.py 269-299).
THEOREM UninstallCompleteThm == Spec => []UninstallComplete
  <1>1. LifeInv => UninstallComplete
    BY DEF LifeInv
  <1> QED BY <1>1, LifeInductive, PTL

\* None of the steps of an installation is refused, whatever state earlier failures
\* left (ops.py 252-266).
THEOREM InstallAgainThm == Spec => []InstallAgain
  <1>1. ASSUME LifeInv, command.cmd = "install", todo # <<>> PROVE Possible(Head(todo))
    <2>1. command \in Installs
      BY <1>1, CommandFacts DEF LifeInv, Typed, Commands
    <2>2. command \notin Uninstalls /\ command \notin Configs /\ command \notin Actions
      BY <1>1, CommandFacts
    <2>3. \/ Head(todo) \in {"mkdir", "truncate unit", "write unit", "useradd", "daemon-reload"}
          \/ Head(todo) = "enable" /\ UnitWritten
          \/ Head(todo) = "start" /\ UnitWritten /\ loaded = unit
      BY <1>1, <2>2, AtStep DEF Position
    <2>4. UnitWritten => Whole(unit)
      BY <2>1, CommandFacts, FilesAssumption DEF UnitWritten, Whole
    <2> QED BY <2>3, <2>4 DEF Possible, Definition
  <1>2. LifeInv => InstallAgain
    BY <1>1 DEF InstallAgain
  <1> QED BY <1>2, LifeInductive, PTL

\* The configuration is lost or replaced only by a command that was told to, or by the
\* administrator (ops.py 118, 291).
THEOREM ConfigKeptThm == Spec => ConfigKept
  <1> DEFINE Told == \/ command.cmd = "uninstall" /\ command.purge
                     \/ command.cmd = "config init" /\ command.force
                     \/ command'.cmd = "edit"
  <1>1. ASSUME LifeInv, [Next]_vars, Whole(env), env' # env PROVE Told
    <2>1. WriteEnv \/ EditEnv
      BY <1>1 DEF Next, vars, cli, systemd, files, Install, Uninstall, ConfigInit, ServiceAction,
                  Begin, MakeDirs, WriteUnit, UserAdd, PurgeWorkdir, DaemonReload, Enable,
                  Disable, Stop, Start, Interrupt, Crash, Retry, Boot
    <2>2. CASE EditEnv
      BY <2>2 DEF EditEnv
    <2>3. CASE WriteEnv
      <3>1. todo # <<>> /\ Head(todo) \in {"truncate env", "write env", "purge env"}
        BY <1>1, <2>3 DEF WriteEnv, Take
      <3>2. env # NoFile /\ env # Torn
        BY <1>1 DEF Whole
      <3>3. \/ command \in Configs /\ command.force
            \/ command \in Uninstalls /\ command.purge
        BY <1>1, <3>1, <3>2, AtStep DEF Position
      <3> QED BY <3>3, CommandFacts
    <2> QED BY <2>1, <2>2, <2>3
  <1>2. LifeInv /\ [Next]_vars => [(Whole(env) /\ env' # env) => Told]_vars
    BY <1>1
  <1> QED BY <1>2, LifeInductive, PTL DEF Spec, ConfigKept

\* An enabled service goes down only when it is told to stop, or in a boot that finds
\* its unit truncated (ops.py 172-173, 254-290).
THEOREM StaysUpThm == Spec => StaysUp
  <1> DEFINE Falls == running # Down /\ running' = Down /\ enabled
             Told == \/ todo # <<>> /\ Head(todo) = "stop"
                     \/ unit = Torn /\ Boot
  <1>1. ASSUME LifeInv, [Next]_vars, Falls PROVE Told
    <2>1. Stop \/ Start \/ Crash \/ Retry \/ Boot
      BY <1>1 DEF Next, vars, cli, systemd, files, Install, Uninstall, ConfigInit, ServiceAction,
                  EditEnv, Begin, MakeDirs, WriteUnit, WriteEnv, UserAdd, PurgeWorkdir,
                  DaemonReload, Enable, Disable, Interrupt
    <2>2. CASE Stop
      BY <2>2 DEF Stop, Take
    <2>3. ~Start
      <3>1. ASSUME Start PROVE Launched(Definition) # Down
        <4>1. Whole(Definition)
          BY <3>1 DEF Start, Take, Possible
        <4> QED BY <1>1, <4>1, LaunchedFacts, DefinitionFacts
      <3> QED BY <1>1, <3>1 DEF Start
    <2>4. ~Crash
      BY <1>1, FilesAssumption DEF Crash, OnFailure
    <2>5. ~Retry
      BY <1>1, RetryKeeps
    <2>6. CASE Boot
      <3>1. Whole(unit) => Launched(unit) # Down
        BY <1>1, LaunchedFacts DEF LifeInv, Typed, TypeOK
      <3>2. ~Whole(unit)
        BY <1>1, <2>6, <3>1 DEF Boot
      <3>3. unit # NoUnit
        BY <1>1 DEF LifeInv, NoOrphan
      <3>4. unit = Torn \/ \E port \in Ports \cup {NoPort} : unit = [port |-> port]
        BY <1>1, <3>3 DEF LifeInv, Typed, TypeOK, Units
      <3>5. unit = Torn
        BY <3>2, <3>4, FilesAssumption DEF Whole
      <3> QED BY <2>6, <3>5
    <2> QED BY <2>1, <2>2, <2>3, <2>4, <2>5, <2>6
  <1>2. LifeInv /\ [Next]_vars => [Falls => Told]_vars
    BY <1>1
  <1> QED BY <1>2, LifeInductive, PTL DEF Spec, StaysUp
=============================================================================
