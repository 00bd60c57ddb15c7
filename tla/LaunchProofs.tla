------------------------------ MODULE LaunchProofs ------------------------------
(* What Launch promises for any number of launches.  *)
EXTENDS Launch, SequenceTheorems, TLAPS

Kinds == {"check", "claim", "servers", "lookup", "task", "command", "game"}
ClaimFirst(s) == \A k \in 1 .. Len(s) : s[k] = "game" => \E j \in 1 .. k - 1 : s[j] = "claim"

LEMMA KnownSteps ==
  /\ <<>> \in Seq(Kinds) /\ <<"servers">> \in Seq(Kinds) /\ <<"lookup">> \in Seq(Kinds)
  /\ <<"command">> \in Seq(Kinds)
  /\ <<"task", "check">> \in Seq(Kinds) /\ <<"claim", "task">> \in Seq(Kinds)
  /\ <<"check", "game">> \in Seq(Kinds)
<1> DEFINE K == Kinds
<1>1. /\ "servers" \in K /\ "lookup" \in K /\ "command" \in K /\ "task" \in K /\ "check" \in K
      /\ "claim" \in K /\ "game" \in K
  BY DEF Kinds
<1> HIDE DEF K
<1>2. /\ <<>> \in Seq(K) /\ <<"servers">> \in Seq(K) /\ <<"lookup">> \in Seq(K)
      /\ <<"command">> \in Seq(K)
      /\ <<"task", "check">> \in Seq(K) /\ <<"claim", "task">> \in Seq(K)
      /\ <<"check", "game">> \in Seq(K)
  BY <1>1
<1> QED BY <1>2 DEF K

\* Only one command may follow the game.
GameLast(s) ==
  \A k \in 1 .. Len(s) : s[k] = "game" =>
    k = Len(s) \/ (k + 1 = Len(s) /\ s[k + 1] = "command")

\* One sequence after the other, with the places of their elements.
LEMMA Joined ==
  ASSUME NEW s \in Seq(Kinds), NEW t \in Seq(Kinds)
  PROVE  /\ s \o t \in Seq(Kinds) /\ Len(s \o t) = Len(s) + Len(t)
         /\ Len(s) \in Nat /\ Len(t) \in Nat
         /\ \A i \in 1 .. Len(s) : (s \o t)[i] = s[i]
         /\ \A i \in 1 .. Len(t) : (s \o t)[Len(s) + i] = t[i]
<1>1. s \o t \in Seq(Kinds) /\ Len(s \o t) = Len(s) + Len(t)
  BY ConcatProperties
<1>2. Len(s) \in Nat /\ Len(t) \in Nat
  BY LenProperties
<1>3. ASSUME NEW i \in 1 .. Len(s) PROVE (s \o t)[i] = s[i]
  <2>1. i \in 1 .. Len(s) + Len(t) /\ i <= Len(s)
    BY <1>2, <1>3
  <2> QED BY <2>1, ConcatProperties
<1>4. ASSUME NEW i \in 1 .. Len(t) PROVE (s \o t)[Len(s) + i] = t[i]
  <2>1. Len(s) + i \in 1 .. Len(s) + Len(t) /\ ~(Len(s) + i <= Len(s))
        /\ Len(s) + i - Len(s) = i
    BY <1>2, <1>4
  <2> QED BY <2>1, ConcatProperties
<1> QED BY <1>1, <1>2, <1>3, <1>4

NoGame(s) == \A i \in 1 .. Len(s) : s[i] # "game"
LEMMA JoinedNoGame ==
  ASSUME NEW s \in Seq(Kinds), NEW t \in Seq(Kinds), NoGame(s), NoGame(t)
  PROVE  NoGame(s \o t)
<1> DEFINE p == s \o t
<1>1. /\ Len(p) = Len(s) + Len(t) /\ Len(s) \in Nat /\ Len(t) \in Nat
      /\ \A i \in 1 .. Len(s) : p[i] = s[i]
      /\ \A i \in 1 .. Len(t) : p[Len(s) + i] = t[i]
  BY Joined
<1> HIDE DEF p
<1>2. ASSUME NEW i \in 1 .. Len(p) PROVE p[i] # "game"
  <2>1. CASE i \in 1 .. Len(s)
    BY <1>1, <2>1 DEF NoGame
  <2>2. CASE i \notin 1 .. Len(s)
    <3>1. i - Len(s) \in 1 .. Len(t) /\ Len(s) + (i - Len(s)) = i
      BY <1>1, <2>2
    <3> QED BY <3>1, <1>1 DEF NoGame
  <2> QED BY <2>1, <2>2
<1> QED BY <1>2 DEF NoGame, p

LEMMA PipelineShape ==
  ASSUME NEW m \in Modes, NEW srv \in BOOLEAN, NEW l \in BOOLEAN, NEW c \in BOOLEAN,
         NEW q, q = Pipeline(m, srv, l, c)
  PROVE  /\ q \in Seq(Kinds) /\ Len(q) >= 1 /\ GameLast(q)
         /\ m = "Normal" => ClaimFirst(q)
<1> DEFINE cmd == IF c THEN <<"command">> ELSE <<>>
           sv == IF srv THEN <<"servers">> ELSE <<>>
           lk == IF l THEN <<"lookup">> ELSE <<>>
           a == sv \o lk
           b == IF m = "Offline" THEN <<>> ELSE <<"claim", "task">>
           tc == <<"task", "check">>
           ck == <<"check">>
           cg == <<"check", "game">>
           x == a \o cmd \o tc
           y == x \o b
           z == y \o cg
           p == z \o cmd
<1>1. /\ cmd \in Seq(Kinds) /\ NoGame(cmd) /\ Len(cmd) \in {0, 1}
      /\ Len(cmd) = 1 => cmd[1] = "command"
      /\ sv \in Seq(Kinds) /\ NoGame(sv) /\ lk \in Seq(Kinds) /\ NoGame(lk)
      /\ b \in Seq(Kinds) /\ NoGame(b)
      /\ m = "Normal" => Len(b) = 2 /\ b[1] = "claim"
      /\ tc \in Seq(Kinds) /\ NoGame(tc)
      /\ cg \in Seq(Kinds) /\ Len(cg) = 2 /\ cg[1] # "game"
  BY KnownSteps DEF NoGame
<1>2. q = p
  BY DEF Pipeline
<1> HIDE DEF cmd, sv, lk, b, tc, cg
<1>3. x \in Seq(Kinds) /\ NoGame(x)
  <2>0. a \in Seq(Kinds) /\ NoGame(a)
    BY <1>1, Joined, JoinedNoGame
  <2> HIDE DEF a
  <2> DEFINE w == a \o cmd
  <2>1. w \in Seq(Kinds) /\ NoGame(w)
    BY <1>1, <2>0, Joined, JoinedNoGame
  <2> HIDE DEF w
  <2>2. w \o tc \in Seq(Kinds) /\ NoGame(w \o tc)
    BY <1>1, <2>1, Joined, JoinedNoGame
  <2> QED BY <2>2 DEF w
<1> HIDE DEF x
<1>4. /\ y \in Seq(Kinds) /\ NoGame(y) /\ Len(y) \in Nat
      /\ m = "Normal" => \E j \in 1 .. Len(y) : y[j] = "claim"
  <2>1. /\ y \in Seq(Kinds) /\ Len(y) = Len(x) + Len(b) /\ Len(x) \in Nat /\ Len(b) \in Nat
        /\ \A i \in 1 .. Len(b) : y[Len(x) + i] = b[i]
    BY <1>1, <1>3, Joined
  <2>2. NoGame(y)
    BY <1>1, <1>3, JoinedNoGame
  <2> HIDE DEF y
  <2>3. ASSUME m = "Normal" PROVE \E j \in 1 .. Len(y) : y[j] = "claim"
    <3>0. Len(b) = 2 /\ b[1] = "claim"
      BY <1>1, <2>3, Zenon
    <3>1. Len(b) = 2 /\ b[1] = "claim" /\ 1 \in 1 .. Len(b)
      BY <3>0
    <3>2. y[Len(x) + 1] = "claim" /\ Len(x) + 1 \in 1 .. Len(y)
      BY <2>1, <3>1
    <3> QED BY <3>2
  <2> QED BY <2>1, <2>2, <2>3
<1> HIDE DEF y
<1>5. /\ z \in Seq(Kinds) /\ Len(z) = Len(y) + 2 /\ Len(z) \in Nat
      /\ \A i \in 1 .. Len(y) : z[i] = y[i]
      /\ z[Len(y) + 1] # "game"
  <2>1. /\ z \in Seq(Kinds) /\ Len(z) = Len(y) + Len(cg)
        /\ \A i \in 1 .. Len(y) : z[i] = y[i]
        /\ \A i \in 1 .. Len(cg) : z[Len(y) + i] = cg[i]
    BY <1>1, <1>4, Joined
  <2> HIDE DEF z
  <2>2. Len(cg) = 2 /\ 1 \in 1 .. Len(cg) /\ cg[1] # "game"
    BY <1>1
  <2> QED BY <1>4, <2>1, <2>2
<1> HIDE DEF z
<1>6. /\ p \in Seq(Kinds) /\ Len(p) = Len(z) + Len(cmd)
      /\ \A i \in 1 .. Len(z) : p[i] = z[i]
      /\ \A i \in 1 .. Len(cmd) : p[Len(z) + i] = cmd[i]
  BY <1>1, <1>5, Joined
<1> HIDE DEF p
<1>7. CASE Len(cmd) = 0
  <2>1. Len(p) = Len(y) + 2 /\ \A k \in 1 .. Len(p) : p[k] = "game" => k = Len(p)
    BY <1>4, <1>5, <1>6, <1>7 DEF NoGame
  <2>2. GameLast(p)
    BY <2>1 DEF GameLast
  <2>3. ASSUME m = "Normal" PROVE ClaimFirst(p)
    <3>1. PICK j \in 1 .. Len(y) : y[j] = "claim"
      BY <1>4, <2>3
    <3>2. p[j] = "claim" /\ j \in 1 .. Len(p) - 1
      BY <1>4, <1>5, <1>6, <2>1, <3>1
    <3> QED BY <2>1, <3>2 DEF ClaimFirst
  <2> QED BY <1>2, <1>4, <1>6, <2>1, <2>2, <2>3
<1>8. CASE Len(cmd) = 1
  <2>0. 1 \in 1 .. Len(cmd) /\ cmd[1] = "command"
    BY <1>1, <1>8
  <2>1. Len(p) = Len(y) + 3 /\ p[Len(p)] = "command"
        /\ \A k \in 1 .. Len(p) : p[k] = "game" => k = Len(p) - 1
    BY <1>4, <1>5, <1>6, <1>8, <2>0 DEF NoGame
  <2>2. GameLast(p)
    BY <1>4, <2>1 DEF GameLast
  <2>3. ASSUME m = "Normal" PROVE ClaimFirst(p)
    <3>1. PICK j \in 1 .. Len(y) : y[j] = "claim"
      BY <1>4, <2>3
    <3>2. p[j] = "claim" /\ j \in 1 .. (Len(p) - 1) - 1
      BY <1>4, <1>5, <1>6, <2>1, <3>1
    <3> QED BY <2>1, <3>2 DEF ClaimFirst
  <2> QED BY <1>2, <1>4, <1>6, <2>1, <2>2, <2>3
<1> QED BY <1>1, <1>7, <1>8

(***************************************************************************)
(* The inductive invariant.                                                *)
(***************************************************************************)
Numbers == runningInstances \in Nat /\ replaced \in Nat /\ launches \in 0 .. MaxLaunches
Place == steps \in Seq(Kinds) /\ current \in 0 .. Len(steps)
Flags ==
  /\ running \in BOOLEAN /\ found \in BOOLEAN /\ claimed \in BOOLEAN /\ aborting \in BOOLEAN
  /\ killed \in BOOLEAN /\ mayProceed \in BOOLEAN
Words ==
  /\ controller \in {"none", "posted", "login", "launched"}
  /\ state \in {"NotStarted", "Running", "Waiting", "Aborted"}
  /\ mode \in Modes
  /\ process \in {"none", "Starting", "Running"}
  /\ told \in {"nothing", "launch", "abort"}
  /\ profiler \in {"none", "bad", "good"} /\ profiling \in {"no", "busy", "attached"}
Types == Numbers /\ Place /\ Flags /\ Words

\* The steps of a running launch, and where it is.
InPipeline ==
  running => /\ current \in 1 .. Len(steps)
             /\ mode = "Normal" => ClaimFirst(steps)
             /\ GameLast(steps)

\* The lock is taken exactly by the step that has ended.
Locks ==
  /\ claimed => running /\ found
  /\ found => mode = "Normal"
  /\ running /\ found =>
       (claimed <=> \E k \in 1 .. current - 1 : steps[k] = "claim")

\* The process of the present step comes to a bad end.
Doomed == killed \/ (steps[current] = "game" /\ told = "abort")
AtProcess == steps[current] = "game" \/ (steps[current] = "command" /\ current = Len(steps))

\* Whom a process and a profiler belong to.
Owners ==
  /\ aborting => running /\ steps[current] = "task"
  /\ controller \in {"posted", "login"} => ~running
  /\ process # "none" => running /\ steps[current] \in {"command", "game"}
  /\ profiling # "no" =>
       /\ running /\ controller = "launched"
       /\ AtProcess /\ process # "none"
       /\ steps[current] = "game" => process = "Running"
       /\ state = "Waiting" \/ (state = "Aborted" /\ Doomed)

\* A launch without its controller is at its game, or at the command after it,
\* and on the way out.
Orphans ==
  running /\ controller # "launched" => AtProcess /\ process # "none" /\ Doomed

IInv == Types /\ RunningIsCounted /\ InPipeline /\ Locks /\ Owners /\ Orphans

LEMMA InvariantTypes == IInv => TypeOK
<1> SUFFICES ASSUME IInv PROVE TypeOK
  OBVIOUS
<1>1. running => current # 0
  BY DEF IInv, Types, Place, InPipeline
<1> QED BY <1>1 DEF IInv, Types, Numbers, Place, Flags, Words, TypeOK, Kinds

LEMMA InitHolds == Init => IInv
<1> SUFFICES ASSUME Init PROVE IInv
  OBVIOUS
<1>1. Numbers BY LaunchAssumption DEF Init, Numbers
<1>2. Place BY KnownSteps DEF Init, Place
<1>3. Flags /\ Words BY DEF Init, Flags, Words, Modes
<1>4. RunningIsCounted /\ InPipeline /\ Locks /\ Owners /\ Orphans
  BY DEF Init, RunningIsCounted, InPipeline, Locks, Owners, Orphans
<1> QED BY <1>1, <1>2, <1>3, <1>4 DEF IInv, Types

LEMMA AskLaunchKeeps ==
  ASSUME IInv, NEW p \in {"none", "bad", "good"}, AskLaunch(p)
  PROVE  IInv'
<1> USE DEF IInv, Types, AskLaunch, task, progress, game
<1>1. Numbers' BY LaunchAssumption DEF Numbers
<1>2. Place' /\ InPipeline' BY DEF Place, InPipeline
<1>3. Flags' /\ Words' BY DEF Flags, Words
<1>4. RunningIsCounted' BY DEF Numbers, RunningIsCounted
<1>5. Locks' BY DEF Locks
<1>6. Owners' /\ Orphans' BY DEF Owners, Orphans
<1> QED BY <1>1, <1>2, <1>3, <1>4, <1>5, <1>6

\* A launch that does not get as far as its task.
LEMMA LoginKeeps ==
  ASSUME IInv, Login \/ GiveUp
  PROVE  IInv'
<1> USE DEF IInv, Types, Login, GiveUp, ControllerFinished, task, progress, game, tool
<1>1. Numbers' BY DEF Numbers, RunningIsCounted
<1>2. Place' /\ InPipeline' BY DEF Place, InPipeline
<1>3. Flags' /\ Words' BY DEF Flags, Words
<1>4. RunningIsCounted' BY DEF Numbers, RunningIsCounted
<1>5. Locks' BY DEF Locks
<1>6. Owners' /\ Orphans' BY DEF Owners, Orphans, Doomed, AtProcess
<1> QED BY <1>1, <1>2, <1>3, <1>4, <1>5, <1>6

LEMMA LaunchInstanceKeeps ==
  ASSUME IInv, NEW m \in Modes, NEW n \in BOOLEAN, NEW s \in BOOLEAN, NEW l \in BOOLEAN,
         NEW c \in BOOLEAN, LaunchInstance(m, n, s, l, c)
  PROVE  IInv'
<1>0. /\ steps' \in Seq(Kinds) /\ Len(steps') >= 1 /\ Len(steps') \in Nat
      /\ m = "Normal" => ClaimFirst(steps')
      /\ GameLast(steps')
  BY PipelineShape, LenProperties DEF LaunchInstance
<1>1. /\ process' \in {"none", "Starting", "Running"}
      /\ process' # "none" => steps'[current'] = "command"
  BY DEF LaunchInstance
<1> USE DEF IInv, Types, LaunchInstance, tool
<1>2. Numbers' BY DEF Numbers
<1>3. Place' /\ InPipeline' BY <1>0 DEF Place, InPipeline
<1>4. Flags' BY DEF Flags
<1>5. Words' BY <1>1 DEF Words
<1>6. RunningIsCounted' BY DEF RunningIsCounted
<1>7. Locks' BY DEF Locks
<1>8. Owners' /\ Orphans' BY <1>1 DEF Owners, Orphans
<1> QED BY <1>2, <1>3, <1>4, <1>5, <1>6, <1>7, <1>8

\* The end of a launch, which leaves nothing behind.
LEMMA EndKeeps ==
  ASSUME IInv, running, EndLaunch, state' \in {state, "Aborted"}
  PROVE  IInv'
<1> USE DEF IInv, Types, EndLaunch, TellController, ControllerFinished
<1>1. Numbers' BY DEF Numbers, RunningIsCounted
<1>2. Place' /\ InPipeline' BY DEF Place, InPipeline
<1>3. Flags' BY DEF Flags
<1>4. Words' BY DEF Words
<1>5. RunningIsCounted' BY DEF Numbers, RunningIsCounted
<1>6. Locks'
  <2>1. ASSUME claimed PROVE "claim" \in {steps[k] : k \in Finalized(current)}
    <3>1. PICK k \in 1 .. current - 1 : steps[k] = "claim"
      BY <2>1 DEF Locks
    <3>2. k \in 1 .. current
      BY <3>1 DEF Place
    <3> QED BY <3>1, <3>2 DEF Finalized
  <2>2. ~claimed'
    BY <2>1
  <2> QED BY <2>2 DEF Locks
<1>7. Owners' /\ Orphans' BY DEF Owners, Orphans
<1> QED BY <1>1, <1>2, <1>3, <1>4, <1>5, <1>6, <1>7

\* A step that succeeds and is not that of a dying process.
LEMMA AdvanceKeeps ==
  ASSUME IInv, running, NEW pending \in BOOLEAN, Advance(pending), controller = "launched",
         profiling # "no" => ~pending /\ (state = "Waiting" \/ current = Len(steps))
  PROVE  IInv'
<1>1. CASE current = Len(steps)
  BY <1>1, EndKeeps DEF Advance
<1>2. CASE current # Len(steps)
  <2>0. /\ current \in Nat /\ current + 1 \in 1 .. Len(steps)
        /\ steps[current] = "game" => steps[current + 1] = "command" /\ current + 1 = Len(steps)
    BY <1>2 DEF IInv, Types, Place, InPipeline, GameLast
  <2>1. /\ current' = current + 1 /\ steps' = steps /\ running' = running /\ mode' = mode
        /\ process' \in {"none", "Starting"}
        /\ process' # "none" <=> steps[current + 1] \in {"command", "game"}
        /\ killed' = FALSE /\ mayProceed' = mayProceed /\ told' = told
        /\ state' \in {"Waiting", state, "Aborted"}
        /\ ~pending => state' \in {"Waiting", state}
        /\ found' = found /\ claimed' = (claimed \/ (steps[current] = "claim" /\ found))
        /\ aborting' = (pending /\ steps[current + 1] = "task")
        /\ UNCHANGED <<application, tool, launches>>
    BY <1>2, <2>0 DEF Advance, StartStep
  <2> USE <2>1 DEF IInv, Types, application, tool
  <2>2. Numbers' BY DEF Numbers
  <2>3. Place' /\ InPipeline' BY <2>0 DEF Place, InPipeline
  <2>4. Flags' BY DEF Flags
  <2>5. Words' BY DEF Words
  <2>6. RunningIsCounted' BY DEF RunningIsCounted
  <2>7. Locks'
    <3>1. (\E k \in 1 .. current' - 1 : steps'[k] = "claim")
            <=> steps[current] = "claim" \/ \E k \in 1 .. current - 1 : steps[k] = "claim"
      <4>1. (\E k \in 1 .. current : steps[k] = "claim")
              <=> steps[current] = "claim" \/ \E k \in 1 .. current - 1 : steps[k] = "claim"
        <5>1. \A k : k \in 1 .. current <=> k = current \/ k \in 1 .. current - 1
          BY <2>0 DEF IInv, InPipeline
        <5> QED BY <5>1, Zenon
      <4>2. current' - 1 = current
        BY <2>0
      <4> QED BY <4>1, <4>2
    <3> QED BY <3>1 DEF Locks
  <2>8. ASSUME profiling # "no" PROVE /\ state' = "Waiting" /\ AtProcess' /\ process' # "none"
                                            /\ steps[current + 1] # "game"
    BY <1>2, <2>0, <2>8 DEF Owners, AtProcess
  <2>9. Owners' BY <2>0, <2>8 DEF Owners
  <2>10. Orphans' BY DEF Orphans
  <2> QED BY <2>2, <2>3, <2>4, <2>5, <2>6, <2>7, <2>9, <2>10
<1> QED BY <1>1, <1>2

\* A step without a process ends, by itself or by the user.
LEMMA StepEndsKeeps ==
  ASSUME IInv, StepEnds \/ DialogAbort
  PROVE  IInv'
<1>1. running /\ steps[current] \in {"claim", "check", "servers", "lookup", "task"}
  BY DEF StepEnds, DialogAbort, OfKind
<1>2. CASE \E s \in {state} : StepFails(s)
  BY <1>1, <1>2, EndKeeps DEF StepFails
<1>3. CASE StepSucceeds
  <2>1. controller = "launched" /\ profiling = "no"
    BY <1>1 DEF IInv, Owners, Orphans, AtProcess
  <2>2. aborting \in BOOLEAN /\ Advance(aborting)
    BY <1>3 DEF IInv, Types, Flags, StepSucceeds
  <2> QED BY <1>1, <2>1, <2>2, AdvanceKeeps
<1> QED BY <1>2, <1>3 DEF StepEnds, DialogAbort

\* What an abort does to the process, and to nothing else.
LEMMA Aborting ==
  ASSUME Types, NEW s \in {"NotStarted", "Running", "Waiting", "Aborted"}, NEW may \in BOOLEAN,
         AbortProcess(s, may)
  PROVE  /\ state' \in {s, "Aborted"} /\ mayProceed' \in BOOLEAN /\ killed' \in BOOLEAN
         /\ told' \in {"nothing", "launch", "abort"}
         /\ s \in Abortable =>
              state' = "Aborted" /\ (killed' \/ (steps[current] = "game" /\ told' = "abort"))
         /\ s \notin Abortable => state' = s /\ UNCHANGED <<told, killed>>
<1>1. CASE s \notin Abortable
  BY <1>1 DEF AbortProcess, Types, Flags, Words
<1>2. CASE s \in Abortable
  <2>1. CASE steps[current] = "game" /\ may
    BY <1>2, <2>1 DEF AbortProcess, Types, Flags, Words
  <2>2. CASE ~(steps[current] = "game" /\ may)
    <3>1. state' = "Aborted" /\ killed' = TRUE /\ told' = told
          /\ mayProceed' = (may /\ steps[current] # "game")
      BY <1>2, <2>2 DEF AbortProcess
    <3> QED BY <1>2, <3>1 DEF Types, Words
  <2> QED BY <2>1, <2>2
<1> QED BY <1>1, <1>2

LEMMA KillKeeps ==
  ASSUME IInv, Kill
  PROVE  IInv'
<1>0. running /\ controller = "launched" /\ state \in Abortable
  BY DEF Kill
<1>1. CASE \E s \in {"Aborted"} : StepFails(s)
  BY <1>0, <1>1, EndKeeps DEF StepFails
<1>2. CASE /\ OfKind({"task"}) /\ state' = "Aborted"
           /\ UNCHANGED <<application, progress, game, tool, launches>>
  <2> USE <1>2 DEF IInv, Types, application, progress, game, tool
  <2>1. Numbers' /\ Place' /\ Flags' /\ Words'
    BY DEF Numbers, Place, Flags, Words
  <2>2. RunningIsCounted' /\ InPipeline' /\ Locks'
    BY DEF RunningIsCounted, InPipeline, Locks
  <2>3. profiling = "no"
    BY DEF OfKind, Owners, AtProcess
  <2>4. Owners' /\ Orphans'
    BY <1>0, <2>3 DEF Owners, Orphans
  <2> QED BY <2>1, <2>2, <2>4
<1>3. CASE /\ AbortProcess(state, mayProceed)
           /\ UNCHANGED <<application, progress, process, tool, launches>>
  <2>1. /\ state' = "Aborted" /\ mayProceed' \in BOOLEAN /\ killed' \in BOOLEAN
        /\ told' \in {"nothing", "launch", "abort"}
        /\ killed' \/ (steps[current] = "game" /\ told' = "abort")
    BY <1>0, <1>3, Aborting DEF IInv, Types, Flags, Words
  <2> USE <1>3, <2>1 DEF IInv, Types, application, progress, tool
  <2>2. Numbers' /\ Place' /\ Flags' /\ Words'
    BY DEF Numbers, Place, Flags, Words
  <2>3. RunningIsCounted' /\ InPipeline' /\ Locks'
    BY DEF RunningIsCounted, InPipeline, Locks
  <2>4. Owners' /\ Orphans'
    BY <1>0 DEF Owners, Orphans, AtProcess, Doomed
  <2> QED BY <2>2, <2>3, <2>4
<1>4. CASE OfKind({"lookup"}) /\ Advance(TRUE)
  <2>1. profiling = "no"
    BY <1>4 DEF IInv, Owners, AtProcess, OfKind
  <2> QED BY <1>0, <1>4, <2>1, AdvanceKeeps
<1> QED BY <1>1, <1>2, <1>3, <1>4 DEF Kill

LEMMA ProcessStartsKeeps ==
  ASSUME IInv, ProcessStarts
  PROVE  IInv'
<1>0. /\ running /\ process = "Starting" /\ process' = "Running"
      /\ UNCHANGED <<replaced, progress, profiler, launches>>
      /\ steps[current] \in {"command", "game"}
  BY DEF ProcessStarts, IInv, Owners
<1>1. Place' /\ InPipeline' /\ Locks'
  BY <1>0 DEF IInv, Types, Place, InPipeline, Locks, progress
<1>2. CASE /\ steps[current] = "command" \/ controller = "none"
           /\ state' = IF steps[current] = "game" THEN "Waiting" ELSE state
           /\ mayProceed' = (mayProceed \/ steps[current] = "game")
           /\ UNCHANGED <<runningInstances, controller, killed, told, profiling>>
  <2>1. state' \in {"Waiting", state}
    BY <1>2
  <2> USE <1>0, <1>2 DEF IInv, Types, progress
  <2>2. Numbers' /\ RunningIsCounted' BY DEF Numbers, RunningIsCounted
  <2>3. Flags' /\ Words' BY <2>1 DEF Flags, Words
  <2>4. Owners' /\ Orphans' BY <2>1 DEF Owners, Orphans, AtProcess, Doomed
  <2> QED BY <1>1, <2>2, <2>3, <2>4
<1>3. CASE /\ steps[current] = "game" /\ controller # "none" /\ profiler = "none"
           /\ state' = "Waiting" /\ Proceed("Waiting", TRUE)
           /\ UNCHANGED <<runningInstances, controller, killed, profiling>>
  <2>1. told' = "launch" /\ mayProceed' = FALSE
    BY <1>3 DEF Proceed
  <2>2. controller = "launched"
    BY <1>0, <1>3 DEF IInv, Types, Words, Owners
  <2> USE <1>0, <1>3, <2>1 DEF IInv, Types, progress
  <2>3. Numbers' /\ RunningIsCounted' BY DEF Numbers, RunningIsCounted
  <2>4. Flags' /\ Words' BY DEF Flags, Words
  <2>5. Owners' /\ Orphans' BY <2>2 DEF Owners, Orphans, AtProcess
  <2> QED BY <1>1, <2>3, <2>4, <2>5
<1>4. CASE /\ steps[current] = "game" /\ controller # "none"
           /\ AbortProcess("Waiting", TRUE) /\ ControllerFinished
           /\ UNCHANGED profiling
  <2>1. /\ state' = "Aborted" /\ mayProceed' \in BOOLEAN /\ killed' \in BOOLEAN
        /\ told' = "abort"
    <3>1. AbortProcess("Waiting", TRUE) /\ steps[current] = "game"
      BY <1>4
    <3>2. state' = "Aborted" /\ mayProceed' \in BOOLEAN /\ killed' \in BOOLEAN
      BY <3>1, Aborting DEF IInv, Abortable
    <3>3. told' = "abort"
      BY <3>1 DEF AbortProcess, Abortable
    <3> QED BY <3>2, <3>3
  <2> USE <1>0, <1>4, <2>1 DEF IInv, Types, progress, ControllerFinished
  <2>2. Numbers' /\ RunningIsCounted' BY DEF Numbers, RunningIsCounted
  <2>3. Flags' /\ Words' BY DEF Flags, Words
  <2>4. Owners' /\ Orphans' BY DEF Owners, Orphans, AtProcess, Doomed
  <2> QED BY <1>1, <2>2, <2>3, <2>4
<1>5. CASE /\ steps[current] = "game" /\ controller # "none"
           /\ state' = "Waiting" /\ mayProceed' = TRUE /\ profiling' = "busy"
           /\ UNCHANGED <<runningInstances, controller, killed, told>>
  <2>1. controller = "launched"
    BY <1>0, <1>5 DEF IInv, Types, Words, Owners
  <2> USE <1>0, <1>5 DEF IInv, Types, progress
  <2>2. Numbers' /\ RunningIsCounted' BY DEF Numbers, RunningIsCounted
  <2>3. Flags' /\ Words' BY DEF Flags, Words
  <2>4. Owners' /\ Orphans' BY <2>1 DEF Owners, Orphans, AtProcess
  <2> QED BY <1>1, <2>2, <2>3, <2>4
<1> QED BY <1>2, <1>3, <1>4, <1>5 DEF ProcessStarts

LEMMA ProfilerReadyKeeps ==
  ASSUME IInv, ProfilerReady
  PROVE  IInv'
<1>1. /\ profiling = "busy" /\ profiling' = "attached"
      /\ UNCHANGED <<application, task, process, killed, profiler, launches>>
      /\ told' \in {"launch", told} /\ mayProceed' \in {FALSE, mayProceed}
      /\ state # "Waiting" => told' = told
  BY DEF ProfilerReady, Proceed
<1> USE <1>1 DEF IInv, Types, application, task, progress
<1>2. Numbers' /\ RunningIsCounted' BY DEF Numbers, RunningIsCounted
<1>3. Place' /\ InPipeline' BY DEF Place, InPipeline
<1>4. Locks' BY DEF Locks
<1>5. Flags' BY DEF Flags
<1>6. Words' BY DEF Words
<1>7. Owners' /\ Orphans' BY DEF Owners, Orphans, AtProcess, Doomed
<1> QED BY <1>2, <1>3, <1>4, <1>5, <1>6, <1>7

LEMMA ProfilerAbortsKeeps ==
  ASSUME IInv, ProfilerAborts
  PROVE  IInv'
<1>0. /\ profiling # "no" /\ profiling' = "no" /\ controller' = "none"
      /\ runningInstances' = runningInstances - 1
      /\ UNCHANGED <<replaced, progress, process, profiler, launches>>
  BY DEF ProfilerAborts, ControllerFinished
<1>1. running /\ controller = "launched" /\ AtProcess /\ process # "none"
  BY <1>0 DEF IInv, Owners
<1>2. /\ state' = "Aborted" /\ mayProceed' \in BOOLEAN /\ killed' \in BOOLEAN
      /\ told' \in {"nothing", "launch", "abort"}
      /\ killed' \/ (steps[current] = "game" /\ told' = "abort")
  <2>1. /\ state' \in {state, "Aborted"} /\ mayProceed' \in BOOLEAN /\ killed' \in BOOLEAN
        /\ told' \in {"nothing", "launch", "abort"}
        /\ state \in Abortable =>
             state' = "Aborted" /\ (killed' \/ (steps[current] = "game" /\ told' = "abort"))
        /\ state \notin Abortable => state' = state /\ UNCHANGED <<told, killed>>
    BY Aborting DEF ProfilerAborts, IInv, Types, Flags, Words
  <2>2. state = "Waiting" \/ (state = "Aborted" /\ Doomed)
    BY <1>0 DEF IInv, Owners
  <2> QED BY <2>1, <2>2 DEF Abortable, Doomed
<1> USE <1>0, <1>1, <1>2 DEF IInv, Types, progress
<1>3. Numbers' /\ RunningIsCounted' BY DEF Numbers, RunningIsCounted
<1>4. Place' /\ InPipeline' /\ Locks' BY DEF Place, InPipeline, Locks
<1>5. Flags' /\ Words' BY DEF Flags, Words
<1>6. Owners' /\ Orphans' BY DEF Owners, Orphans, AtProcess, Doomed
<1> QED BY <1>3, <1>4, <1>5, <1>6

LEMMA ProcessEndsKeeps ==
  ASSUME IInv, ProcessFailsToStart \/ ProcessExits
  PROVE  IInv'
<1>1. running /\ process # "none"
  BY DEF ProcessFailsToStart, ProcessExits
<1>2. CASE \E s \in {state} : StepFails(s)
  BY <1>1, <1>2, EndKeeps DEF StepFails
<1>3. CASE MayExitWell /\ StepSucceeds
  <2>1. ~Doomed
    BY <1>3 DEF MayExitWell, Doomed
  <2>2. controller = "launched" /\ (profiling # "no" => state = "Waiting")
    BY <1>1, <2>1 DEF IInv, Owners, Orphans
  <2>3. aborting = FALSE /\ Advance(aborting)
    BY <1>1, <1>3 DEF IInv, Types, Flags, Owners, StepSucceeds
  <2> QED BY <1>1, <2>2, <2>3, AdvanceKeeps
<1> QED BY <1>2, <1>3 DEF ProcessFailsToStart, ProcessExits

LEMMA StutterKeeps ==
  ASSUME IInv, UNCHANGED vars
  PROVE  IInv'
<1> USE DEF IInv, Types, vars, application, task, progress, game, tool
<1>1. Numbers' /\ RunningIsCounted' BY DEF Numbers, RunningIsCounted
<1>2. Place' /\ InPipeline' /\ Locks' BY DEF Place, InPipeline, Locks
<1>3. Flags' /\ Words' BY DEF Flags, Words
<1>4. Owners' /\ Orphans' BY DEF Owners, Orphans, AtProcess, Doomed
<1> QED BY <1>1, <1>2, <1>3, <1>4

LEMMA Inductive == IInv /\ [Next]_vars => IInv'
<1> SUFFICES ASSUME IInv, [Next]_vars PROVE IInv'
  OBVIOUS
<1>1. ASSUME NEW p \in {"none", "bad", "good"}, AskLaunch(p) PROVE IInv'
  BY <1>1, AskLaunchKeeps
<1>2. ASSUME NEW m \in Modes, NEW n \in BOOLEAN, NEW s \in BOOLEAN, NEW l \in BOOLEAN,
             NEW c \in BOOLEAN, LaunchInstance(m, n, s, l, c)
      PROVE IInv'
  BY <1>2, LaunchInstanceKeeps
<1> QED
  BY <1>1, <1>2, LoginKeeps, StepEndsKeeps, KillKeeps, ProcessStartsKeeps, ProfilerReadyKeeps,
     ProfilerAbortsKeeps, ProcessEndsKeeps, StutterKeeps
  DEF Next

LEMMA Invariant == Spec => []IInv
  BY InitHolds, Inductive, PTL DEF Spec
-----------------------------------------------------------------------------
\* Every variable keeps its type.
THEOREM TypeCorrect == Spec => []TypeOK
  BY Invariant, InvariantTypes, PTL

\* The count of running instances is that of the controllers.
THEOREM CountRight == Spec => []RunningIsCounted
<1>1. IInv => RunningIsCounted
  BY DEF IInv
<1> QED BY <1>1, Invariant, PTL

\* The account that ClaimAccount finds for an online game is in use while the
\* game plays, and no account is in use by a launch that is over.
THEOREM AccountInUse == Spec => []AccountFollowsGame
<1>1. IInv => AccountFollowsGame
  <2> SUFFICES ASSUME IInv PROVE AccountFollowsGame
    OBVIOUS
  <2>1. ASSUME running, steps[current] = "game", mode = "Normal", found PROVE claimed
    <3>1. current \in 1 .. Len(steps) /\ ClaimFirst(steps)
      BY <2>1 DEF IInv, InPipeline
    <3>2. \E k \in 1 .. current - 1 : steps[k] = "claim"
      BY <2>1, <3>1 DEF ClaimFirst
    <3> QED BY <2>1, <3>2 DEF IInv, Locks
  <2> QED BY <2>1 DEF IInv, Locks, AccountFollowsGame
<1> QED BY <1>1, Invariant, PTL

\* A launch that kill() does not reach any more is dying already.
THEOREM OrphansDie == Spec => []OrphanDies
<1>1. IInv => OrphanDies
  BY DEF IInv, Orphans, Doomed, OrphanDies, Dying
<1> QED BY <1>1, Invariant, PTL
=============================================================================
