--------------------------- MODULE BrainCallProofs ---------------------------
(***************************************************************************)
(* BrainCall for every number of slices, posts, writes and lost ARMs.      *)
(*                                                                         *)
(* Glue says what the pending words know of a restart, Call what the call  *)
(* knows at each of its places, Arms what an ARM stands for.  A restart    *)
(* between two of the call's looks is harmless because it is Gone: the     *)
(* update's timer is stopped, and the game sends no other before the       *)
(* thread has been round.                                                  *)
(***************************************************************************)
EXTENDS BrainCall, SequenceTheorems, TLAPS

Flags == {"send", "restart", "aioff"}
Early == {"ack", "enter"}
Late  == {"crit", "wrap", "h2", "h1", "landed", "clean", "recheck", "pub"}
Called == Early \cup Late \cup {"back"}

Gone   == ~timing /\ (Halted \/ ~settled)
Own(n) == posts # loose => n = posts
SetUp  == missed \/ (ram = "whole" /\ ~dirty)

Glue ==
  /\ pc # "clear" => clr = {}
  /\ state = "ready" /\ "restart" \notin flags \ clr =>
       /\ missed \/ ~dirty \/ flagP \/ raised
       /\ restartP \/ missed \/ ram = (IF restoreP THEN "filling" ELSE "whole")

Call ==
  /\ pc \in Called =>
       /\ state # "new" /\ ~restartP
       /\ Gone \/ ("restart" \notin flags /\ (missed \/ ram = "whole"))
  /\ pc \in Early => Gone \/ missed \/ ~dirty \/ flagP \/ raised
  /\ pc \in {"crit", "wrap", "h2"} => Gone \/ missed \/ ~dirty \/ raised
  /\ pc \in {"h1", "recheck", "pub", "back"} \/ (pc = "clean" /\ ~rc) =>
       Gone \/ missed \/ ~dirty
  /\ pc \in Late => posts0 = posts \/ posts = loose
  /\ pc = "back" => pend = posts0

Arms ==
  /\ armed /\ timing => Own(latch)
  /\ arming /\ timing => Own(pend)
  /\ (armed \/ arming) /\ timing =>
       SetUp /\ state # "new" /\ "restart" \notin flags /\ ~restartP

-----------------------------------------------------------------------------
LEMMA AnswersAtFirst == Init => Glue /\ Call /\ Arms
BY DEF Init, Glue, Call, Arms, Called, Early, Late, Own, SetUp, Gone

LEMMA GlueKept ==
  ASSUME Glue, [Next]_vars PROVE Glue'
<1> USE DEF Glue, link, stub, glue, abort, calls, hist, fw, bound
<1>1. CASE Game
  <2>1. CASE Post BY <2>1 DEF Post
  <2>2. ASSUME NEW run, NEW req, Write(run, req) PROVE Glue'
    BY <2>2 DEF Write
  <2>3. QED BY <1>1, <2>1, <2>2 DEF Game, AiOff, Restart, Release
<1>2. CASE LinkStep
  BY <1>2 DEF LinkStep, NoBusy, TakeArm, LoseArm, GiveWord, DropBusy
<1>3. CASE Levels
  <2>1. CASE Send BY <2>1 DEF Send
  <2>2. ASSUME NEW l \in Taken, Enter(l) PROVE Glue' BY <2>2 DEF Enter
  <2>3. CASE Exit BY <2>3 DEF Exit, Lands, InCall
  <2>4. QED BY <1>3, <2>1, <2>2, <2>3 DEF Levels
<1>4. CASE Fault BY <1>4 DEF Fault, InCall
<1>5. CASE Idling
  <2>1. CASE Quiet BY <2>1 DEF Quiet
  <2>2. CASE Clear BY <2>2 DEF Clear, Thread
  <2>3. CASE Idle
    <3>1. CASE IdleOff BY <2>3, <3>1 DEF Idle, IdleOff
    <3>2. CASE IdleReady /\ state \in {"new", "ready"}
      <4> DEFINE new  == state = "new"
                 rp   == new \/ "restart" \in flags \/ restartP
                 go   == rp /\ ~Halted
                 p    == IF go THEN 0 ELSE pos
                 last == (go \/ restoreP) /\ p + 1 = Slices
      <4>1. /\ clr = {} /\ pc' = "clear" /\ flags' = flags /\ dirty' = dirty
            /\ missed' = missed /\ raised' = raised
        BY <2>3 DEF Idle, Thread
      <4>2. /\ flagP' = (flagP \/ new \/ "restart" \in flags)
            /\ restartP' = (rp /\ Halted)
            /\ restoreP' = ((go \/ restoreP) /\ ~last)
            /\ ram' = Restored(ram, go, last)
        BY <3>2 DEF IdleReady, Released, SliceEnds
      <4>3. missed' \/ ~dirty' \/ flagP' \/ raised' BY <3>2, <4>1, <4>2
      <4>4. restartP' \/ missed'
              \/ ram' = (IF restoreP' THEN "filling" ELSE "whole")
        <5> HIDE DEF last, go
        <5>1. CASE go
          <6>1. /\ restoreP' = ~last
                /\ ram' = (IF last THEN "whole" ELSE "filling")
            BY <5>1, <4>2 DEF Restored
          <6>2. CASE last BY <6>1, <6>2
          <6>3. CASE ~last BY <6>1, <6>3
          <6>4. QED BY <6>2, <6>3
        <5>2. CASE ~go /\ rp BY <5>2, <4>2 DEF go
        <5>3. CASE ~rp
          <6>1. /\ ~go
                /\ missed \/ ram = (IF restoreP THEN "filling" ELSE "whole")
            BY <5>3, <3>2, <4>1 DEF go
          <6>2. last => restoreP BY <6>1 DEF last
          <6>3. missed' = missed BY <4>1
          <6>4. restoreP' = (restoreP /\ ~last) BY <6>1, <4>2
          <6>5. ram' = (IF last /\ ram = "filling" THEN "whole" ELSE ram)
            BY <6>1, <4>2 DEF Restored
          <6>6. CASE missed BY <6>6, <6>3
          <6>7. CASE ram = (IF restoreP THEN "filling" ELSE "whole")
            <7>1. CASE last BY <6>2, <6>4, <6>5, <6>7, <7>1
            <7>2. CASE ~last BY <6>4, <6>5, <6>7, <7>2
            <7>3. QED BY <7>1, <7>2
          <6>8. QED BY <6>1, <6>6, <6>7
        <5>4. QED BY <5>1, <5>2, <5>3
      <4>5. QED BY <4>1, <4>3, <4>4
    <3>3. QED BY <2>3, <3>1, <3>2 DEF Idle
  <2>4. QED BY <1>5, <2>1, <2>2, <2>3 DEF Idling
<1>6. CASE Calling
  <2> USE DEF Thread, Go
  <2>1. CASE Take \/ Look \/ Ack BY <2>1 DEF Take, Look, Ack
  <2>2. CASE Ignore \/ Prepare
    <3>1. CASE Ignore BY <3>1 DEF Ignore
    <3>2. CASE Prepare
      <4>1. raised' <=> raised \/ flagP BY <3>2, Zenon DEF Prepare
      <4>2. pc = "enter" /\ pc' = "crit" /\ flags' = flags /\ clr' = clr
        BY <3>2 DEF Prepare
      <4>3. UNCHANGED <<state, dirty, missed, ram, restartP, restoreP>>
        BY <3>2 DEF Prepare
      <4>4. QED BY <4>1, <4>2, <4>3
    <3>3. QED BY <2>2, <3>1, <3>2
  <2>3. CASE Check \/ Wrap BY <2>3 DEF Check, Wrap
  <2>4. CASE H2 BY <2>4 DEF H2
  <2>5. CASE H1 \/ Landed \/ Clean BY <2>5 DEF H1, Landed, Clean
  <2>6. CASE Recheck \/ Publish \/ ReadBack \/ ArmAgain \/ End
    BY <2>6 DEF Recheck, Publish, ReadBack, ArmAgain, End
  <2>7. QED BY <1>6, <2>1, <2>2, <2>3, <2>4, <2>5, <2>6 DEF Calling
<1>7. CASE UNCHANGED vars BY <1>7 DEF vars
<1>8. QED
  BY <1>1, <1>2, <1>3, <1>4, <1>5, <1>6, <1>7 DEF Next, Step

LEMMA CallKept ==
  ASSUME Glue, Call, [Next]_vars PROVE Call'
<1> USE DEF Call, Called, Early, Late, Gone, Halted, link, stub, glue, abort,
        calls, hist, fw, bound
<1>1. CASE Game
  <2>1. CASE Post BY <2>1 DEF Post, MidCall
  <2>2. CASE AiOff BY <2>2 DEF AiOff, Write
  <2>3. CASE Restart BY <2>3 DEF Restart, Write
  <2>4. CASE Release BY <2>4 DEF Release, Write
  <2>5. QED BY <1>1, <2>1, <2>2, <2>3, <2>4 DEF Game
<1>2. CASE LinkStep
  BY <1>2 DEF LinkStep, NoBusy, TakeArm, LoseArm, GiveWord, DropBusy
<1>3. CASE Levels
  <2>1. CASE Send BY <2>1 DEF Send
  <2>2. ASSUME NEW l \in Taken, Enter(l) PROVE Call' BY <2>2 DEF Enter
  <2>3. CASE Exit BY <2>3 DEF Exit, Lands, InCall
  <2>4. QED BY <1>3, <2>1, <2>2, <2>3 DEF Levels
<1>4. CASE Fault BY <1>4 DEF Fault, InCall
<1>5. CASE Idling BY <1>5 DEF Idling, Quiet, Clear, Idle, Thread
<1>6. CASE Calling
  <2> USE DEF Thread, Go
  <2>1. CASE Take BY <2>1 DEF Take
  <2>2. CASE Look BY <2>2 DEF Look, CanCall, Glue
  <2>3. CASE Ack BY <2>3 DEF Ack
  <2>4. CASE Ignore BY <2>4 DEF Ignore
  <2>5. CASE Prepare BY <2>5 DEF Prepare
  <2>6. CASE Check \/ Wrap BY <2>6 DEF Check, Wrap
  <2>7. CASE H2 BY <2>7 DEF H2
  <2>8. CASE H1 \/ Landed BY <2>8 DEF H1, Landed
  <2>9. CASE Clean BY <2>9 DEF Clean
  <2>10. CASE Recheck BY <2>10 DEF Recheck
  <2>11. CASE Publish BY <2>11 DEF Publish
  <2>12. CASE ReadBack \/ ArmAgain \/ End
    BY <2>12 DEF ReadBack, ArmAgain, End
  <2>13. QED
    BY <1>6, <2>1, <2>2, <2>3, <2>4, <2>5, <2>6, <2>7, <2>8, <2>9, <2>10,
       <2>11, <2>12 DEF Calling
<1>7. CASE UNCHANGED vars BY <1>7 DEF vars
<1>8. QED
  BY <1>1, <1>2, <1>3, <1>4, <1>5, <1>6, <1>7 DEF Next, Step

LEMMA ArmsKept ==
  ASSUME Glue, Call, Arms, [Next]_vars PROVE Arms'
<1> USE DEF Arms, Own, SetUp, link, stub, glue, abort, calls, hist, fw, bound
<1>1. CASE Game
  <2>1. CASE Post BY <2>1 DEF Post
  <2>2. CASE AiOff BY <2>2 DEF AiOff, Write
  <2>3. CASE Restart BY <2>3 DEF Restart, Write
  <2>4. CASE Release BY <2>4 DEF Release, Write
  <2>5. QED BY <1>1, <2>1, <2>2, <2>3, <2>4 DEF Game
<1>2. CASE LinkStep
  <2>1. CASE TakeArm BY <2>1 DEF TakeArm
  <2>2. QED BY <1>2, <2>1 DEF LinkStep, NoBusy, LoseArm, GiveWord, DropBusy
<1>3. CASE Levels
  <2>1. CASE Send BY <2>1 DEF Send
  <2>2. ASSUME NEW l \in Taken, Enter(l) PROVE Arms' BY <2>2 DEF Enter
  <2>3. CASE Exit BY <2>3 DEF Exit
  <2>4. QED BY <1>3, <2>1, <2>2, <2>3 DEF Levels
<1>4. CASE Fault BY <1>4 DEF Fault
<1>5. CASE Idling
  <2>1. CASE Quiet BY <2>1 DEF Quiet
  <2>2. CASE Clear BY <2>2 DEF Clear
  <2>3. CASE Idle
    <3>1. CASE IdleOff BY <2>3, <3>1 DEF Idle, IdleOff, glueRest
    <3>2. CASE IdleReady
      BY <2>3, <3>2 DEF Idle, IdleReady, Released, Restored
    <3>3. QED BY <2>3, <3>1, <3>2 DEF Idle
  <2>4. QED BY <1>5, <2>1, <2>2, <2>3 DEF Idling
<1>6. CASE Calling
  <2> USE DEF Thread, Go
  <2>1. CASE Take \/ Look \/ Ack BY <2>1 DEF Take, Look, Ack
  <2>2. CASE Ignore \/ Prepare BY <2>2 DEF Ignore, Prepare
  <2>3. CASE Check \/ Wrap BY <2>3 DEF Check, Wrap
  <2>4. CASE H2 BY <2>4 DEF H2
  <2>5. CASE H1 \/ Landed \/ Clean BY <2>5 DEF H1, Landed, Clean
  <2>6. CASE Recheck \/ ReadBack \/ End BY <2>6 DEF Recheck, ReadBack, End
  <2>7. CASE Publish
    BY <2>7 DEF Publish, Call, Called, Late, Gone
  <2>8. CASE ArmAgain
    BY <2>8 DEF ArmAgain, Overtaken, Call, Called, Gone
  <2>9. QED
    BY <1>6, <2>1, <2>2, <2>3, <2>4, <2>5, <2>6, <2>7, <2>8 DEF Calling
<1>7. CASE UNCHANGED vars BY <1>7 DEF vars
<1>8. QED
  BY <1>1, <1>2, <1>3, <1>4, <1>5, <1>6, <1>7 DEF Next, Step

-----------------------------------------------------------------------------
Height(l) == CASE l = "l1" -> 3 [] l = "l2a" -> 2 [] l = "l2b" -> 1

Types ==
  /\ flags \subseteq Flags /\ clr \subseteq Flags
  /\ state \in {"new", "ready", "disabled"} /\ pos \in 0..(Slices - 1)
  /\ posts \in 0..MaxPosts /\ posts0 \in 0..MaxPosts /\ pend \in 0..MaxPosts
  /\ latch \in 0..MaxPosts /\ word \in 0..MaxPosts
  /\ tries \in 0..3 /\ (pc = "back" => tries <= 2)

Stack ==
  /\ over \in Seq(LevelNames)
  /\ \A i \in 1..Len(over) : i <= Height(over[i])

LEMMA TypesAtFirst == Init => Types /\ Stack
<1>1. 0 \in 0..(Slices - 1) /\ 0 \in 0..MaxPosts BY BrainAssumption
<1>2. Init => Types BY <1>1 DEF Init, Types, Flags
<1>3. Init => Stack BY DEF Init, Stack
<1>4. QED BY <1>2, <1>3

LEMMA StackKept ==
  ASSUME Stack, [Next]_vars PROVE Stack'
<1> USE DEF Stack
<1>1. ASSUME NEW l \in Taken, Enter(l) PROVE Stack'
  <2>1. l \in LevelNames /\ over' = Append(over, l)
    BY <1>1, BrainAssumption DEF Enter
  <2>2. over' \in Seq(LevelNames) /\ Len(over') = Len(over) + 1 BY <2>1
  <2>3. \A i \in 1..Len(over) : over'[i] = over[i] BY <2>1
  <2>4. over'[Len(over) + 1] = l BY <2>1
  <2>5. Len(over) + 1 <= Height(l)
    <3>1. CASE over = <<>> BY <3>1, <2>1 DEF Height, LevelNames
    <3>2. CASE over # <<>>
      <4>1. Len(over) \in 1..Len(over) BY <3>2
      <4>2. Len(over) <= Height(over[Len(over)]) BY <4>1
      <4>3. l \in Above(over[Len(over)]) BY <3>2, <1>1 DEF Enter
      <4>4. over[Len(over)] \in LevelNames BY <4>1
      <4>5. Height(over[Len(over)]) + 1 <= Height(l)
        BY <4>3, <4>4 DEF Above, Height, LevelNames
      <4>6. Height(l) \in Nat /\ Height(over[Len(over)]) \in Nat
        BY <2>1, <4>4 DEF Height, LevelNames
      <4>7. QED BY <4>2, <4>5, <4>6
    <3>3. QED BY <3>1, <3>2
  <2>6. QED BY <2>2, <2>3, <2>4, <2>5
<1>2. CASE Exit
  <2>1. over # <<>> /\ over' = SubSeq(over, 1, Len(over) - 1)
    BY <1>2 DEF Exit
  <2> DEFINE n == Len(over) - 1
  <2>2. n \in Nat /\ \A i \in 1..n : over[i] \in LevelNames BY <2>1
  <2>3. /\ over' \in Seq(LevelNames) /\ Len(over') = n
        /\ \A i \in 1..n : over'[i] = over[i]
    <3>1. over' = SubSeq(over, 1, n) BY <2>1
    <3> HIDE DEF n
    <3>2. /\ SubSeq(over, 1, n) \in Seq(LevelNames)
          /\ Len(SubSeq(over, 1, n)) = IF 1 <= n THEN n - 1 + 1 ELSE 0
          /\ \A i \in 1..(n - 1 + 1) : SubSeq(over, 1, n)[i] = over[1 + i - 1]
      BY <2>2, SubSeqProperties
    <3>3. QED BY <2>2, <3>1, <3>2
  <2>4. QED BY <2>2, <2>3
<1>3. over' = over \/ (\E l \in Taken : Enter(l)) \/ Exit
  BY DEF Next, vars, fw, Game, Post, AiOff, Restart, Release, Write, LinkStep,
     NoBusy, TakeArm, LoseArm, GiveWord, DropBusy, Levels, Send, Fault, Step,
     Idling, Quiet, Idle, Clear, Calling, Take, Look, Ack, Ignore, Prepare,
     Check, Wrap, H2, H1, Landed, Clean, Recheck, Publish, ReadBack, ArmAgain,
     End, Go
<1>4. QED BY <1>1, <1>2, <1>3

LEMMA TypesKept ==
  ASSUME Types, [Next]_vars PROVE Types'
<1> USE DEF Types, link, stub, glue, abort, calls, hist, fw, bound
<1>1. CASE Game
  <2>1. CASE Post BY <2>1, BrainAssumption DEF Post, Flags
  <2>2. ASSUME NEW run, NEW req, Write(run, req) PROVE Types'
    BY <2>2, BrainAssumption DEF Write, Flags
  <2>3. QED BY <1>1, <2>1, <2>2 DEF Game, AiOff, Restart, Release
<1>2. CASE LinkStep
  BY <1>2 DEF LinkStep, NoBusy, TakeArm, LoseArm, GiveWord, DropBusy
<1>3. CASE Levels
  <2>1. CASE Send BY <2>1 DEF Send
  <2>2. ASSUME NEW l \in Taken, Enter(l) PROVE Types' BY <2>2 DEF Enter
  <2>3. CASE Exit BY <2>3 DEF Exit
  <2>4. QED BY <1>3, <2>1, <2>2, <2>3 DEF Levels
<1>4. CASE Fault BY <1>4 DEF Fault
<1>5. CASE Idling
  <2>1. CASE Quiet BY <2>1 DEF Quiet
  <2>2. CASE Clear BY <2>2 DEF Clear
  <2>3. CASE Idle
    <3>1. CASE IdleOff BY <2>3, <3>1 DEF Idle, IdleOff, glueRest, Flags
    <3>2. CASE IdleReady
      <4>1. pos' \in 0..(Slices - 1)
        BY <3>2, BrainAssumption DEF IdleReady, Released, SliceEnds
      <4>2. clr' \subseteq Flags /\ state' = "ready"
        BY <3>2 DEF IdleReady, Flags
      <4>3. QED BY <2>3, <4>1, <4>2 DEF Idle
    <3>3. QED BY <2>3, <3>1, <3>2 DEF Idle
  <2>4. QED BY <1>5, <2>1, <2>2, <2>3 DEF Idling
<1>6. CASE Calling
  <2> USE DEF Thread, Go
  <2>1. CASE Take \/ Look BY <2>1 DEF Take, Look
  <2>2. CASE Ack BY <2>2 DEF Ack
  <2>3. CASE Ignore \/ Prepare BY <2>3 DEF Ignore, Prepare
  <2>4. CASE Check \/ Wrap BY <2>4 DEF Check, Wrap
  <2>5. CASE H2 \/ H1 BY <2>5 DEF H2, H1
  <2>6. CASE Landed \/ Clean BY <2>6 DEF Landed, Clean
  <2>7. CASE Recheck \/ ReadBack \/ End BY <2>7 DEF Recheck, ReadBack, End
  <2>8. CASE Publish BY <2>8 DEF Publish
  <2>9. CASE ArmAgain BY <2>9 DEF ArmAgain
  <2>10. QED
    BY <1>6, <2>1, <2>2, <2>3, <2>4, <2>5, <2>6, <2>7, <2>8, <2>9 DEF Calling
<1>7. CASE UNCHANGED vars BY <1>7 DEF vars
<1>8. QED
  BY <1>1, <1>2, <1>3, <1>4, <1>5, <1>6, <1>7 DEF Next, Step
-----------------------------------------------------------------------------
(* Every variable of the call, the glue and the link stays in its range;   *)
(* at most three levels stand above the thread.                            *)
THEOREM TypeCorrect == Spec => []TypeOK
<1>1. Types /\ Stack /\ [Next]_vars => (Types /\ Stack)'
  BY TypesKept, StackKept
<1>2. Types /\ Stack => TypeOK
  <2> SUFFICES ASSUME Types, Stack PROVE TypeOK OBVIOUS
  <2>1. Len(over) <= 3
    <3>1. CASE over = <<>> BY <3>1
    <3>2. CASE over # <<>>
      <4>1. Len(over) \in 1..Len(over) BY <3>2 DEF Stack
      <4>2. over[Len(over)] \in LevelNames BY <4>1 DEF Stack
      <4>3. Height(over[Len(over)]) \in 1..3 BY <4>2 DEF Height, LevelNames
      <4>4. Len(over) <= Height(over[Len(over)]) BY <4>1 DEF Stack
      <4>5. QED BY <4>1, <4>3, <4>4 DEF Stack
    <3>3. QED BY <3>1, <3>2
  <2>2. QED BY <2>1 DEF Types, Stack, TypeOK, Flags
<1>3. QED BY TypesAtFirst, <1>1, <1>2, PTL DEF Spec

(* The word the game reads when BUSY drops answers the update it waits     *)
(* for, with the Word RAM and the AI block set up again since the last     *)
(* restart (AnswerMatches): for every interleaving of its updates, its     *)
(* restarts and its AI offs with the call, and every ARM lost.             *)
THEOREM AnswerIsItsOwn == Spec => []AnswerMatches
<1>1. Glue /\ Call /\ Arms /\ [Next]_vars => (Glue /\ Call /\ Arms)'
  BY GlueKept, CallKept, ArmsKept
<1>2. Arms => AnswerMatches BY DEF Arms, Own, SetUp, AnswerMatches
<1>3. QED BY AnswersAtFirst, <1>1, <1>2, PTL DEF Spec

(* An abort lands only when the level that interrupted the call itself     *)
(* returns: no level's frame is cut (CutsNoLevel).                         *)
THEOREM AbortCutsNoLevel == Spec => CutsNoLevel
<1>1. Stack /\ [Next]_vars =>
        [pc' = "landed" /\ pc # "landed" => over' = <<>>]_vars
  <2> SUFFICES ASSUME Stack, Next, pc' = "landed", pc # "landed"
               PROVE  over' = <<>>
    BY DEF vars
  <2>1. CASE Exit
    <3>1. Len(over) = 1 /\ over' = SubSeq(over, 1, Len(over) - 1)
      BY <2>1 DEF Exit, Lands
    <3>2. over \in Seq(LevelNames) BY DEF Stack
    <3>3. QED BY <3>1, <3>2
  <2>2. CASE Fault BY <2>2 DEF Fault
  <2>3. Exit \/ Fault
    BY DEF Next, fw, Game, Post, AiOff, Restart, Release, Write, LinkStep,
       NoBusy, TakeArm, LoseArm, GiveWord, DropBusy, Levels, Send, Enter, Step,
       Idling, Quiet, Idle, Clear, Calling, Take, Look, Ack, Ignore, Prepare,
       Check, Wrap, H2, H1, Landed, Clean, Recheck, Publish, ReadBack,
       ArmAgain, End, Go
  <2>4. QED BY <2>1, <2>2, <2>3
<1>2. Stack /\ [Next]_vars => Stack' BY StackKept
<1>3. QED BY TypesAtFirst, <1>1, <1>2, PTL DEF Spec, CutsNoLevel
=============================================================================
