---------------------------- MODULE MegaWireProofs ----------------------------
(***************************************************************************)
(* MegaWire for every kind of packet, limit, bound and number of posts.    *)
(*                                                                         *)
(* Gates: the looks at the sprite frame and the ages they compare, and why *)
(* an open frame they pass is as old as the bound.  Flags: what the stores *)
(* of a result have done at each place of the thread, whatever post or     *)
(* init comes between them.  Where and Tasks: the places of the thread at  *)
(* which an init can be under way, and what a wait has counted.            *)
(***************************************************************************)
EXTENDS MegaWire, TLAPS

Storing == {"result", "word", "bit5"}
Mid     == {"parsed", "taken", "bit4"} \cup Storing
Before  == {"look", "masked", "open", "work"}
Waits   == WaitServer \/ WaitScan \/ WaitSignIn

Gates ==
  /\ frame \in BOOLEAN /\ started \in BOOLEAN
  /\ posts \in 0..MaxPosts /\ par \in 0..posts
  /\ sprPar \in 0..par /\ chk \in 0..par
  /\ aeAge \in 0..Bound /\ sprAge \in 0..Bound
  /\ par = sprPar => sprAge <= aeAge
  /\ pc = "open" /\ par = chk => ~frame \/ aeAge = Bound

Where ==
  /\ pc \in Before \cup {"req"} \cup Mid
  /\ init \in {"no", "zero", "ident", "irqoff"}
  /\ nx \in {"none", "idle", "game", "scan", "sign"}
  /\ ph \in {"a", "drv", "st", "ib", "ibst1", "ibst2", "ibst3", "tail"}
  /\ owed \in 0..MaxOwed /\ (ph = "a" /\ pc # "look" => owed > 0)
  /\ req \in {"none", "keep", "init"} /\ ready \in BOOLEAN /\ aa \in BOOLEAN
  /\ started \in BOOLEAN
  /\ ~started => ~ready /\ ~aa /\ init = "no" /\ pc \in Before
  /\ pc \in Mid => init = "no"
  /\ pc \in {"parsed", "taken", "bit4"} => nx # "none"

Tasks ==
  /\ state \in {"off", "new", "idle", "game", "scan", "sign"}
  /\ step \in 0..2 /\ cnt \in 0..(Limit + 1)
  /\ nx # "none" => step = 0
  /\ Waits /\ pc \notin Storing => cnt <= Limit

Flags ==
  /\ ResultWhole
  /\ pc = "bit5" /\ result => word
  /\ init \in {"ident", "irqoff"} => ~result

Packet ==
  /\ waitsB \in BOOLEAN /\ pend \in BOOLEAN /\ kind \in Packets
  /\ result \in BOOLEAN /\ word \in BOOLEAN
  /\ bit4 \in BOOLEAN /\ bit5 \in BOOLEAN

Shows ==
  /\ jobs \in BOOLEAN /\ scrOn \in BOOLEAN
  /\ screen \in {0, 1, 2, 3} /\ sph \in {"call", "body", "s1a", "s1b"}
  /\ waiting \in BOOLEAN /\ held \in BOOLEAN

-----------------------------------------------------------------------------
LEMMA GatesAtFirst == Init => Gates
<1> SUFFICES ASSUME Init PROVE Gates OBVIOUS
<1>1. /\ Bound \in Nat /\ MaxPosts \in Nat
      /\ 0 \in 0..MaxPosts /\ 0 \in 0..Bound /\ Bound \in 0..Bound
  BY MegaWireAssumption
<1>2. /\ frame = FALSE /\ started = FALSE /\ posts = 0 /\ par = 0 /\ sprPar = 0
      /\ chk = 0 /\ aeAge = Bound /\ sprAge = 0 /\ pc = "look"
  BY DEF Init
<1>3. sprAge <= aeAge BY <1>1, <1>2
<1>4. par \in 0..posts /\ sprPar \in 0..par /\ chk \in 0..par BY <1>2
<1>5. QED BY <1>1, <1>2, <1>3, <1>4 DEF Gates

(* No action of the task touches what the gate compares, nor opens it.     *)
LEMMA TaskAwayFromGate ==
  ASSUME Task PROVE Rest /\ pc' # "open"
<1> USE DEF At, Ends, Runs, Goes, thread
<1>1. CASE TakeAA BY <1>1 DEF TakeAA
<1>2. CASE NotReady BY <1>2 DEF NotReady
<1>3. CASE TakeReq BY <1>3 DEF TakeReq
<1>4. CASE ReqDone BY <1>4 DEF ReqDone
<1>5. CASE StateNew \/ StateIdle BY <1>5 DEF StateNew, StateIdle
<1>6. CASE Parse BY <1>6 DEF Parse
<1>7. CASE Parsed \/ Taken \/ Bit4 BY <1>7 DEF Parsed, Taken, Bit4
<1>8. CASE StateAsk BY <1>8 DEF StateAsk
<1>9. CASE StateWait BY <1>9 DEF StateWait
<1>10. CASE Result \/ Word BY <1>10 DEF Result, Word
<1>11. CASE Bit5 BY <1>11 DEF Bit5
<1>12. CASE Steps BY <1>12 DEF Steps
<1>13. QED
  BY <1>1, <1>2, <1>3, <1>4, <1>5, <1>6, <1>7, <1>8, <1>9, <1>10, <1>11,
     <1>12 DEF Task

LEMMA GatesKept ==
  ASSUME Gates, [Next]_vars PROVE Gates'
<1> USE MegaWireAssumption DEF Gates, gate, looks, thread, posted
<1>1. CASE Game
  <2>1. ASSUME NEW opens \in BOOLEAN, Frame(opens) PROVE Gates'
    BY <2>1 DEF Frame, Posted
  <2>2. ASSUME NEW k \in Kinds, E7(k) PROVE Gates' BY <2>2 DEF E7, Posted
  <2>3. ASSUME NEW b \in {"keep", "init"}, A4(b) PROVE Gates'
    BY <2>3 DEF A4, Posted
  <2>4. CASE AF BY <2>4 DEF AF
  <2>5. CASE A9 BY <2>5 DEF A9, Posted
  <2>6. CASE A6 BY <2>6 DEF A6, Posted
  <2>7. CASE AA BY <2>7 DEF AA, Posted
  <2>8. CASE A8 \/ RaiseB BY <2>8 DEF A8, RaiseB
  <2>9. CASE C6 BY <2>9 DEF C6
  <2>10. QED
    BY <1>1, <2>1, <2>2, <2>3, <2>4, <2>5, <2>6, <2>7, <2>8, <2>9 DEF Game
<1>2. CASE ReadRecord \/ Tick BY <1>2 DEF ReadRecord, Tick
<1>3. CASE Time BY <1>3 DEF Time, Older
<1>4. CASE Inits BY <1>4 DEF Inits, InitZero, InitIdent, InitIrqoff
<1>5. CASE Look BY <1>5 DEF Look, Note
<1>6. CASE Recheck BY <1>6 DEF Recheck, Note
<1>7. CASE Open
  <2>1. frame => par = sprPar /\ sprAge = Bound BY <1>7 DEF Open, SpriteWait
  <2>2. QED BY <1>7, <2>1 DEF Open
<1>8. CASE Enter BY <1>8 DEF Enter
<1>9. CASE Task BY <1>9, TaskAwayFromGate DEF Rest
<1>10. CASE Screen
  BY <1>10 DEF Screen, ScrCall, ScrBody, ScrS1A, ScrS1B, KeepsScreen
<1>11. CASE UNCHANGED vars BY <1>11 DEF vars
<1>12. QED
  BY <1>1, <1>2, <1>3, <1>4, <1>5, <1>6, <1>7, <1>8, <1>9, <1>10, <1>11
     DEF Next, Gate

LEMMA EntersPastFrame ==
  ASSUME Gates, [Next]_vars
  PROVE  pc = "open" /\ pc' = "work" => ~frame \/ aeAge = Bound
<1> SUFFICES ASSUME pc = "open", pc' = "work" PROVE ~frame \/ aeAge = Bound
  OBVIOUS
<1>1. CASE Enter BY <1>1 DEF Enter, Gates
<1>2. CASE Task
  BY <1>2 DEF Task, TakeAA, NotReady, TakeReq, ReqDone, StateNew, StateIdle,
     Parse, Parsed, Taken, Bit4, StateAsk, StateWait, Result, Word, Bit5,
     Steps, Runs, At
<1>3. CASE Game
  BY <1>3 DEF Game, Frame, E7, A4, AF, A9, A6, AA, A8, RaiseB, C6, thread
<1>4. QED
  BY <1>1, <1>2, <1>3
     DEF Next, vars, thread, Gate, Look, Recheck, Open, Screen, ScrCall,
     ScrBody, ScrS1A, ScrS1B, KeepsScreen, Inits, InitZero, InitIdent,
     InitIrqoff, ReadRecord, Tick, Time
-----------------------------------------------------------------------------
LEMMA FlagsAtFirst == Init => Flags
BY DEF Init, Flags, ResultWhole

LEMMA FlagsKept ==
  ASSUME Flags, [Next]_vars PROVE Flags'
<1> USE DEF Flags, ResultWhole, thread, inits, answer
<1>1. CASE Game
  BY <1>1 DEF Game, Frame, E7, A4, AF, A9, A6, AA, A8, RaiseB, C6
<1>2. CASE ReadRecord \/ Tick \/ Time BY <1>2 DEF ReadRecord, Tick, Time
<1>3. CASE Inits BY <1>3 DEF Inits, InitZero, InitIdent, InitIrqoff
<1>4. CASE Gate BY <1>4 DEF Gate, Look, Recheck, Open, Enter
<1>5. CASE Task
  <2> USE DEF Rest, At, Ends, Runs, Goes
  <2>1. CASE TakeAA \/ NotReady BY <2>1 DEF TakeAA, NotReady
  <2>2. CASE TakeReq BY <2>2 DEF TakeReq
  <2>3. CASE ReqDone \/ StateNew \/ StateIdle
    BY <2>3 DEF ReqDone, StateNew, StateIdle
  <2>4. CASE Parse BY <2>4 DEF Parse
  <2>5. CASE Parsed \/ Taken \/ Bit4 BY <2>5 DEF Parsed, Taken, Bit4
  <2>6. CASE StateAsk BY <2>6 DEF StateAsk
  <2>7. CASE StateWait BY <2>7 DEF StateWait
  <2>8. CASE Result \/ Word BY <2>8 DEF Result, Word
  <2>9. CASE Bit5 BY <2>9 DEF Bit5
  <2>10. CASE Steps BY <2>10 DEF Steps
  <2>11. QED
    BY <1>5, <2>1, <2>2, <2>3, <2>4, <2>5, <2>6, <2>7, <2>8, <2>9, <2>10
       DEF Task
<1>6. CASE Screen
  BY <1>6 DEF Screen, ScrCall, ScrBody, ScrS1A, ScrS1B, KeepsScreen
<1>7. CASE UNCHANGED vars BY <1>7 DEF vars
<1>8. QED
  BY <1>1, <1>2, <1>3, <1>4, <1>5, <1>6, <1>7 DEF Next
-----------------------------------------------------------------------------
LEMMA PacketAtFirst == Init => Packet
BY DEF Init, Packet, Packets

LEMMA PacketKept ==
  ASSUME Packet, [Next]_vars PROVE Packet'
<1> USE DEF Packet, answer
<1>1. CASE Game
  <2>1. ASSUME NEW k \in Kinds, E7(k) PROVE Packet'
    BY <2>1, MegaWireAssumption DEF E7
  <2>2. CASE A9 \/ A6 BY <2>2 DEF A9, A6
  <2>3. CASE A8 \/ RaiseB BY <2>3 DEF A8, RaiseB
  <2>4. CASE AF \/ AA \/ C6 BY <2>4 DEF AF, AA, C6
  <2>5. ASSUME NEW opens \in BOOLEAN, Frame(opens) PROVE Packet'
    BY <2>5 DEF Frame
  <2>6. ASSUME NEW b \in {"keep", "init"}, A4(b) PROVE Packet' BY <2>6 DEF A4
  <2>7. QED BY <1>1, <2>1, <2>2, <2>3, <2>4, <2>5, <2>6 DEF Game
<1>2. CASE ReadRecord \/ Tick \/ Time BY <1>2 DEF ReadRecord, Tick, Time
<1>3. CASE Inits BY <1>3 DEF Inits, InitZero, InitIdent, InitIrqoff
<1>4. CASE Gate BY <1>4 DEF Gate, Look, Recheck, Open, Enter
<1>5. CASE Task
  <2> USE DEF At, Ends, Runs, Goes
  <2>1. Rest BY <1>5, TaskAwayFromGate
  <2>2. CASE TakeAA \/ NotReady BY <2>1, <2>2 DEF Rest, TakeAA, NotReady
  <2>3. CASE TakeReq BY <2>1, <2>3 DEF Rest, TakeReq
  <2>4. CASE ReqDone \/ StateNew \/ StateIdle
    BY <2>1, <2>4 DEF Rest, ReqDone, StateNew, StateIdle
  <2>5. CASE Parse BY <2>1, <2>5 DEF Rest, Parse
  <2>6. CASE Parsed \/ Taken \/ Bit4
    BY <2>1, <2>6 DEF Rest, Parsed, Taken, Bit4
  <2>7. CASE StateAsk \/ StateWait
    BY <2>1, <2>7 DEF Rest, StateAsk, StateWait
  <2>8. CASE Result \/ Word \/ Bit5
    BY <2>1, <2>8 DEF Rest, Result, Word, Bit5
  <2>9. CASE Steps BY <2>1, <2>9 DEF Rest, Steps
  <2>10. QED
    BY <1>5, <2>2, <2>3, <2>4, <2>5, <2>6, <2>7, <2>8, <2>9 DEF Task
<1>6. CASE Screen
  BY <1>6 DEF Screen, ScrCall, ScrBody, ScrS1A, ScrS1B, KeepsScreen
<1>7. CASE UNCHANGED vars BY <1>7 DEF vars
<1>8. QED BY <1>1, <1>2, <1>3, <1>4, <1>5, <1>6, <1>7 DEF Next

LEMMA ShowsAtFirst == Init => Shows
BY DEF Init, Shows, Packets

LEMMA ShowsKept ==
  ASSUME Shows, [Next]_vars PROVE Shows'
<1> USE DEF Shows, scr
<1>1. CASE Game
  <2>1. ASSUME NEW k \in Kinds, E7(k) PROVE Shows'
    BY <2>1, MegaWireAssumption DEF E7
  <2>2. CASE A9 \/ A6 BY <2>2 DEF A9, A6
  <2>3. CASE A8 \/ RaiseB BY <2>3 DEF A8, RaiseB
  <2>4. CASE AF \/ AA \/ C6 BY <2>4 DEF AF, AA, C6
  <2>5. ASSUME NEW opens \in BOOLEAN, Frame(opens) PROVE Shows'
    BY <2>5 DEF Frame
  <2>6. ASSUME NEW b \in {"keep", "init"}, A4(b) PROVE Shows' BY <2>6 DEF A4
  <2>7. QED BY <1>1, <2>1, <2>2, <2>3, <2>4, <2>5, <2>6 DEF Game
<1>2. CASE ReadRecord \/ Tick \/ Time BY <1>2 DEF ReadRecord, Tick, Time
<1>3. CASE Inits BY <1>3 DEF Inits, InitZero, InitIdent, InitIrqoff
<1>4. CASE Gate BY <1>4 DEF Gate, Look, Recheck, Open, Enter
<1>5. CASE Task BY <1>5, TaskAwayFromGate DEF Rest
<1>6. CASE Screen
  <2>1. CASE ScrCall \/ ScrBody BY <2>1 DEF ScrCall, ScrBody, KeepsScreen
  <2>2. ASSUME NEW p \in BOOLEAN, ScrS1A(p) PROVE Shows'
    BY <2>2 DEF ScrS1A, S1End, KeepsScreen
  <2>3. CASE ScrS1B BY <2>3 DEF ScrS1B, S1End, KeepsScreen
  <2>4. QED BY <1>6, <2>1, <2>2, <2>3 DEF Screen
<1>7. CASE UNCHANGED vars BY <1>7 DEF vars
<1>8. QED BY <1>1, <1>2, <1>3, <1>4, <1>5, <1>6, <1>7 DEF Next

LEMMA WhereAtFirst == Init => Where
<1>1. 0 \in 0..MaxOwed BY MegaWireAssumption
<1>2. QED BY <1>1 DEF Init, Where, Before, Mid, Storing

LEMMA WhereKept ==
  ASSUME Where, [Next]_vars PROVE Where'
<1> USE DEF Where, Before, Mid, Storing, thread, inits, posted
<1>1. CASE Game
  <2>1. CASE C6 BY <2>1 DEF C6
  <2>2. CASE AA BY <2>2 DEF AA, Posted
  <2>3. ASSUME NEW b \in {"keep", "init"}, A4(b) PROVE Where'
    BY <2>3 DEF A4, Posted
  <2>4. ASSUME NEW opens \in BOOLEAN, Frame(opens) PROVE Where'
    BY <2>4 DEF Frame, Posted
  <2>5. CASE AF \/ A9 \/ A6 BY <2>5 DEF AF, A9, A6, Posted
  <2>6. CASE A8 \/ RaiseB BY <2>6 DEF A8, RaiseB
  <2>7. ASSUME NEW k \in Kinds, E7(k) PROVE Where' BY <2>7 DEF E7, Posted
  <2>8. QED
    BY <1>1, <2>1, <2>2, <2>3, <2>4, <2>5, <2>6, <2>7 DEF Game
<1>2. CASE ReadRecord \/ Tick \/ Time
  <2>1. CASE Tick
    <3>1. owed' \in 0..MaxOwed /\ owed' > 0
      BY <2>1, MegaWireAssumption DEF Tick
    <3>2. QED BY <2>1, <3>1 DEF Tick
  <2>2. QED BY <1>2, <2>1 DEF ReadRecord, Time
<1>3. CASE Inits
  <2>1. started BY <1>3 DEF Inits, InitZero, InitIdent, InitIrqoff
  <2>2. pc \notin Mid BY <1>3 DEF Inits, InitZero, InitIdent, InitIrqoff
  <2>3. CASE InitZero BY <2>1, <2>2, <2>3 DEF InitZero
  <2>4. CASE InitIdent BY <2>1, <2>2, <2>4 DEF InitIdent
  <2>5. CASE InitIrqoff BY <2>1, <2>2, <2>5 DEF InitIrqoff
  <2>6. QED BY <1>3, <2>3, <2>4, <2>5 DEF Inits
<1>4. CASE Gate
  BY <1>4, MegaWireAssumption DEF Gate, Look, Recheck, Open, Enter, Due
<1>5. CASE Task
  <2> USE MegaWireAssumption DEF Rest, At, Ends, Runs, Goes
  <2>1. CASE TakeAA \/ NotReady
    <3>1. CASE TakeAA BY <3>1 DEF TakeAA
    <3>2. CASE NotReady
      <4>1. owed - 1 \in 0..MaxOwed BY <3>2 DEF NotReady
      <4>2. QED BY <3>2, <4>1 DEF NotReady
    <3>3. QED BY <2>1, <3>1, <3>2
  <2>2. CASE TakeReq BY <2>2 DEF TakeReq
  <2>3. CASE ReqDone \/ StateNew \/ StateIdle
    BY <2>3 DEF ReqDone, StateNew, StateIdle
  <2>4. CASE Parse BY <2>4 DEF Parse
  <2>5. CASE Parsed \/ Taken \/ Bit4 BY <2>5 DEF Parsed, Taken, Bit4
  <2>6. CASE StateAsk BY <2>6 DEF StateAsk
  <2>7. CASE StateWait BY <2>7 DEF StateWait
  <2>8. CASE Result \/ Word BY <2>8 DEF Result, Word
  <2>9. CASE Bit5 BY <2>9 DEF Bit5
  <2>10. CASE Steps
    <3>1. ASSUME NEW i \in 1..(Len(Block) - 1), At(Block[i]),
                 Ends(Block[i + 1])
          PROVE  ph' \in {"ibst1", "ibst2", "ibst3", "tail"}
      BY <3>1 DEF Block
    <3>2. ph' \in {"a", "st", "ib", "ibst1", "ibst2", "ibst3", "tail"}
      BY <2>10, <3>1 DEF Steps
    <3>3. /\ pc = "work" /\ init = "no" /\ pc' = "look" /\ nx' = "none"
          /\ owed' = IF ph = "a" THEN owed - 1 ELSE owed
      BY <2>10 DEF Steps
    <3>4. QED BY <2>10, <3>2, <3>3 DEF Steps
  <2>11. QED
    BY <1>5, <2>1, <2>2, <2>3, <2>4, <2>5, <2>6, <2>7, <2>8, <2>9, <2>10
       DEF Task
<1>6. CASE Screen
  BY <1>6 DEF Screen, ScrCall, ScrBody, ScrS1A, ScrS1B, KeepsScreen
<1>7. CASE UNCHANGED vars BY <1>7 DEF vars
<1>8. QED
  BY <1>1, <1>2, <1>3, <1>4, <1>5, <1>6, <1>7 DEF Next

LEMMA TasksAtFirst == Init => Tasks
<1>1. 0 \in 0..(Limit + 1) /\ 0 <= Limit BY MegaWireAssumption
<1>2. QED BY <1>1 DEF Init, Tasks, Waits, WaitServer, WaitScan, WaitSignIn

(* The counter of a wait passes its limit only on the way to the result.   *)
LEMMA TasksKept ==
  ASSUME Where, Tasks, [Next]_vars PROVE Tasks'
<1> USE DEF Where, Tasks, Before, Mid, Storing, thread, inits, task, Waits,
        WaitServer, WaitScan, WaitSignIn
<1>1. CASE Game
  BY <1>1 DEF Game, Frame, E7, A4, AF, A9, A6, AA, A8, RaiseB, C6, Posted
<1>2. CASE ReadRecord \/ Tick \/ Time
  BY <1>2, MegaWireAssumption DEF ReadRecord, Tick, Time
<1>3. CASE Inits
  BY <1>3, MegaWireAssumption DEF Inits, InitZero, InitIdent, InitIrqoff
<1>4. CASE Gate BY <1>4 DEF Gate, Look, Recheck, Open, Enter
<1>5. CASE Task
  <2> USE MegaWireAssumption DEF Rest, At, Ends, Runs, Goes
  <2>1. CASE TakeAA \/ NotReady BY <2>1 DEF TakeAA, NotReady
  <2>2. CASE TakeReq BY <2>2 DEF TakeReq
  <2>3. CASE ReqDone \/ StateNew \/ StateIdle
    BY <2>3 DEF ReqDone, StateNew, StateIdle
  <2>4. CASE Parse BY <2>4 DEF Parse
  <2>5. CASE Parsed \/ Taken \/ Bit4 BY <2>5 DEF Parsed, Taken, Bit4
  <2>6. CASE StateAsk BY <2>6 DEF StateAsk, AskServer, AskScan, AskSignIn
  <2>7. CASE StateWait BY <2>7 DEF StateWait
  <2>8. CASE Result \/ Word BY <2>8 DEF Result, Word
  <2>9. CASE Bit5 BY <2>9 DEF Bit5
  <2>10. CASE Steps BY <2>10 DEF Steps
  <2>11. QED
    BY <1>5, <2>1, <2>2, <2>3, <2>4, <2>5, <2>6, <2>7, <2>8, <2>9, <2>10
       DEF Task
<1>6. CASE Screen
  BY <1>6 DEF Screen, ScrCall, ScrBody, ScrS1A, ScrS1B, KeepsScreen
<1>7. CASE UNCHANGED vars BY <1>7 DEF vars
<1>8. QED
  BY <1>1, <1>2, <1>3, <1>4, <1>5, <1>6, <1>7 DEF Next
-----------------------------------------------------------------------------
(* Every variable of the MegaWire task, its gate and its screen stays in   *)
(* its range; a wait's counter passes its limit by at most one.            *)
THEOREM TypeCorrect == Spec => []TypeOK
<1> DEFINE Inv == Gates /\ Where /\ Tasks /\ Packet /\ Shows
<1>1. Init => Inv
  BY GatesAtFirst, WhereAtFirst, TasksAtFirst, PacketAtFirst, ShowsAtFirst
<1>2. Inv /\ [Next]_vars => Inv'
  BY GatesKept, WhereKept, TasksKept, PacketKept, ShowsKept
<1>3. Inv => TypeOK
  BY MegaWireAssumption
     DEF Gates, Where, Tasks, Packet, Shows, TypeOK, Before, Mid, Storing
<1>4. QED BY <1>1, <1>2, <1>3, PTL DEF Spec

(* A result the task counts as shown has its word and its status bit,      *)
(* whichever A6, E7 or init came between the stores (ResultWhole).         *)
THEOREM ResultIsWhole == Spec => []ResultWhole
<1>1. Flags /\ [Next]_vars => Flags' BY FlagsKept
<1>2. Flags => ResultWhole BY DEF Flags
<1>3. QED BY FlagsAtFirst, <1>1, <1>2, PTL DEF Spec

(* No step of the task starts inside an open sprite frame younger than the *)
(* bound (StepOutsideFrame).                                               *)
THEOREM StepsOutsideFrame == Spec => StepOutsideFrame
<1>1. Gates /\ [Next]_vars => Gates' BY GatesKept
<1>2. Gates /\ [Next]_vars =>
        [pc = "open" /\ pc' = "work" => ~frame \/ aeAge = Bound]_vars
  BY EntersPastFrame
<1>3. QED BY GatesAtFirst, <1>1, <1>2, PTL DEF Spec, StepOutsideFrame
=============================================================================
