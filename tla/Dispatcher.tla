----------------------------- MODULE Dispatcher -----------------------------
(***************************************************************************)
(* The dispatcher (core/dispatch/disp.c) and the status word $1FE6         *)
(* (core/dispatch/status.c).  The 68000 posts a command to a mailbox; L1   *)
(* clears that mailbox's refusal bit and bit 15, runs the command's gates, *)
(* does its work or refuses it, writes 0 to the mailbox and sets bit 15.   *)
(* An audio post that finds the engine queue full is held: its gates and   *)
(* its finish come at the end of an item.  The levels below L1 write bits  *)
(* of the same word: the job step (14 and 8), the main-loop pass (3), the  *)
(* packet flush (13).  The 68000 reads the word at any time.  A command's  *)
(* arguments are the class its gates tell apart.                           *)
(***************************************************************************)
EXTENDS Integers, Sequences, FiniteSets

CONSTANTS
  Commands,     \* the commands posted to each mailbox
  JobRoom,      \* job slots that can be in use
  ItemRoom,     \* items the engine queue takes (SONG_Q_N)
  BelowBits,    \* the bits of $1FE6 the levels below write beside the job's
  MegaWireOn    \* s3_mw_on: the MegaWire code runs on this boot

ASSUME DispatcherAssumption ==
  JobRoom \in Nat \ {0, 1} /\ ItemRoom \in Nat \ {0} /\ MegaWireOn \in BOOLEAN

VARIABLES
  box,      \* $1FEC ("A") and $1FEA ("B"): the post, or NoPost
  arrived,  \* CAUSE and SEQLAT: mailboxes not served yet, oldest first
  waiting,  \* song_oeq's held posts, oldest first
  l1,       \* where L1 is
  fe6,      \* $1FE6, and its fe6 sh_fe6
  rmw,      \* an st_set below L1 between its read and its store
  ready,    \* the parts the C6 job has set up
  jobs,     \* the job queue: [type, report]
  step,     \* where the job step is
  items,    \* engine items waiting or running
  eng,      \* where L2b is: "idle", "body", or "take" in take_held
  session,  \* sc_session, sc_pending
  open,     \* frame_open
  sending,  \* MW_E7_PEND
  dog,      \* wd_arm
  verdict,  \* history: was the mailbox's last request refused?
  alone,    \* history: the last job_queued found no job
  failed    \* history: a reporting job has failed since then

vars == <<box, arrived, waiting, l1, fe6, rmw, ready, jobs, step,
          items, eng, session, open, sending, dog, verdict, alone, failed>>
history == <<verdict, alone, failed>>
-----------------------------------------------------------------------------
Mailboxes == {"A", "B"}
Parts == {"mixer", "seq", "sfx", "mw", "eng"}
NoPost == [cmd |-> "none", req |-> FALSE, args |-> FALSE, arg |-> "none"]
NoRmw == [on |-> FALSE, bit |-> 0, read |-> {}]
Refusal(m) == IF m = "A" THEN 10 ELSE 9

AudioPosts == {"88", "C9", "CA", "8C", "8D", "8E", "D0", "D1", "D2", "D3",
               "94", "D5", "D6"}
EnginePosts == {"EC", "AD", "AE", "AF", "B0", "B1", "F2"}
(* Mailbox A drops the low byte: where 0 is refused, and bit 14.           *)
LowByteZero == {"D0", "D1", "D2", "8C", "A8", "AA"}
Posted(m) ==
  {p \in [cmd : Commands[m], req : BOOLEAN, args : BOOLEAN,
          arg : {"good", "bad", "plain"}] :
     /\ p.req \/ (p.cmd = "FF" /\ p.arg = "good" /\ ~p.args)
     /\ p.arg = "plain" => p.cmd \in {"8C", "DA"} /\ m = "B"
     /\ m = "A" => ~p.args /\ (p.arg = "bad") = (p.cmd \in LowByteZero)}

Unready(part) == part \notin ready
Full(n) == Len(jobs) + n > JobRoom
Bad(p) == p.arg = "bad"

(* The gates of every command: it is refused when one of them holds.  Which *)
(* one it was decides a code in the trace, and nothing else.               *)
SystemGates(p) ==
  CASE p.cmd = "C6" -> ~p.args
    [] p.cmd = "83" -> Bad(p)
    [] p.cmd \in {"81", "82", "84"} -> FALSE
    [] OTHER -> TRUE
AudioGates(m, p) ==
  CASE p.cmd \in {"88", "C9", "CA"} -> Unready("mixer")
    [] p.cmd = "8C" -> Full(1) \/ Unready("seq") \/ Bad(p)
    [] p.cmd = "8D" -> Unready("seq")
    [] p.cmd = "8E" -> Unready("mixer") \/ Unready("seq") \/ Bad(p)
    [] p.cmd = "D0" -> Bad(p) \/ ~p.args \/ Unready("seq")
    [] p.cmd \in {"D1", "D2"} -> Bad(p) \/ Unready("sfx")
    [] p.cmd = "D3" -> m = "A" \/ Bad(p) \/ ~p.args \/ Unready("sfx")
    [] p.cmd = "D5" -> Unready("sfx") \/ Bad(p)
    [] p.cmd = "D6" -> Unready("seq") \/ Bad(p)
    [] OTHER -> FALSE                             \* 94
CopyGates(p) ==
  (p.cmd = "DA" /\ Full(1)) \/ ~p.args \/ Bad(p)
SaveGates(p) == Full(1) \/ ~p.args \/ Bad(p)
MegaWireGates(p) ==
  LET Off == MegaWireOn /\ "mw" \notin ready IN
  CASE p.cmd \in {"A4", "A6", "A9"} -> Off \/ p.args
    [] p.cmd = "E7" -> ~p.args \/ Off \/ (MegaWireOn /\ sending) \/ Bad(p)
    [] p.cmd = "A8" -> Off \/ p.args \/ Bad(p) \/ Full(1)
    [] OTHER -> p.args \/ Bad(p)                  \* AA
SpriteGates(p) ==
  \/ Unready("eng")
  \/ p.cmd \in {"EC", "F2"} /\ ~p.args
  \/ p.cmd \in {"EC", "AD"} /\ Bad(p)
ScaleGates(p) ==
  CASE p.cmd = "F4" -> ~p.args \/ Full(1) \/ Full(2) \/ Bad(p)
    [] p.cmd = "F5" -> ~p.args \/ Full(1)
    [] OTHER -> p.args \/ Full(1)                 \* B6

(* The table of mailbox B, and where the table of mailbox A differs.       *)
TableB(m, p) ==
  CASE p.cmd \in AudioPosts -> AudioGates(m, p)
    [] p.cmd \in {"DA", "DB"} -> CopyGates(p)
    [] p.cmd \in {"DF", "E0"} -> SaveGates(p)
    [] p.cmd \in {"A4", "A6", "A9", "E7", "A8", "AA"} -> MegaWireGates(p)
    [] p.cmd \in EnginePosts -> SpriteGates(p)
    [] p.cmd \in {"F4", "F5", "B6"} -> ScaleGates(p)
    [] OTHER -> SystemGates(p)
OnlyB == {"C6", "DA", "DB", "DF", "E0", "EC", "F2", "E7", "F4", "F5"}
Refused(m, p) == (m = "A" /\ p.cmd \in OnlyB) \/ TableB(m, p)

(* What an accepted command does to the job queue, to the word and to the  *)
(* engine queue.                                                           *)
Job(type, report) == [type |-> type, report |-> report]
QueuedBy(p) ==
  CASE p.cmd = "C6" /\ "mixer" \notin ready -> <<Job("setup", TRUE)>>
    [] p.cmd = "8C" /\ p.arg = "good" -> <<Job("module", FALSE)>>
    [] p.cmd = "DA" /\ p.arg = "good" -> <<Job("unpack", TRUE)>>
    [] p.cmd = "DF" -> <<Job("read", TRUE)>>
    [] p.cmd = "E0" -> <<Job("write", TRUE)>>
    [] p.cmd = "F4" -> <<Job("unpack", TRUE), Job("scale", TRUE)>>
    [] p.cmd = "F5" /\ session = "open" -> <<Job("rescale", TRUE)>>
    [] p.cmd = "B6" /\ session # "none" -> <<Job("restore", TRUE)>>
    [] OTHER -> <<>>
QueuedSets == {14}
QueuedClears_None == {}
QueuedClears == {8}
Sets(p) ==
  (IF QueuedBy(p) # <<>> THEN QueuedSets ELSE {})
    \cup (IF p.cmd = "E7" THEN IF MegaWireOn THEN {4} ELSE {5} ELSE {})
Clears(p) ==
  (IF QueuedBy(p) # <<>> THEN QueuedClears ELSE {})
    \cup (IF p.cmd = "94" /\ "mixer" \in ready THEN {13} ELSE {})
    \cup (IF p.cmd \in {"E7", "A6"} /\ MegaWireOn THEN {5} ELSE {})
    \cup (IF p.cmd = "A9" /\ MegaWireOn THEN {4} ELSE {})
After(w, m, p) ==
  IF Refused(m, p) THEN w \cup {Refusal(m)} ELSE (w \ Clears(p)) \cup Sets(p)
Pushes(m, p) ==
  p.cmd \in AudioPosts /\ ~Refused(m, p) /\ ~(p.cmd = "8C" /\ p.arg = "plain")

Queue(queued) ==
  /\ jobs' = jobs \o queued
  /\ IF queued = <<>> THEN UNCHANGED <<alone, failed>>
     ELSE alone' = (jobs = <<>>) /\ failed' = FALSE

(* The parts of an accepted command that only gates and handlers read.     *)
Watchdog(m, p) ==
  dog' = CASE p.cmd = "81" -> "armed"
           [] p.cmd = "94" /\ dog = "armed" -> "running"
           [] p.cmd \in {"84", "A8"} /\ ~Refused(m, p) -> "off"
           [] OTHER -> dog
Setup(p) ==
  ready' = IF p.cmd = "C6" /\ "mixer" \notin ready
           THEN ready \ {"seq", "sfx", "mw"} ELSE ready
Frame(p) ==
  open' = CASE p.cmd = "AE" -> TRUE [] p.cmd = "AF" -> FALSE [] OTHER -> open
Packet(p) ==
  sending' = CASE p.cmd = "E7" /\ MegaWireOn -> TRUE
               [] p.cmd = "A9" -> FALSE [] OTHER -> sending
Scaling(p) ==
  session' = CASE p.cmd \in {"F4", "B6"} -> "none"
               [] p.cmd = "F5" /\ session = "open" -> "pending"
               [] OTHER -> session
Parts0 == <<ready, open, sending, session>>
-----------------------------------------------------------------------------
Init ==
  /\ box = [m \in Mailboxes |-> NoPost] /\ arrived = <<>> /\ waiting = <<>>
  /\ l1 = [at |-> "idle", mbx |-> "A"]
  /\ fe6 = {14, 15} /\ rmw = NoRmw
  /\ ready = {} /\ jobs = <<>> /\ step = "idle" /\ items = 0 /\ eng = "idle"
  /\ session = "none" /\ open = FALSE /\ sending = FALSE /\ dog = "off"
  /\ verdict = [m \in Mailboxes |-> "none"]
  /\ alone = FALSE /\ failed = FALSE

(* The game posts to a mailbox it has seen finished; C6 on an idle machine.*)
Post(m) == \E p \in Posted(m) :
  /\ box[m] = NoPost
  /\ p.cmd = "C6" => jobs = <<>>
  /\ box' = [box EXCEPT ![m] = p] /\ arrived' = Append(arrived, m)
  /\ UNCHANGED <<waiting, l1, fe6, rmw, ready, jobs, step, items, eng,
                 session, open, sending, dog, history>>

(* Interrupts are off between an st_set's read and its store, and in       *)
(* take_held.                                                              *)
Masked_Not == eng = "take"
Masked == rmw # NoRmw \/ eng = "take"

(* L1, one post: disp_post, up to its finish.                              *)
EntryClears(m) == {15, Refusal(m)}
HoldsBack(p) ==
  p.cmd \in AudioPosts /\ (items >= ItemRoom \/ waiting # <<>>)
Serve ==
  /\ l1.at = "idle" /\ ~Masked /\ arrived # <<>>
  /\ LET m == Head(arrived)
         p == box[m]
         w == fe6 \ EntryClears(m) IN
     /\ arrived' = Tail(arrived)
     /\ CASE ~p.req ->
               /\ l1' = [at |-> "finish", mbx |-> m]
               /\ UNCHANGED <<waiting, fe6, jobs, items, dog, Parts0,
                              history>>
          [] p.req /\ p.cmd = "85" ->
               /\ l1' = [at |-> "halted", mbx |-> m] /\ fe6' = w
               /\ UNCHANGED <<waiting, jobs, items, dog, Parts0, history>>
          [] p.req /\ HoldsBack(p) ->
               /\ waiting' = Append(waiting, m) /\ fe6' = w /\ Watchdog(m, p)
               /\ UNCHANGED <<l1, jobs, items, Parts0, history>>
          [] p.req /\ p.cmd # "85" /\ ~HoldsBack(p) ->
               /\ l1' = [at |-> "finish", mbx |-> m]
               /\ fe6' = After(w, m, p) /\ Watchdog(m, p)
               /\ verdict' = [verdict EXCEPT ![m] =
                                IF Refused(m, p) THEN "refused" ELSE "taken"]
               /\ IF Refused(m, p)
                  THEN UNCHANGED <<jobs, alone, failed, Parts0>>
                  ELSE Queue(QueuedBy(p)) /\ Setup(p) /\ Frame(p)
                         /\ Packet(p) /\ Scaling(p)
               /\ items' = IF Pushes(m, p) THEN items + 1 ELSE items
               /\ UNCHANGED waiting
  /\ UNCHANGED <<box, rmw, step, eng>>

(* finish: the mailbox first, then bit 15.                                 *)
Finish ==
  /\ l1.at = "finish"
  /\ box' = [box EXCEPT ![l1.mbx] = NoPost] /\ l1' = [l1 EXCEPT !.at = "idle15"]
  /\ UNCHANGED <<arrived, waiting, fe6, rmw, ready, jobs, step, items, eng,
                 session, open, sending, dog, history>>
Idle15 ==
  /\ l1.at = "idle15" /\ fe6' = fe6 \cup {15}
  /\ l1' = [l1 EXCEPT !.at = "idle"]
  /\ UNCHANGED <<box, arrived, waiting, rmw, ready, jobs, step, items, eng,
                 session, open, sending, dog, history>>

(* L2b: an item, and take_held at its end, all of it with interrupts off.  *)
ItemStart ==
  /\ l1.at = "idle" /\ rmw = NoRmw /\ eng = "idle" /\ items > 0
  /\ eng' = "body"
  /\ UNCHANGED <<box, arrived, waiting, l1, fe6, rmw, ready, jobs, step,
                 items, session, open, sending, dog, history>>
ItemEnd ==
  /\ l1.at = "idle" /\ rmw = NoRmw /\ eng = "body"
  /\ eng' = "take" /\ items' = items - 1
  /\ UNCHANGED <<box, arrived, waiting, l1, fe6, rmw, ready, jobs, step,
                 session, open, sending, dog, history>>
Take ==
  /\ eng = "take" /\ waiting # <<>> /\ items < ItemRoom
  /\ LET m == Head(waiting)
         p == box[m] IN
     /\ waiting' = Tail(waiting)
     /\ fe6' = After(fe6, m, p) \cup {15}
     /\ verdict' = [verdict EXCEPT ![m] =
                      IF Refused(m, p) THEN "refused" ELSE "taken"]
     /\ IF Refused(m, p) THEN UNCHANGED <<jobs, alone, failed>>
        ELSE Queue(QueuedBy(p))
     /\ items' = IF Pushes(m, p) THEN items + 1 ELSE items
     /\ box' = [box EXCEPT ![m] = NoPost]
  /\ UNCHANGED <<arrived, l1, rmw, ready, step, eng, session, open, sending,
                 dog>>
TakeDone ==
  /\ eng = "take" /\ (waiting = <<>> \/ items = ItemRoom)
  /\ eng' = "idle"
  /\ UNCHANGED <<box, arrived, waiting, l1, fe6, rmw, ready, jobs, step,
                 items, session, open, sending, dog, history>>

(* st_set below L1.                                                        *)
Below == l1.at = "idle" /\ rmw = NoRmw /\ eng # "take"
Read(on, bit) == rmw' = [on |-> on, bit |-> bit, read |-> fe6]
Store ==
  /\ l1.at = "idle" /\ rmw # NoRmw
  /\ fe6' = IF rmw.on THEN rmw.read \cup {rmw.bit}
            ELSE rmw.read \ {rmw.bit}
  /\ rmw' = NoRmw
  /\ UNCHANGED <<box, arrived, waiting, l1, ready, jobs, step, items, eng,
                 session, open, sending, dog, history>>
(* The pass writes bit 3, the flush of a tick's item sets bit 13, the      *)
(* MegaWire task takes a packet (bit 4) and shows a result (bit 5).        *)
BelowWrites ==
  {w \in {<<TRUE, 3>>, <<FALSE, 3>>, <<TRUE, 13>>, <<FALSE, 4>>, <<TRUE, 5>>} :
     w[2] \in BelowBits}
MegaWireTurn == eng = "idle" /\ step = "idle" /\ "mw" \in ready
BelowWrite == \E w \in BelowWrites :
  /\ Below /\ (w[2] \in fe6) # w[1]
  /\ w[2] = 13 => eng = "body"
  /\ w[2] \in {4, 5} => MegaWireTurn
  /\ Read(w[1], w[2])
  /\ UNCHANGED <<box, arrived, waiting, l1, fe6, ready, jobs, step, items,
                 eng, session, open, sending, dog, history>>
PacketTaken ==
  /\ Below /\ MegaWireTurn /\ sending /\ sending' = FALSE
  /\ UNCHANGED <<box, arrived, waiting, l1, fe6, rmw, ready, jobs, step, items,
                 eng, session, open, dog, history>>

(* L2c's job step.                                                         *)
MayFail == {"module", "unpack", "write"}
SetUp == {{"mixer"}, {"mixer", "eng", "mw", "seq", "sfx"}}
JobRun ==
  /\ Below /\ eng = "idle" /\ step = "idle" /\ jobs # <<>>
  /\ \E fails \in BOOLEAN, parts \in SetUp :
       LET j == Head(jobs) IN
       /\ fails => j.type \in MayFail
       /\ ready' = IF j.type = "setup" THEN ready \cup parts ELSE ready
       /\ session' = CASE j.type = "scale" -> "open"
                       [] j.type = "restore" -> "none"
                       [] j.type = "rescale" /\ session = "pending" -> "open"
                       [] OTHER -> session
       /\ step' = IF fails /\ j.report THEN "fail" ELSE "end"
       /\ failed' = (failed \/ (fails /\ j.report))
  /\ UNCHANGED <<box, arrived, waiting, l1, fe6, rmw, jobs, items, eng, open,
                 sending, dog, verdict, alone>>
JobFail ==
  /\ Below /\ eng = "idle" /\ step = "fail"
  /\ Read(TRUE, 8) /\ step' = "end"
  /\ UNCHANGED <<box, arrived, waiting, l1, fe6, ready, jobs, items, eng,
                 session, open, sending, dog, history>>
JobEnd ==
  /\ Below /\ eng = "idle" /\ step = "end"
  /\ jobs' = Tail(jobs) /\ Read(Tail(jobs) # <<>>, 14) /\ step' = "idle"
  /\ UNCHANGED <<box, arrived, waiting, l1, fe6, ready, items, eng, session,
                 open, sending, dog, history>>

Next ==
  \/ \E m \in Mailboxes : Post(m)
  \/ Serve \/ Finish \/ Idle15
  \/ ItemStart \/ ItemEnd \/ Take \/ TakeDone
  \/ Store \/ BelowWrite \/ PacketTaken
  \/ JobRun \/ JobFail \/ JobEnd
Spec == Init /\ [][Next]_vars
-----------------------------------------------------------------------------
(* No queue goes past its room, whatever is posted and held.               *)
TypeOK ==
  /\ Len(jobs) <= JobRoom /\ items \in 0..ItemRoom
  /\ Len(arrived) <= 2 /\ Len(waiting) <= 2
  /\ fe6 \subseteq 0..15 /\ ready \subseteq Parts
  /\ session \in {"none", "open", "pending"}
  /\ dog \in {"off", "armed", "running"}
  /\ \A m \in Mailboxes : box[m].cmd \in Commands[m] \cup {"none"}

(* A 68000 that sees its mailbox at 0 reads the verdict of its own last    *)
(* request in that mailbox's refusal bit, whatever the other mailbox and   *)
(* the levels below did meanwhile, and also when the post was held: no     *)
(* store of a level below brings an old bit back (status.c's section).     *)
VerdictShown == \A m \in Mailboxes :
  box[m] = NoPost /\ verdict[m] # "none"
    => (Refusal(m) \in fe6) = (verdict[m] = "refused")

(* Bit 14 is set while a job is queued or runs; a game that posts its job  *)
(* to an empty queue and waits for bit 14 reads in bit 8 whether a job of  *)
(* that post failed.                                                       *)
JobsShown ==
  /\ jobs # <<>> => 14 \in fe6
  /\ 14 \notin fe6 /\ alone => (8 \in fe6) = failed
=============================================================================
