------------------------------- MODULE Saves -------------------------------
(***************************************************************************)
(* The battery save (interim/s1/bodies_s1.c, FW_S5): the boot's import of  *)
(* a 0.2.x save, and the save jobs DF (read) and E0 (write).  Each id has  *)
(* two places in the 8 KB save, each a sealed copy (sequence number, id,   *)
(* magic, an XOR of 0) or bytes that are none.                             *)
(* A reset (Soft Reset, or the Pocket's quit, which restarts the core) may *)
(* come between any two bytes that are written; the save RAM keeps what it *)
(* holds.  A place written in part counts as no copy: the one chance in    *)
(* 256 that its XOR is 0 all the same is left out.                         *)
(***************************************************************************)
EXTENDS Naturals

CONSTANTS Ids,         \* the ids of the slot table (1-4 and 9)
          OldIds,      \* those of them that 0.2.x had (1-4)
          NoId,        \* an id the table lacks
          Data,        \* what a payload can be
          Zeros,       \* a payload of zeros
          Garbage,     \* a payload that nobody wrote
          TopSeq,      \* the highest sequence number written (0xFFFFFFFD)
          ResetIn,     \* where a reset can come
          MaxJobs,     \* bound on the save jobs
          MaxResets    \* bound on the resets

ASSUME SavesAssumption ==
  /\ OldIds \subseteq Ids /\ OldIds \subseteq Nat /\ NoId \notin Ids
  /\ Zeros \notin Data /\ Garbage \notin Data /\ Zeros # Garbage
  /\ TopSeq \in Nat /\ TopSeq >= 2 /\ MaxJobs \in Nat /\ MaxResets \in Nat
  /\ ResetIn \subseteq {"boot", "import", "importing", "idle", "writing"}

Cut == "cut"           \* a write of this id was cut by a reset

VARIABLES
  place,               \* the save RAM: what each <<id, 1>> and <<id, 2>> holds
  step,                \* where the boot or the running job is
  left,                \* the ids the import has still to look at
  at, wb,              \* the place being written, and the copy built for it
  answer, failed,      \* cart RAM after a read; $1FE6 bit 8 after a write
  jobs, resets,        \* events so far (bounds only)
  last                 \* of each id: its 0.2.x bytes, or its last whole write

vars == <<place, step, left, at, wb, answer, failed, jobs, resets, last>>
jobVars == <<answer, failed, jobs, last>>

Payload == Data \cup {Zeros, Garbage}
Places  == Ids \X {1, 2}
Holding ==
  [form : {"blank", "bytes", "part", "copy"}, seq : 0..TopSeq, data : Payload]

Bytes(d) == [form |-> "bytes", seq |-> 0, data |-> d]
Blank == [form |-> "blank", seq |-> 0, data |-> Zeros]
Part  == [form |-> "part", seq |-> 0, data |-> Garbage]
Copy(s, d) == [form |-> "copy", seq |-> s, data |-> d]

\* eep_valid
Valid(x) == place[x].form = "copy"
ValidOf(id) == {c \in {1, 2} : Valid(<<id, c>>)}
Seq(id, c) == place[<<id, c>>].seq

\* The copy a read takes: the highest sequence, the first at a tie.
Newest(id) ==
  CHOOSE c \in ValidOf(id) : \A o \in ValidOf(id) :
    Seq(id, o) < Seq(id, c) \/ (Seq(id, o) = Seq(id, c) /\ c <= o)
ReadOf(id) ==
  IF ValidOf(id) = {} THEN Zeros ELSE place[<<id, Newest(id)>>].data

\* The place a write takes: the valid copy with the lowest sequence, the first
\* at a tie; with no valid copy the first place.
Target_Spare(id) ==                              \* mutant: a place with no copy first
  IF ValidOf(id) = {1} THEN 2 ELSE 1
Target(id) ==
  IF ValidOf(id) = {} THEN 1
  ELSE CHOOSE c \in ValidOf(id) : \A o \in ValidOf(id) :
         Seq(id, c) < Seq(id, o) \/ (Seq(id, o) = Seq(id, c) /\ c <= o)

\* The sequence it gets: 2 where no copy was, else the copy's and 1, to the top.
NextSeq(id, c) ==
  IF ~Valid(<<id, c>>) THEN 2
  ELSE IF Seq(id, c) < TopSeq THEN Seq(id, c) + 1 ELSE TopSeq

\* A save from 0.2.x, or a blank one, at power-on.
Init ==
  /\ \E old \in [OldIds -> {Blank} \cup {Bytes(d) : d \in Data}] :
       /\ place = [x \in Places |->
                     IF x[2] = 1 /\ x[1] \in OldIds THEN old[x[1]] ELSE Blank]
       /\ last = [id \in Ids |-> IF id \in OldIds THEN old[id].data ELSE Zeros]
  /\ step = "boot" /\ left = {} /\ at = <<>> /\ wb = Blank
  /\ answer = Zeros /\ failed = FALSE /\ jobs = 0 /\ resets = 0
-----------------------------------------------------------------------------
\* eep_import: nothing once one of the ids has a valid copy.
Imported_Never == FALSE                          \* mutant: the boot imports every time
Imported == \E id \in OldIds : ValidOf(id) # {}

BootLook ==
  /\ step = "boot"
  /\ IF Imported THEN step' = "idle" /\ UNCHANGED left
     ELSE step' = "import" /\ left' = OldIds
  /\ UNCHANGED <<place, at, wb, jobVars, resets>>

\* The next id: a blank slot is left; anything else is taken for 0.2.x's bytes,
\* sealed, and written over itself byte by byte.
ImportNext ==
  /\ step = "import"
  /\ \E id \in left :
       LET was == place[<<id, 1>>] IN
       /\ \A other \in left : id <= other
       /\ left' = left \ {id}
       /\ IF was.form = "blank" THEN UNCHANGED <<place, step, at, wb>>
          ELSE /\ step' = "importing" /\ at' = <<id, 1>>
               /\ wb' = Copy(2, IF was.form = "bytes" THEN was.data ELSE Garbage)
               /\ place' = [place EXCEPT ![<<id, 1>>] = Part]
  /\ UNCHANGED <<jobVars, resets>>

ImportWritten ==
  /\ step = "importing"
  /\ step' = "import"
  /\ place' = [place EXCEPT ![at] = wb]
  /\ UNCHANGED <<left, at, wb, jobVars, resets>>

BootDone ==
  /\ step = "import" /\ left = {}
  /\ step' = "idle"
  /\ UNCHANGED <<place, left, at, wb, jobVars, resets>>
-----------------------------------------------------------------------------
\* DF: f_df, then job_eep_read; no valid copy reads as zeros, and succeeds; an
\* id the table lacks leaves the cart RAM as it is.
Read(id) ==
  /\ step = "idle" /\ jobs < MaxJobs
  /\ jobs' = jobs + 1 /\ failed' = FALSE
  /\ answer' = IF id \in Ids THEN ReadOf(id) ELSE answer
  /\ UNCHANGED <<place, step, left, at, wb, resets, last>>

\* E0: f_e0, then job_eep_write up to its first byte.
Write(id, d) ==
  /\ step = "idle" /\ jobs < MaxJobs
  /\ jobs' = jobs + 1
  /\ IF id \in Ids
     THEN LET c == Target(id) IN
          /\ step' = "writing" /\ at' = <<id, c>>
          /\ wb' = Copy(NextSeq(id, c), d)
          /\ place' = [place EXCEPT ![<<id, c>>] = Part]
          /\ failed' = FALSE
     ELSE failed' = TRUE /\ UNCHANGED <<place, step, at, wb>>
  /\ UNCHANGED <<left, answer, resets, last>>

Written ==
  /\ step = "writing"
  /\ step' = "idle"
  /\ place' = [place EXCEPT ![at] = wb]
  /\ last' = [last EXCEPT ![at[1]] = wb.data]
  /\ UNCHANGED <<left, at, wb, answer, failed, jobs, resets>>

\* The core restarts; only the save RAM keeps its contents.
Reset ==
  /\ step \in ResetIn /\ resets < MaxResets
  /\ resets' = resets + 1
  /\ step' = "boot" /\ left' = {} /\ at' = <<>> /\ wb' = Blank
  /\ answer' = Zeros /\ failed' = FALSE
  /\ last' = IF step = "writing" THEN [last EXCEPT ![at[1]] = Cut] ELSE last
  /\ UNCHANGED <<place, jobs>>

Job ==
  \/ \E id \in Ids \cup {NoId} : Read(id) \/ \E d \in Data : Write(id, d)
  \/ Written

\* The game asks for nothing more.
Idle == step = "idle" /\ UNCHANGED vars

Next == BootLook \/ ImportNext \/ ImportWritten \/ BootDone \/ Job \/ Reset \/ Idle

Spec == Init /\ [][Next]_vars
-----------------------------------------------------------------------------
TypeOK ==
  /\ place \in [Places -> Holding]
  /\ step \in {"boot", "import", "importing", "idle", "writing"}
  /\ left \subseteq OldIds /\ at \in Places \cup {<<>>} /\ wb \in Holding
  /\ answer \in Payload /\ failed \in BOOLEAN
  /\ jobs \in 0..MaxJobs /\ resets \in 0..MaxResets
  /\ last \in [Ids -> Data \cup {Zeros, Cut}]

\* The game reads back its last whole write of an id, or its 0.2.x bytes, for
\* as long as no reset cut a write of that same id: neither other ids' writes,
\* cut or not, nor any boot, nor the sequence's top can hide it.
ReadBack ==
  [][\A id \in Ids : Read(id) /\ last[id] # Cut => answer' = last[id]]_vars

\* "Never again once a copy is valid": only a write job of its own id changes
\* a valid copy, whatever is booted or reset.
CopyKept ==
  [][\A x \in Places : Valid(x) /\ place'[x] # place[x]
       => \E d \in Data : Write(x[1], d)]_vars
=============================================================================
