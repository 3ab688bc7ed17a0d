------------------------------ MODULE SavesProofs ------------------------------
(***************************************************************************)
(* Saves for every set of ids, every payload, any number of jobs and of    *)
(* resets.  CopyKept holds wherever a reset comes.  ReadBack holds when no *)
(* reset comes inside the boot's import: Second keeps the second place of  *)
(* every id empty, Old says where 0.2.x bytes can still lie, Held what     *)
(* stands for the last whole write of each id.                             *)
(***************************************************************************)
EXTENDS Saves, TLAPS

First(id) == <<id, 1>>
Writing == {"importing", "writing"}
Importing == {"import", "importing"}

\* What is under way: the place written holds no copy, the one built is one;
\* what the import has still to look at holds none either.
Way ==
  /\ step \in Writing => /\ \E id \in Ids : at = First(id)
                         /\ place[at] = Part /\ wb.form = "copy"
  /\ step = "writing" => wb.data \in Data
  /\ step = "importing" => at[1] \notin left
  /\ step \in Importing => \A id \in left : ~Valid(First(id))

Second == \A id \in Ids : place[<<id, 2>>] = Blank

\* Bytes of 0.2.x are the last write of their id, and the import has still to
\* look at them.
OldBytes(id) ==
  /\ id \in OldIds /\ place[First(id)].data = last[id]
  /\ step = "boot" => ~Imported
  /\ step \in Importing => id \in left
  /\ step \in {"boot"} \cup Importing
Old == \A id \in Ids : place[First(id)].form = "bytes" => OldBytes(id)

\* What stands for the last whole write of an id.
Stands(id) ==
  \/ place[First(id)].form \in {"copy", "bytes"} /\ place[First(id)].data = last[id]
  \/ place[First(id)].form = "blank" /\ last[id] = Zeros
  \/ step = "importing" /\ at = First(id) /\ wb.data = last[id]
  \/ step = "writing" /\ at = First(id)
Held == \A id \in Ids : last[id] # Cut => Stands(id)

LEMMA FormsDiffer ==
  /\ Part.form = "part" /\ Blank.form = "blank" /\ Part.data = Garbage
  /\ Blank.data = Zeros
  /\ \A s, d : Copy(s, d).form = "copy" /\ Copy(s, d).data = d
               /\ Copy(s, d).seq = s
  /\ \A d : Bytes(d).form = "bytes" /\ Bytes(d).data = d
BY DEF Part, Blank, Copy, Bytes

LEMMA HoldingIs ==
  /\ Part \in Holding /\ Blank \in Holding
  /\ \A s \in 0..TopSeq, d \in Payload : Copy(s, d) \in Holding
  /\ \A d \in Payload : Bytes(d) \in Holding
BY SavesAssumption DEF Part, Blank, Copy, Bytes, Holding, Payload

LEMMA TypeInit == Init => TypeOK
<1> SUFFICES ASSUME Init PROVE TypeOK OBVIOUS
<1>1. PICK old \in [OldIds -> {Blank} \cup {Bytes(d) : d \in Data}] :
        /\ place = [x \in Places |->
                      IF x[2] = 1 /\ x[1] \in OldIds THEN old[x[1]] ELSE Blank]
        /\ last = [id \in Ids |-> IF id \in OldIds THEN old[id].data ELSE Zeros]
  BY DEF Init
<1>2. \A id \in OldIds : old[id] \in Holding /\ old[id].data \in Data \cup {Zeros}
  <2> SUFFICES ASSUME NEW id \in OldIds
               PROVE  old[id] \in Holding /\ old[id].data \in Data \cup {Zeros}
    OBVIOUS
  <2>1. old[id] = Blank \/ \E d \in Data : old[id] = Bytes(d) OBVIOUS
  <2>2. QED BY <2>1, HoldingIs, FormsDiffer DEF Payload
<1>3. place \in [Places -> Holding] BY <1>1, <1>2, HoldingIs
<1>4. last \in [Ids -> Data \cup {Zeros, Cut}] BY <1>1, <1>2
<1>5. 0 \in 0..MaxJobs /\ 0 \in 0..MaxResets BY SavesAssumption
<1>6. QED BY <1>3, <1>4, <1>5, HoldingIs DEF Init, TypeOK, Payload

LEMMA TargetIs ==
  ASSUME TypeOK, NEW id \in Ids
  PROVE  /\ Target(id) \in {1, 2}
         /\ NextSeq(id, Target(id)) \in 0..TopSeq
         /\ \A c \in {1, 2} : Seq(id, c) \in 0..TopSeq /\ Seq(id, c) \in Nat
<1>1. \A c \in {1, 2} : Seq(id, c) \in 0..TopSeq /\ Seq(id, c) \in Nat
  <2> SUFFICES ASSUME NEW c \in {1, 2} PROVE Seq(id, c) \in 0..TopSeq
    BY SavesAssumption
  <2>1. <<id, c>> \in Places BY DEF Places
  <2>2. place[<<id, c>>] \in Holding BY <2>1 DEF TypeOK
  <2>3. QED BY <2>2 DEF Seq, Holding
<1>2. Target(id) \in {1, 2}
  <2> DEFINE Least(c) ==
        \A o \in ValidOf(id) :
          Seq(id, c) < Seq(id, o) \/ (Seq(id, o) = Seq(id, c) /\ c <= o)
  <2>1. CASE ValidOf(id) = {} BY <2>1 DEF Target
  <2>2. CASE ValidOf(id) = {1}
    <3>1. Least(1) BY <2>2, <1>1
    <3>2. \E c \in ValidOf(id) : Least(c) BY <2>2, <3>1
    <3>3. QED BY <2>2, <3>2 DEF Target
  <2>3. CASE ValidOf(id) = {2}
    <3>1. Least(2) BY <2>3, <1>1
    <3>2. \E c \in ValidOf(id) : Least(c) BY <2>3, <3>1
    <3>3. QED BY <2>3, <3>2 DEF Target
  <2>4. CASE ValidOf(id) = {1, 2}
    <3>1. Least(1) \/ Least(2) BY <2>4, <1>1
    <3>2. \E c \in ValidOf(id) : Least(c) BY <2>4, <3>1
    <3>3. QED BY <2>4, <3>2 DEF Target
  <2>5. ValidOf(id) \in {{}, {1}, {2}, {1, 2}} BY DEF ValidOf
  <2>6. QED BY <2>1, <2>2, <2>3, <2>4, <2>5
<1>3. NextSeq(id, Target(id)) \in 0..TopSeq
  BY <1>1, <1>2, SavesAssumption DEF NextSeq
<1>4. QED BY <1>1, <1>2, <1>3

LEMMA ReadOfIs ==
  ASSUME TypeOK, NEW id \in Ids PROVE ReadOf(id) \in Payload
<1>1. CASE ValidOf(id) = {} BY <1>1 DEF ReadOf, Payload
<1>2. CASE ValidOf(id) # {}
  <2>1. Newest(id) \in {1, 2} => ReadOf(id) \in Payload
    <3> SUFFICES ASSUME Newest(id) \in {1, 2} PROVE ReadOf(id) \in Payload
      OBVIOUS
    <3>1. <<id, Newest(id)>> \in Places BY DEF Places
    <3>2. place[<<id, Newest(id)>>].data \in Payload
      BY <3>1 DEF TypeOK, Holding
    <3>3. QED BY <1>2, <3>2 DEF ReadOf
  <2> DEFINE Most(c) ==
        \A o \in ValidOf(id) :
          Seq(id, o) < Seq(id, c) \/ (Seq(id, o) = Seq(id, c) /\ c <= o)
  <2>2. ValidOf(id) \in {{1}, {2}, {1, 2}} BY <1>2 DEF ValidOf
  <2>3. \E c \in ValidOf(id) : Most(c)
    <3>1. CASE ValidOf(id) = {1}
      <4>1. Most(1) BY <3>1, TargetIs
      <4>2. QED BY <3>1, <4>1
    <3>2. CASE ValidOf(id) = {2}
      <4>1. Most(2) BY <3>2, TargetIs
      <4>2. QED BY <3>2, <4>1
    <3>3. CASE ValidOf(id) = {1, 2}
      <4>1. Most(1) \/ Most(2) BY <3>3, TargetIs
      <4>2. QED BY <3>3, <4>1
    <3>4. QED BY <2>2, <3>1, <3>2, <3>3
  <2>4. Newest(id) \in {1, 2} BY <2>2, <2>3 DEF Newest
  <2>5. QED BY <2>1, <2>4
<1>3. QED BY <1>1, <1>2

LEMMA TypeStep == ASSUME TypeOK, Way, [Next]_vars PROVE TypeOK'
<1> USE SavesAssumption
<1>1. CASE BootLook BY <1>1 DEF BootLook, TypeOK, jobVars
<1>2. CASE ImportNext
  <2>1. PICK id \in left :
          /\ left' = left \ {id}
          /\ IF place[<<id, 1>>].form = "blank"
             THEN UNCHANGED <<place, step, at, wb>>
             ELSE /\ step' = "importing" /\ at' = <<id, 1>>
                  /\ wb' = Copy(2, IF place[<<id, 1>>].form = "bytes"
                                   THEN place[<<id, 1>>].data ELSE Garbage)
                  /\ place' = [place EXCEPT ![<<id, 1>>] = Part]
    BY <1>2 DEF ImportNext
  <2>2. id \in Ids /\ <<id, 1>> \in Places BY DEF TypeOK, Places
  <2>3. place[<<id, 1>>].data \in Payload /\ Garbage \in Payload
    BY <2>2 DEF TypeOK, Holding, Payload
  <2>4. 2 \in 0..TopSeq OBVIOUS
  <2>5. wb' \in Holding BY <2>1, <2>3, <2>4, HoldingIs DEF TypeOK
  <2>6. place' \in [Places -> Holding] BY <2>1, HoldingIs DEF TypeOK
  <2>7. UNCHANGED <<jobVars, resets>> BY <1>2 DEF ImportNext
  <2>8. QED BY <1>2, <2>1, <2>2, <2>5, <2>6, <2>7 DEF ImportNext, TypeOK, jobVars
<1>3. CASE ImportWritten
  <2>1. place' \in [Places -> Holding] BY <1>3 DEF ImportWritten, TypeOK
  <2>2. QED BY <1>3, <2>1 DEF ImportWritten, TypeOK, jobVars
<1>4. CASE BootDone BY <1>4 DEF BootDone, TypeOK, jobVars
<1>5. ASSUME NEW id \in Ids \cup {NoId}, Read(id) PROVE TypeOK'
  <2>1. answer' \in Payload BY <1>5, ReadOfIs DEF Read, TypeOK
  <2>2. jobs' \in 0..MaxJobs BY <1>5 DEF Read, TypeOK
  <2>3. QED BY <1>5, <2>1, <2>2 DEF Read, TypeOK
<1>6. ASSUME NEW id \in Ids \cup {NoId}, NEW d \in Data, Write(id, d)
      PROVE  TypeOK'
  <2>1. jobs' \in 0..MaxJobs BY <1>6 DEF Write, TypeOK
  <2>2. UNCHANGED <<left, answer, resets, last>> BY <1>6 DEF Write
  <2>3. CASE id \in Ids
    <3>1. /\ step' = "writing" /\ at' = <<id, Target(id)>>
          /\ wb' = Copy(NextSeq(id, Target(id)), d) /\ failed' = FALSE
          /\ place' = [place EXCEPT ![<<id, Target(id)>>] = Part]
      BY <1>6, <2>3 DEF Write
    <3>2. <<id, Target(id)>> \in Places BY <2>3, TargetIs DEF Places
    <3>3. wb' \in Holding BY <2>3, <3>1, TargetIs, HoldingIs DEF Payload
    <3>4. place' \in [Places -> Holding] BY <3>1, HoldingIs DEF TypeOK
    <3>5. QED BY <2>1, <2>2, <3>1, <3>2, <3>3, <3>4 DEF TypeOK
  <2>4. CASE id \notin Ids BY <1>6, <2>1, <2>4 DEF Write, TypeOK
  <2>5. QED BY <2>3, <2>4
<1>7. CASE Written
  <2>1. place' \in [Places -> Holding] BY <1>7 DEF Written, TypeOK
  <2>2. last' \in [Ids -> Data \cup {Zeros, Cut}]
    BY <1>7 DEF Written, TypeOK, Way, Writing
  <2>3. QED BY <1>7, <2>1, <2>2 DEF Written, TypeOK
<1>8. CASE Reset
  <2>1. last' \in [Ids -> Data \cup {Zeros, Cut}]
    BY <1>8 DEF Reset, TypeOK
  <2>2. resets' \in 0..MaxResets BY <1>8 DEF Reset, TypeOK
  <2>3. Zeros \in Payload BY DEF Payload
  <2>4. QED BY <1>8, <2>1, <2>2, <2>3, HoldingIs DEF Reset, TypeOK
<1>9. CASE UNCHANGED vars BY <1>9 DEF vars, TypeOK
<1>10. QED
  BY <1>1, <1>2, <1>3, <1>4, <1>5, <1>6, <1>7, <1>8, <1>9
     DEF Next, Job, Idle
-----------------------------------------------------------------------------
\* The import's next step, for the id it takes.
Takes(id) ==
  /\ step = "import" /\ id \in left /\ left' = left \ {id}
  /\ \/ /\ place[First(id)].form = "blank" /\ UNCHANGED <<place, step, at, wb>>
     \/ /\ place[First(id)].form # "blank" /\ step' = "importing"
        /\ at' = First(id)
        /\ wb' = Copy(2, IF place[First(id)].form = "bytes"
                         THEN place[First(id)].data ELSE Garbage)
        /\ place' = [place EXCEPT ![First(id)] = Part]
  /\ UNCHANGED <<jobVars, resets>>
LEMMA TakesIs == ImportNext => \E id \in left : Takes(id)
BY DEF ImportNext, Takes, First

LEMMA FirstIs ==
  \A id, o : /\ First(id) = First(o) <=> id = o
             /\ First(id)[1] = id
             /\ First(id) # <<o, 2>>
             /\ id \in Ids => First(id) \in Places /\ <<id, 2>> \in Places
BY DEF First, Places

LEMMA WayInit == Init => Way
BY DEF Init, Way, Writing, Importing

\* With the second place empty every write takes the first.
LEMMA TargetFirst ==
  ASSUME Second, NEW id \in Ids
  PROVE  /\ Target(id) = 1
         /\ ReadOf(id) = IF Valid(First(id)) THEN place[First(id)].data ELSE Zeros
<1>1. ~Valid(<<id, 2>>) BY FormsDiffer DEF Second, Valid
<1>2. ValidOf(id) = IF Valid(First(id)) THEN {1} ELSE {}
  BY <1>1 DEF ValidOf, First
<1>3. Target(id) = 1
  <2>1. CASE ValidOf(id) = {} BY <2>1 DEF Target
  <2>2. CASE ValidOf(id) = {1}
    <3>1. \E c \in ValidOf(id) : \A o \in ValidOf(id) :
            Seq(id, c) < Seq(id, o) \/ (Seq(id, o) = Seq(id, c) /\ c <= o)
      BY <2>2
    <3>2. QED BY <2>2, <3>1 DEF Target
  <2>3. QED BY <1>2, <2>1, <2>2
<1>4. CASE Valid(First(id))
  <2>1. ValidOf(id) = {1} BY <1>2, <1>4
  <2>2. \E c \in ValidOf(id) : \A o \in ValidOf(id) :
          Seq(id, o) < Seq(id, c) \/ (Seq(id, o) = Seq(id, c) /\ c <= o)
    BY <2>1
  <2>3. Newest(id) = 1 BY <2>1, <2>2 DEF Newest
  <2>4. QED BY <1>3, <1>4, <2>1, <2>3 DEF ReadOf, First
<1>5. CASE ~Valid(First(id)) BY <1>2, <1>3, <1>5 DEF ReadOf
<1>6. QED BY <1>4, <1>5

LEMMA SecondInit == Init => Second
BY FirstIs DEF Init, Second, Places, First

LEMMA WayStep == ASSUME TypeOK, Second, Way, [Next]_vars PROVE Way'
<1> USE DEF Writing, Importing
<1>1. CASE BootLook
  <2>1. CASE Imported BY <1>1, <2>1 DEF BootLook, Way
  <2>2. CASE ~Imported
    <3>1. \A id \in OldIds : ~Valid(First(id))
      BY <2>2 DEF Imported, ValidOf, First
    <3>2. step' = "import" /\ left' = OldIds /\ place' = place
      BY <1>1, <2>2 DEF BootLook
    <3>3. QED BY <3>1, <3>2 DEF Way, Valid
  <2>3. QED BY <2>1, <2>2
<1>2. CASE ImportNext
  <2>1. PICK id \in left : Takes(id) BY <1>2, TakesIs
  <2>2. id \in Ids /\ left \subseteq Ids BY SavesAssumption DEF TypeOK
  <2>3. CASE step' = step BY <2>1, <2>3, FirstIs DEF Takes, Way, Valid
  <2>4. CASE step' = "importing"
    <3>1. /\ at' = First(id) /\ place' = [place EXCEPT ![First(id)] = Part]
          /\ wb'.form = "copy"
      BY <2>1, <2>4, FormsDiffer DEF Takes
    <3>2. place'[First(id)] = Part BY <2>2, <3>1, FirstIs DEF TypeOK
    <3>3. \A o \in left' : o \in Ids /\ o # id BY <2>1, <2>2 DEF Takes
    <3>4. \A o \in left' : place'[First(o)] = place[First(o)]
      BY <3>1, <3>3, FirstIs DEF TypeOK
    <3>5. \A o \in left' : ~Valid(First(o))
      BY <2>1 DEF Takes, Way
    <3>6. at'[1] \notin left' BY <3>1, <3>3, FirstIs
    <3>7. QED BY <2>2, <2>4, <3>1, <3>2, <3>4, <3>5, <3>6 DEF Way, Valid
  <2>5. QED BY <2>1, <2>3, <2>4 DEF Takes
<1>3. CASE ImportWritten
  <2>1. PICK id \in Ids : at = First(id) BY <1>3 DEF ImportWritten, Way
  <2>2. place' = [place EXCEPT ![First(id)] = wb] /\ left' = left
        /\ step' = "import"
    BY <1>3, <2>1 DEF ImportWritten
  <2>3. id \notin left BY <1>3, <2>1, FirstIs DEF ImportWritten, Way
  <2>4. left \subseteq Ids BY SavesAssumption DEF TypeOK
  <2>5. \A o \in left : place'[First(o)] = place[First(o)]
    BY <2>2, <2>3, <2>4, FirstIs DEF TypeOK
  <2>6. \A o \in left : ~Valid(First(o)) BY <1>3 DEF ImportWritten, Way
  <2>7. QED BY <2>2, <2>5, <2>6 DEF Way, Valid
<1>4. CASE BootDone BY <1>4 DEF BootDone, Way
<1>5. ASSUME NEW id \in Ids \cup {NoId}, Read(id) PROVE Way'
  BY <1>5 DEF Read, Way
<1>6. ASSUME NEW id \in Ids \cup {NoId}, NEW d \in Data, Write(id, d)
      PROVE  Way'
  <2>1. CASE id \in Ids
    <3>1. /\ step' = "writing" /\ at' = First(id) /\ wb'.form = "copy"
          /\ wb'.data = d
          /\ place' = [place EXCEPT ![First(id)] = Part]
      BY <1>6, <2>1, TargetFirst, FormsDiffer DEF Write, First
    <3>2. place'[First(id)] = Part BY <2>1, <3>1, FirstIs DEF TypeOK
    <3>3. QED BY <2>1, <3>1, <3>2 DEF Way
  <2>2. CASE id \notin Ids
    <3>1. step' = "idle" BY <1>6, <2>2 DEF Write
    <3>2. QED BY <3>1 DEF Way
  <2>3. QED BY <2>1, <2>2
<1>7. CASE Written BY <1>7 DEF Written, Way
<1>8. CASE Reset BY <1>8 DEF Reset, Way
<1>9. CASE UNCHANGED vars BY <1>9 DEF vars, Way, Valid
<1>10. QED
  BY <1>1, <1>2, <1>3, <1>4, <1>5, <1>6, <1>7, <1>8, <1>9
     DEF Next, Job, Idle

LEMMA SecondStep == ASSUME TypeOK, Second, Way, [Next]_vars PROVE Second'
<1> SUFFICES ASSUME NEW o \in Ids PROVE place'[<<o, 2>>] = Blank
  BY DEF Second
<1> DEFINE x == <<o, 2>>
<1>0. x \in Places /\ place[x] = Blank BY FirstIs DEF Second
<1>1. CASE UNCHANGED place BY <1>0, <1>1
<1>2. CASE ImportNext
  <2>1. PICK id \in left : Takes(id) BY <1>2, TakesIs
  <2>2. place' = place \/ place' = [place EXCEPT ![First(id)] = Part]
    BY <2>1 DEF Takes
  <2>3. QED BY <1>0, <2>2, FirstIs DEF TypeOK
<1>3. CASE ImportWritten \/ Written
  <2>1. PICK id \in Ids : at = First(id)
    BY <1>3 DEF ImportWritten, Written, Way, Writing
  <2>2. place' = [place EXCEPT ![First(id)] = wb]
    BY <1>3, <2>1 DEF ImportWritten, Written
  <2>3. QED BY <1>0, <2>2, FirstIs DEF TypeOK
<1>4. ASSUME NEW id \in Ids \cup {NoId}, NEW d \in Data, Write(id, d)
      PROVE  place'[x] = Blank
  <2>1. CASE id \in Ids
    <3>1. place' = [place EXCEPT ![First(id)] = Part]
      BY <1>4, <2>1, TargetFirst DEF Write, First
    <3>2. QED BY <1>0, <3>1, FirstIs DEF TypeOK
  <2>2. CASE id \notin Ids BY <1>0, <1>4, <2>2 DEF Write
  <2>3. QED BY <2>1, <2>2
<1>5. BootLook \/ BootDone \/ Reset \/ UNCHANGED vars => UNCHANGED place
  BY DEF BootLook, BootDone, Reset, vars
<1>6. ASSUME NEW id \in Ids \cup {NoId}, Read(id) PROVE UNCHANGED place
  BY <1>6 DEF Read
<1>7. QED
  BY <1>1, <1>2, <1>3, <1>4, <1>5, <1>6 DEF Next, Job, Idle
-----------------------------------------------------------------------------
\* What a step does to the first place of an id.
LEMMA PlaceStep ==
  ASSUME TypeOK, Second, Way, [Next]_vars, NEW o \in Ids,
         place'[First(o)] # place[First(o)]
  PROVE  \/ ImportNext /\ Takes(o) /\ place'[First(o)] = Part
            /\ ~Valid(First(o))
         \/ /\ ImportWritten \/ Written
            /\ at = First(o) /\ place'[First(o)] = wb /\ place[First(o)] = Part
         \/ \E d \in Data : Write(o, d) /\ place'[First(o)] = Part
<1> DEFINE x == First(o)
<1>0. x \in Places BY FirstIs
<1>1. CASE ImportNext
  <2>1. PICK id \in left : Takes(id) BY <1>1, TakesIs
  <2>2. place' = [place EXCEPT ![First(id)] = Part] BY <2>1 DEF Takes
  <2>3. id = o BY <1>0, <2>2, FirstIs DEF TypeOK
  <2>4. place'[x] = Part BY <1>0, <2>2, <2>3 DEF TypeOK
  <2>5. ~Valid(x) BY <2>1, <2>3 DEF Way, Importing, Takes
  <2>6. QED BY <1>1, <2>1, <2>3, <2>4, <2>5
<1>2. CASE ImportWritten \/ Written
  <2>1. PICK id \in Ids : at = First(id) /\ place[at] = Part
    BY <1>2 DEF ImportWritten, Written, Way, Writing
  <2>2. place' = [place EXCEPT ![First(id)] = wb]
    BY <1>2, <2>1 DEF ImportWritten, Written
  <2>3. id = o BY <1>0, <2>2, FirstIs DEF TypeOK
  <2>4. place'[x] = wb BY <1>0, <2>2, <2>3 DEF TypeOK
  <2>5. QED BY <1>2, <2>1, <2>3, <2>4
<1>3. ASSUME NEW id \in Ids \cup {NoId}, NEW d \in Data, Write(id, d)
      PROVE  \E e \in Data : Write(o, e) /\ place'[First(o)] = Part
  <2>1. id \in Ids BY <1>3 DEF Write
  <2>2. place' = [place EXCEPT ![First(id)] = Part]
    BY <1>3, <2>1, TargetFirst DEF Write, First
  <2>3. id = o BY <1>0, <2>2, FirstIs DEF TypeOK
  <2>4. place'[x] = Part BY <1>0, <2>2, <2>3 DEF TypeOK
  <2>5. QED BY <1>3, <2>3, <2>4
<1>4. BootLook \/ BootDone \/ Reset \/ UNCHANGED vars => UNCHANGED place
  BY DEF BootLook, BootDone, Reset, vars
<1>5. ASSUME NEW id \in Ids \cup {NoId}, Read(id) PROVE UNCHANGED place
  BY <1>5 DEF Read
<1>6. QED BY <1>1, <1>2, <1>3, <1>4, <1>5 DEF Next, Job, Idle

LEMMA OldInit == Init => Old
<1> SUFFICES ASSUME Init, NEW id \in Ids, place[First(id)].form = "bytes"
             PROVE  OldBytes(id)
  BY DEF Old
<1>1. PICK old \in [OldIds -> {Blank} \cup {Bytes(d) : d \in Data}] :
        /\ place = [x \in Places |->
                      IF x[2] = 1 /\ x[1] \in OldIds THEN old[x[1]] ELSE Blank]
        /\ last = [i \in Ids |-> IF i \in OldIds THEN old[i].data ELSE Zeros]
  BY DEF Init
<1>2. id \in OldIds /\ place[First(id)].data = last[id]
  BY <1>1, FirstIs, FormsDiffer DEF First
<1>3. ASSUME NEW o \in OldIds PROVE ValidOf(o) = {}
  <2>1. \A c \in {1, 2} : <<o, c>> \in Places /\ place[<<o, c>>].form # "copy"
    <3>1. ASSUME NEW c \in {1, 2}
          PROVE  <<o, c>> \in Places /\ place[<<o, c>>].form # "copy"
      <4>1. <<o, c>> \in Places BY SavesAssumption DEF Places
      <4>2. place[<<o, c>>] = IF c = 1 THEN old[o] ELSE Blank BY <1>1, <4>1
      <4>3. old[o] = Blank \/ \E d \in Data : old[o] = Bytes(d) OBVIOUS
      <4>4. QED BY <4>1, <4>2, <4>3, FormsDiffer
    <3>2. QED BY <3>1
  <2>2. QED BY <2>1 DEF ValidOf, Valid
<1>4. QED BY <1>2, <1>3 DEF Init, OldBytes, Imported, Importing

LEMMA HeldInit == Init => Held
<1> SUFFICES ASSUME Init, NEW id \in Ids PROVE Stands(id) BY DEF Held
<1>1. PICK old \in [OldIds -> {Blank} \cup {Bytes(d) : d \in Data}] :
        /\ place = [x \in Places |->
                      IF x[2] = 1 /\ x[1] \in OldIds THEN old[x[1]] ELSE Blank]
        /\ last = [i \in Ids |-> IF i \in OldIds THEN old[i].data ELSE Zeros]
  BY DEF Init
<1>2. CASE id \in OldIds
  <2>1. place[First(id)] = old[id] /\ last[id] = old[id].data
    BY <1>1, <1>2, FirstIs DEF First
  <2>2. old[id] = Blank \/ \E d \in Data : old[id] = Bytes(d) BY <1>2
  <2>3. QED BY <2>1, <2>2, FormsDiffer DEF Stands
<1>3. CASE id \notin OldIds BY <1>1, <1>3, FirstIs, FormsDiffer DEF Stands, First
<1>4. QED BY <1>2, <1>3

\* A reset that keeps clear of the import.
NoCutImport == ResetIn \cap Importing = {}

LEMMA OldStep ==
  ASSUME NoCutImport, TypeOK, Second, Way, Old, [Next]_vars PROVE Old'
<1> SUFFICES ASSUME NEW o \in Ids, place'[First(o)].form = "bytes"
             PROVE  OldBytes(o)'
  BY DEF Old
<1>1. place'[First(o)] = place[First(o)]
  <2>1. SUFFICES ASSUME place'[First(o)] # place[First(o)] PROVE FALSE OBVIOUS
  <2>2. place'[First(o)] \in {Part, wb} /\ (place'[First(o)] = wb => wb.form = "copy")
    BY <2>1, PlaceStep, FormsDiffer
       DEF Way, Writing, ImportWritten, Written
  <2>3. QED BY <2>2, FormsDiffer
<1>2. OldBytes(o) BY <1>1 DEF Old
<1>3. o \in OldIds /\ place[First(o)].data = last[o] BY <1>2 DEF OldBytes
<1>4. step \in {"boot"} \cup Importing BY <1>2 DEF OldBytes
<1>5. CASE BootLook
  <2>1. step' = "import" /\ left' = OldIds /\ UNCHANGED last
    BY <1>2, <1>5 DEF BootLook, OldBytes, jobVars
  <2>2. QED BY <1>1, <1>3, <2>1 DEF OldBytes, Importing
<1>6. CASE ImportNext
  <2>1. PICK id \in left : Takes(id) BY <1>6, TakesIs
  <2>2. id \in Ids BY SavesAssumption DEF TypeOK
  <2>3. id # o
    <3>1. SUFFICES ASSUME id = o PROVE FALSE OBVIOUS
    <3>2. place'[First(o)] = Part
      BY <1>1, <2>1, <3>1, FirstIs DEF Takes, TypeOK, Old
    <3>3. QED BY <3>2, FormsDiffer
  <2>4. o \in left' /\ step' \in Importing /\ UNCHANGED last
    BY <1>2, <2>1, <2>3 DEF Takes, OldBytes, Importing, jobVars
  <2>5. QED BY <1>1, <1>3, <2>4 DEF OldBytes, Importing
<1>7. CASE ImportWritten
  BY <1>1, <1>2, <1>7 DEF ImportWritten, OldBytes, Importing, jobVars
<1>8. CASE BootDone
  <2>1. o \in left BY <1>2, <1>8 DEF BootDone, OldBytes, Importing
  <2>2. QED BY <1>8, <2>1 DEF BootDone
<1>9. CASE Reset
  <2>1. step = "boot" BY <1>4, <1>9 DEF Reset, NoCutImport
  <2>2. UNCHANGED <<place, last>> /\ step' = "boot" BY <1>9, <2>1 DEF Reset
  <2>3. Imported' = Imported BY <2>2 DEF Imported, ValidOf, Valid
  <2>4. QED BY <1>2, <2>1, <2>2, <2>3 DEF OldBytes, Importing
<1>10. CASE UNCHANGED vars
  BY <1>2, <1>10 DEF vars, OldBytes, Imported, ValidOf, Valid
<1>11. ASSUME NEW id \in Ids \cup {NoId}
       PROVE  ~Read(id) /\ \A d \in Data : ~Write(id, d)
  BY <1>4 DEF Read, Write, Importing
<1>12. ~Written BY <1>4 DEF Written, Importing
<1>13. QED
  BY <1>5, <1>6, <1>7, <1>8, <1>9, <1>10, <1>11, <1>12 DEF Next, Job, Idle

LEMMA HeldStep ==
  ASSUME NoCutImport, TypeOK, Second, Way, Old, Held, [Next]_vars PROVE Held'
<1> SUFFICES ASSUME NEW o \in Ids, last'[o] # Cut PROVE Stands(o)'
  BY DEF Held
<1> DEFINE x == First(o)
<1>0. x \in Places BY FirstIs
<1>1. CASE ImportNext
  <2>1. PICK id \in left : Takes(id) BY <1>1, TakesIs
  <2>2. last' = last /\ step = "import" BY <2>1 DEF Takes, jobVars
  <2>3. Stands(o) BY <2>2 DEF Held
  <2>4. CASE place'[x] = place[x] BY <2>2, <2>3, <2>4 DEF Stands
  <2>5. CASE place'[x] # place[x]
    <3>1. Takes(o) /\ place'[x] = Part /\ ~Valid(x)
      BY <1>1, <2>2, <2>5, PlaceStep DEF ImportWritten, Written, Write
    <3>2. place[x].form \in {"bytes", "blank"}
      BY <2>2, <2>3, <3>1 DEF Stands, Valid
    <3>3. place[x].form # "blank" BY <2>5, <3>1 DEF Takes
    <3>4. wb'.data = last[o] /\ step' = "importing" /\ at' = x
      BY <2>2, <2>3, <3>1, <3>2, <3>3, FormsDiffer DEF Takes, Stands
    <3>5. QED BY <2>2, <3>4 DEF Stands
  <2>6. QED BY <2>4, <2>5
<1>2. CASE ImportWritten
  <2>1. last' = last /\ Stands(o) BY <1>2 DEF ImportWritten, jobVars, Held
  <2>2. CASE at = x
    <3>1. place'[x] = wb /\ wb.form = "copy"
      BY <1>0, <1>2, <2>2 DEF ImportWritten, TypeOK, Way, Writing
    <3>2. place[x].form = "part"
      BY <1>2, <2>2, FormsDiffer DEF ImportWritten, Way, Writing
    <3>3. wb.data = last[o] BY <1>2, <2>1, <3>2 DEF Stands, ImportWritten
    <3>4. QED BY <2>1, <3>1, <3>3 DEF Stands
  <2>3. CASE at # x
    <3>1. place'[x] = place[x]
      BY <1>2, <2>3, PlaceStep DEF ImportWritten, Takes, Write
    <3>2. QED BY <1>2, <2>1, <2>3, <3>1 DEF Stands
  <2>4. QED BY <2>2, <2>3
<1>3. CASE Written
  <2>1. PICK id \in Ids : at = First(id) BY <1>3 DEF Written, Way, Writing
  <2>2. last' = [last EXCEPT ![id] = wb.data]
    BY <1>3, <2>1, FirstIs DEF Written
  <2>3. CASE id = o
    <3>1. place'[x] = wb /\ wb.form = "copy" /\ last'[o] = wb.data
      BY <1>0, <1>3, <2>1, <2>2, <2>3 DEF Written, TypeOK, Way, Writing
    <3>2. QED BY <3>1 DEF Stands
  <2>4. CASE id # o
    <3>1. last'[o] = last[o] BY <2>2, <2>4 DEF TypeOK
    <3>2. at # x BY <2>1, <2>4, FirstIs
    <3>3. place'[x] = place[x]
      BY <1>3, <3>2, PlaceStep DEF Written, ImportNext, Write
    <3>4. Stands(o) BY <3>1 DEF Held
    <3>5. QED BY <1>3, <3>1, <3>2, <3>3, <3>4 DEF Stands, Written
  <2>5. QED BY <2>3, <2>4
<1>4. ASSUME NEW id \in Ids \cup {NoId}, NEW d \in Data, Write(id, d)
      PROVE  Stands(o)'
  <2>1. last' = last /\ step = "idle" /\ Stands(o)
    BY <1>4 DEF Write, Held
  <2>2. CASE id = o
    <3>1. step' = "writing" /\ at' = x
      BY <1>4, <2>2, TargetFirst DEF Write, First
    <3>2. QED BY <3>1 DEF Stands
  <2>3. CASE id # o
    <3>1. place'[x] = place[x]
      <4>1. CASE id \in Ids
        <5>1. place' = [place EXCEPT ![First(id)] = Part]
          BY <1>4, <4>1, TargetFirst DEF Write, First
        <5>2. QED BY <1>0, <2>3, <5>1, FirstIs DEF TypeOK
      <4>2. CASE id \notin Ids BY <1>4, <4>2 DEF Write
      <4>3. QED BY <4>1, <4>2
    <3>2. QED BY <2>1, <3>1 DEF Stands
  <2>4. QED BY <2>2, <2>3
<1>5. CASE Reset
  <2>1. place' = place BY <1>5 DEF Reset
  <2>2. CASE step = "writing"
    <3>1. PICK id \in Ids : at = First(id) BY <2>2 DEF Way, Writing
    <3>2. last' = [last EXCEPT ![id] = Cut]
      BY <1>5, <2>2, <3>1, FirstIs DEF Reset
    <3>3. id # o BY <3>2 DEF TypeOK
    <3>4. last'[o] = last[o] /\ at # x BY <3>1, <3>2, <3>3, FirstIs DEF TypeOK
    <3>5. Stands(o) BY <3>4 DEF Held
    <3>6. QED BY <2>1, <2>2, <3>4, <3>5 DEF Stands
  <2>3. CASE step # "writing"
    <3>1. last' = last /\ step # "importing"
      BY <1>5, <2>3 DEF Reset, NoCutImport, Importing
    <3>2. Stands(o) BY <3>1 DEF Held
    <3>3. QED BY <2>1, <2>3, <3>1, <3>2 DEF Stands
  <2>4. QED BY <2>2, <2>3
<1>6. CASE BootLook \/ BootDone
  BY <1>6 DEF BootLook, BootDone, jobVars, Held, Stands
<1>7. ASSUME NEW id \in Ids \cup {NoId}, Read(id) PROVE Stands(o)'
  BY <1>7 DEF Read, Held, Stands
<1>8. CASE UNCHANGED vars BY <1>8 DEF vars, Held, Stands
<1>9. QED
  BY <1>1, <1>2, <1>3, <1>4, <1>5, <1>6, <1>7, <1>8 DEF Next, Job, Idle
-----------------------------------------------------------------------------
Inv == TypeOK /\ Second /\ Way

LEMMA InvHolds == Spec => []Inv
<1>1. Init => Inv BY TypeInit, SecondInit, WayInit DEF Inv
<1>2. Inv /\ [Next]_vars => Inv'
  BY TypeStep, SecondStep, WayStep DEF Inv
<1>3. QED BY <1>1, <1>2, PTL DEF Spec

\* The state is of its type: a write that ends was a payload of the game's.
THEOREM TypeCorrect == Spec => []TypeOK
<1>1. Inv => TypeOK BY DEF Inv
<1>2. QED BY <1>1, InvHolds, PTL

\* "Never again once a copy is valid" (bodies_s1.c's import): only a write job
\* of its own id changes a valid copy, wherever the resets come.
THEOREM CopyIsKept == Spec => CopyKept
<1> DEFINE Kept ==
      \A x \in Places : Valid(x) /\ place'[x] # place[x]
        => \E d \in Data : Write(x[1], d)
<1>1. Inv /\ [Next]_vars => [Kept]_vars
  <2> SUFFICES ASSUME Inv, [Next]_vars, NEW x \in Places, Valid(x),
                      place'[x] # place[x]
               PROVE  \E d \in Data : Write(x[1], d)
    OBVIOUS
  <2>1. PICK o \in Ids, c \in {1, 2} : x = <<o, c>> BY DEF Places
  <2>2. CASE c = 2
    BY <2>1, <2>2, FormsDiffer DEF Inv, Second, Valid
  <2>3. CASE c = 1
    <3>1. x = First(o) /\ x[1] = o BY <2>1, <2>3 DEF First
    <3>2. place[x] # Part BY FormsDiffer DEF Valid
    <3>3. QED BY <3>1, <3>2, PlaceStep DEF Inv
  <2>4. QED BY <2>1, <2>2, <2>3
<1>2. QED BY <1>1, InvHolds, PTL DEF Spec, CopyKept

\* The game reads back its last whole write of an id, or its 0.2.x bytes, when
\* no reset comes inside the import (job_eep_read, job_eep_write, eep_import).
THEOREM ReadsBack == ASSUME NoCutImport PROVE Spec => ReadBack
<1> DEFINE Back == \A id \in Ids : Read(id) /\ last[id] # Cut => answer' = last[id]
<1>1. Inv /\ Old /\ Held /\ [Next]_vars => [Back]_vars
  <2> SUFFICES ASSUME Inv, Old, Held, NEW id \in Ids, Read(id), last[id] # Cut
               PROVE  answer' = last[id]
    OBVIOUS
  <2>1. answer' = ReadOf(id) /\ step = "idle" BY DEF Read
  <2>2. Stands(id) BY DEF Held
  <2>3. place[First(id)].form # "bytes" BY <2>1 DEF Old, OldBytes, Importing
  <2>4. \/ Valid(First(id)) /\ place[First(id)].data = last[id]
        \/ ~Valid(First(id)) /\ last[id] = Zeros
    BY <2>1, <2>2, <2>3 DEF Stands, Valid
  <2>5. QED BY <2>1, <2>4, TargetFirst DEF Inv
<1>2. Init => Old /\ Held BY OldInit, HeldInit
<1>3. Inv /\ Old /\ Held /\ [Next]_vars => Old' /\ Held'
  BY OldStep, HeldStep DEF Inv
<1>4. QED BY <1>1, <1>2, <1>3, InvHolds, PTL DEF Spec, ReadBack
=============================================================================
