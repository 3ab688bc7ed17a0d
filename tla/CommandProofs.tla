--------------------------- MODULE CommandProofs ----------------------------
(***************************************************************************)
(* The dispatcher, and the boot that comes before it, each by itself.      *)
(* Dispatcher, for every set of commands, every queue size and every set   *)
(* of bits written below. What the 68000 reads in the word is not          *)
(* inductive: Mail says where a post can be, Word what the word holds of   *)
(* every post that was decided and what a store below can bring back, Work *)
(* what it holds of the jobs, Room why C6, which no gate counts, finds a   *)
(* slot.                                                                   *)
(* Boot, for every set of streams, every bank size and any number of       *)
(* power-ons, resets and lost stores. None of its invariants is inductive  *)
(* alone: Where adds what is known at each place of the boot, Sound what   *)
(* each step has put in CRAM, Cut the state of the header's magic while an *)
(* unpack is under way, Card what the flush has read and when the file on  *)
(* the card is this ROM's.                                                 *)
(***************************************************************************)
EXTENDS Dispatcher, Boot, TLAPS

In(q, m) == \E i \in DOMAIN q : q[i] = m
Once(q) == \A i, j \in DOMAIN q : q[i] = q[j] => i = j
JobTypes == {"setup", "module", "unpack", "read", "write", "scale", "rescale",
             "restore"}
JobKinds == [type : JobTypes, report : BOOLEAN]
BelowL1 == {3, 4, 5, 8, 13, 14}
Rmws == [on : BOOLEAN, bit : {0} \cup BelowL1, read : SUBSET (0..15)]

Types ==
  /\ box = [m \in Mailboxes |-> box[m]]
  /\ \A m \in Mailboxes : box[m] \in Posted(m) \cup {NoPost}
  /\ arrived \in Seq(Mailboxes) /\ waiting \in Seq(Mailboxes)
  /\ l1 \in [at : {"idle", "finish", "idle15", "halted"}, mbx : Mailboxes]
  /\ fe6 \subseteq 0..15
  /\ rmw \in Rmws
  /\ ready \subseteq Parts /\ jobs \in Seq(JobKinds)
  /\ step \in {"idle", "fail", "end"} /\ (step # "idle" => jobs # <<>>)
  /\ items \in 0..ItemRoom /\ eng \in {"idle", "body", "take"}
  /\ eng = "body" => items > 0
  /\ session \in {"none", "open", "pending"}
  /\ dog \in {"off", "armed", "running"}
  /\ verdict \in [Mailboxes -> {"none", "taken", "refused"}]
  /\ alone \in BOOLEAN /\ failed \in BOOLEAN

\* A post is in one place, and its mailbox is not 0 there.
Mail ==
  /\ Once(arrived) /\ Once(waiting)
  /\ \A m \in Mailboxes : ~(In(arrived, m) /\ In(waiting, m))
  /\ \A m \in Mailboxes : In(arrived, m) \/ In(waiting, m) => box[m] # NoPost
  /\ \A m \in Mailboxes : In(waiting, m) => box[m].cmd \in AudioPosts
  /\ l1.at \in {"finish", "halted"} =>
       /\ box[l1.mbx] # NoPost
       /\ ~In(arrived, l1.mbx) /\ ~In(waiting, l1.mbx)

\* The refusal bits, and what an interrupted st_set holds.
Decided(m) ==
  verdict[m] # "none" /\ ~In(waiting, m) /\ ~(l1.at = "halted" /\ l1.mbx = m)
Word ==
  /\ \A m \in Mailboxes :
       Decided(m) => (Refusal(m) \in fe6 <=> verdict[m] = "refused")
  /\ \A m \in Mailboxes : In(waiting, m) => Refusal(m) \notin fe6
  /\ rmw # NoRmw => /\ l1.at = "idle" /\ eng # "take"
                    /\ rmw.read = fe6 /\ rmw.bit \in BelowL1

\* Bits 14 and 8.
Storing(bit) == rmw # NoRmw /\ rmw.bit = bit
Work ==
  /\ jobs # <<>> => 14 \in fe6
  /\ step = "fail" /\ alone => failed
  /\ Storing(14) => (rmw.on <=> jobs # <<>>)
  /\ Storing(8) => rmw.on /\ step = "end" /\ (alone => failed)
  /\ alone => step = "fail" \/ Storing(8) \/ (8 \in fe6 <=> failed)

\* C6 is posted to an empty queue; at most one post is served before it, and
\* that one is mailbox A's, which queues one job at most.
Room ==
  /\ Len(jobs) <= JobRoom
  /\ box["B"].cmd = "C6" /\ In(arrived, "B") =>
       /\ Len(jobs) <= 1
       /\ Len(jobs) = 1 => ~In(waiting, "A") /\ Head(arrived) # "A"

Inv == Types /\ Mail /\ Word /\ Work /\ Room
-----------------------------------------------------------------------------
\* The queues of mailboxes.
LEMMA TailIs ==
  ASSUME NEW S, NEW q \in Seq(S), q # <<>>, Once(q)
  PROVE  /\ Tail(q) \in Seq(S) /\ Head(q) \in S /\ Once(Tail(q))
         /\ ~In(Tail(q), Head(q)) /\ In(q, Head(q))
         /\ \A m : In(Tail(q), m) => In(q, m)
         /\ \A m : In(q, m) /\ m # Head(q) => In(Tail(q), m)
<1>1. /\ Tail(q) \in Seq(S) /\ Len(Tail(q)) = Len(q) - 1 /\ Len(q) \in Nat \ {0}
      /\ \A i \in 1..Len(Tail(q)) : Tail(q)[i] = q[i + 1]
      /\ DOMAIN q = 1..Len(q) /\ DOMAIN Tail(q) = 1..Len(Tail(q))
      /\ Head(q) = q[1] /\ Head(q) \in S
  OBVIOUS
<1>2. Once(Tail(q))
  <2> SUFFICES ASSUME NEW i \in 1..Len(Tail(q)), NEW j \in 1..Len(Tail(q)),
                      Tail(q)[i] = Tail(q)[j]
               PROVE  i = j
    BY <1>1 DEF Once
  <2>1. i + 1 \in DOMAIN q /\ j + 1 \in DOMAIN q /\ q[i + 1] = q[j + 1]
    BY <1>1
  <2>2. i + 1 = j + 1 BY <2>1 DEF Once
  <2>3. QED BY <2>2
<1>3. ~In(Tail(q), Head(q))
  <2> SUFFICES ASSUME NEW i \in 1..Len(Tail(q)), Tail(q)[i] = q[1] PROVE FALSE
    BY <1>1 DEF In
  <2>1. i + 1 \in DOMAIN q /\ 1 \in DOMAIN q /\ q[i + 1] = q[1] BY <1>1
  <2>2. i + 1 = 1 BY <2>1 DEF Once
  <2>3. QED BY <2>2
<1>4. In(q, Head(q)) BY <1>1 DEF In
<1>5. ASSUME NEW m, In(Tail(q), m) PROVE In(q, m)
  <2>1. PICK i \in 1..Len(Tail(q)) : Tail(q)[i] = m BY <1>1, <1>5 DEF In
  <2>2. i + 1 \in DOMAIN q /\ q[i + 1] = m BY <1>1, <2>1
  <2>3. QED BY <2>2 DEF In
<1>6. ASSUME NEW m, In(q, m), m # Head(q) PROVE In(Tail(q), m)
  <2>1. PICK i \in 1..Len(q) : q[i] = m BY <1>1, <1>6 DEF In
  <2>2. i - 1 \in DOMAIN Tail(q) /\ Tail(q)[i - 1] = m BY <1>1, <1>6, <2>1
  <2>3. QED BY <2>2 DEF In
<1>7. QED BY <1>1, <1>2, <1>3, <1>4, <1>5, <1>6

LEMMA AppendIs ==
  ASSUME NEW S, NEW q \in Seq(S), NEW x \in S, Once(q), ~In(q, x)
  PROVE  /\ Append(q, x) \in Seq(S) /\ Once(Append(q, x))
         /\ \A m : In(Append(q, x), m) <=> In(q, m) \/ m = x
         /\ Append(q, x) # <<>>
         /\ q # <<>> => Head(Append(q, x)) = Head(q)
         /\ q = <<>> => Head(Append(q, x)) = x
<1> DEFINE r == Append(q, x)
<1>1. /\ r \in Seq(S) /\ Len(r) = Len(q) + 1 /\ Len(q) \in Nat
      /\ DOMAIN q = 1..Len(q) /\ DOMAIN r = 1..(Len(q) + 1)
      /\ \A i \in 1..Len(q) : r[i] = q[i]
      /\ r[Len(q) + 1] = x
  OBVIOUS
<1> HIDE DEF r
<1>2. Once(r)
  <2> SUFFICES ASSUME NEW i \in 1..(Len(q) + 1), NEW j \in 1..(Len(q) + 1),
                      r[i] = r[j]
               PROVE  i = j
    BY <1>1 DEF Once
  <2>1. CASE i \in 1..Len(q) /\ j \in 1..Len(q) BY <1>1, <2>1 DEF Once
  <2>2. CASE i \in 1..Len(q) /\ j = Len(q) + 1 BY <1>1, <2>2 DEF In
  <2>3. CASE j \in 1..Len(q) /\ i = Len(q) + 1 BY <1>1, <2>3 DEF In
  <2>4. QED BY <1>1, <2>1, <2>2, <2>3
<1>3. ASSUME NEW m PROVE In(r, m) <=> In(q, m) \/ m = x
  BY <1>1 DEF In
<1>4. r # <<>> BY <1>1
<1>5. (q # <<>> => Head(r) = Head(q)) /\ (q = <<>> => Head(r) = x)
  BY <1>1, <1>4
<1>6. QED BY <1>1, <1>2, <1>3, <1>4, <1>5 DEF r

\* Two mailboxes make a queue of two at most.
LEMMA TwoAtMost ==
  ASSUME NEW q \in Seq(Mailboxes), Once(q) PROVE Len(q) <= 2
<1> SUFFICES ASSUME Len(q) > 2 PROVE FALSE OBVIOUS
<1>1. 1 \in DOMAIN q /\ 2 \in DOMAIN q /\ 3 \in DOMAIN q OBVIOUS
<1>2. q[1] \in Mailboxes /\ q[2] \in Mailboxes /\ q[3] \in Mailboxes BY <1>1
<1>3. q[1] # q[2] /\ q[2] # q[3] /\ q[1] # q[3] BY <1>1 DEF Once
<1>4. QED BY <1>2, <1>3 DEF Mailboxes

\* What an accepted post queues: valid jobs, and room for them unless it is C6.
LEMMA QueuedIs ==
  ASSUME NEW p
  PROVE  QueuedBy(p) \in Seq(JobKinds)
         /\ (p.cmd = "C6" => Len(QueuedBy(p)) <= 1)
<1>1. \A t \in JobTypes, r \in BOOLEAN : Job(t, r) \in JobKinds
  BY DEF Job, JobKinds
<1>2. <<>> \in Seq(JobKinds) OBVIOUS
<1>3. \A j \in JobKinds : <<j>> \in Seq(JobKinds) OBVIOUS
<1>4. \A j, k \in JobKinds : <<j, k>> \in Seq(JobKinds) OBVIOUS
<1>5. QueuedBy(p) \in Seq(JobKinds)
  BY <1>1, <1>2, <1>3, <1>4 DEF QueuedBy, JobTypes
<1>6. p.cmd = "C6" => Len(QueuedBy(p)) <= 1
  BY DEF QueuedBy
<1>7. QED BY <1>5, <1>6

LEMMA QueuedFits ==
  ASSUME Types, NEW m \in Mailboxes, NEW p, ~Refused(m, p), p.cmd # "C6",
         Len(jobs) <= JobRoom
  PROVE  Len(jobs) + Len(QueuedBy(p)) <= JobRoom
<1>1. CASE p.cmd \in {"8C", "DA", "DF", "E0", "F5", "B6"}
  <2>1. Len(jobs) + 1 <= JobRoom \/ QueuedBy(p) = <<>>
    BY <1>1, DispatcherAssumption
       DEF Types, Refused, TableB, AudioGates, CopyGates, SaveGates, ScaleGates,
           Full, AudioPosts, EnginePosts, QueuedBy
  <2>2. Len(QueuedBy(p)) <= 1 BY <1>1 DEF QueuedBy
  <2>3. Len(jobs) \in Nat BY DEF Types
  <2>4. Len(QueuedBy(p)) \in Nat BY QueuedIs
  <2>5. Len(<<>>) = 0 OBVIOUS
  <2>6. QED BY <2>1, <2>2, <2>3, <2>4, <2>5, DispatcherAssumption
<1>2. CASE p.cmd = "F4"
  <2>1. ~Full(2)
    BY <1>2 DEF Refused, TableB, ScaleGates, AudioPosts, EnginePosts
  <2>2. Len(QueuedBy(p)) = 2 BY <1>2 DEF QueuedBy
  <2>3. Len(jobs) \in Nat BY DEF Types
  <2>4. QED BY <2>1, <2>2, <2>3, DispatcherAssumption DEF Full
<1>3. CASE p.cmd \notin {"8C", "DA", "DF", "E0", "F5", "B6", "F4"}
  <2>1. QueuedBy(p) = <<>> BY <1>3 DEF QueuedBy
  <2>2. Len(jobs) \in Nat BY DEF Types
  <2>3. QED BY <2>1, <2>2, DispatcherAssumption
<1>4. QED BY <1>1, <1>2, <1>3

LEMMA QueuedByA ==
  ASSUME NEW p, ~Refused("A", p) PROVE Len(QueuedBy(p)) <= 1
<1>1. p.cmd # "F4" BY DEF Refused, OnlyB
<1>2. QED BY <1>1 DEF QueuedBy

\* What a post does to the word: its own refusal bit, and the job bits.
LEMMA AfterIs ==
  ASSUME NEW m \in Mailboxes, NEW p, NEW w \in SUBSET (0..15)
  PROVE  /\ After(w, m, p) \in SUBSET (0..15)
         /\ \A o \in Mailboxes : o # m =>
              (Refusal(o) \in After(w, m, p) <=> Refusal(o) \in w)
         /\ Refusal(m) \in After(w, m, p) <=> Refusal(m) \in w \/ Refused(m, p)
         /\ 14 \in w => 14 \in After(w, m, p)
         /\ ~Refused(m, p) /\ QueuedBy(p) # <<>> =>
              14 \in After(w, m, p) /\ 8 \notin After(w, m, p)
         /\ Refused(m, p) \/ QueuedBy(p) = <<>> =>
              (8 \in After(w, m, p) <=> 8 \in w)
<1>1. Refusal(m) \in {9, 10} /\ Refusal("A") = 10 /\ Refusal("B") = 9
  BY DEF Refusal
<1> DEFINE a == After(w, m, p)
<1>2. CASE Refused(m, p)
  <2>1. a = w \cup {Refusal(m)} BY <1>2 DEF After
  <2>2. {Refusal(m)} \in SUBSET (0..15) BY <1>1
  <2>3. a \in SUBSET (0..15) BY <2>1, <2>2
  <2>4. \A o \in Mailboxes : o # m => Refusal(o) # Refusal(m)
    BY <1>1 DEF Mailboxes
  <2>5. 8 # Refusal(m) /\ 14 # Refusal(m) BY <1>1
  <2> HIDE DEF a
  <2>6. QED BY <1>2, <2>1, <2>3, <2>4, <2>5 DEF a
<1>3. CASE ~Refused(m, p)
  <2>1. Sets(p) \in SUBSET {4, 5, 14} BY DEF Sets, QueuedSets
  <2>2. Clears(p) \in SUBSET {4, 5, 8, 13} BY DEF Clears, QueuedClears
  <2>3. QueuedBy(p) # <<>> => 14 \in Sets(p) /\ 8 \in Clears(p)
    BY DEF Sets, Clears, QueuedSets, QueuedClears
  <2>4. QueuedBy(p) = <<>> => 8 \notin Clears(p)
    BY DEF Clears
  <2>5. After(w, m, p) = (w \ Clears(p)) \cup Sets(p) BY <1>3 DEF After
  <2>6. After(w, m, p) \in SUBSET (0..15)
    <3>1. {4, 5, 14} \in SUBSET (0..15) OBVIOUS
    <3>2. QED BY <2>1, <2>5, <3>1
  <2>7. \A o \in Mailboxes : Refusal(o) \in {9, 10} BY DEF Refusal, Mailboxes
  <2>8. QED BY <1>1, <1>3, <2>1, <2>2, <2>3, <2>4, <2>5, <2>6, <2>7
<1>4. QED BY <1>2, <1>3

\* The entry of a post clears its own refusal bit and bit 15, no other.
LEMMA EntryIs ==
  ASSUME NEW m \in Mailboxes, NEW w \in SUBSET (0..15)
  PROVE  /\ w \ EntryClears(m) \in SUBSET (0..15)
         /\ Refusal(m) \notin w \ EntryClears(m)
         /\ \A o \in Mailboxes : o # m =>
              (Refusal(o) \in w \ EntryClears(m) <=> Refusal(o) \in w)
         /\ \A b \in {8, 14} : b \in w \ EntryClears(m) <=> b \in w
BY DEF EntryClears, Refusal, Mailboxes

LEMMA ConcatIs ==
  ASSUME NEW S, NEW q \in Seq(S), NEW r \in Seq(S)
  PROVE  /\ q \o r \in Seq(S) /\ Len(q \o r) = Len(q) + Len(r)
         /\ q \o r # <<>> <=> q # <<>> \/ r # <<>>
<1>1. q \o r \in Seq(S) /\ Len(q \o r) = Len(q) + Len(r) OBVIOUS
<1>2. Len(q) \in Nat /\ Len(r) \in Nat /\ Len(q \o r) \in Nat OBVIOUS
<1>3. \A x \in Seq(S) : x # <<>> <=> Len(x) # 0 OBVIOUS
<1>4. q \o r # <<>> <=> Len(q) + Len(r) # 0 BY <1>1, <1>3
<1>5. Len(q) + Len(r) # 0 <=> Len(q) # 0 \/ Len(r) # 0 BY <1>2
<1>6. QED BY <1>1, <1>3, <1>4, <1>5
-----------------------------------------------------------------------------
\* The four ways L1 serves a post.
Next1(at, m) == l1' = [at |-> at, mbx |-> m]
Decides(m) ==
  /\ verdict' = [verdict EXCEPT ![m] =
                   IF Refused(m, box[m]) THEN "refused" ELSE "taken"]
  /\ IF Refused(m, box[m]) THEN UNCHANGED <<jobs, alone, failed>>
     ELSE Queue(QueuedBy(box[m]))
  /\ items' = IF Pushes(m, box[m]) THEN items + 1 ELSE items
Ignores(m) ==
  /\ ~box[m].req /\ Next1("finish", m)
  /\ UNCHANGED <<waiting, fe6, jobs, items, dog, Parts0, history>>
Halts(m) ==
  /\ Next1("halted", m) /\ fe6' = fe6 \ EntryClears(m)
  /\ UNCHANGED <<waiting, jobs, items, dog, Parts0, history>>
Holds(m) ==
  /\ box[m].cmd \in AudioPosts
  /\ waiting' = Append(waiting, m) /\ fe6' = fe6 \ EntryClears(m)
  /\ Watchdog(m, box[m])
  /\ UNCHANGED <<l1, jobs, items, Parts0, history>>
Runs(m) ==
  /\ ~HoldsBack(box[m]) /\ Next1("finish", m)
  /\ fe6' = After(fe6 \ EntryClears(m), m, box[m])
  /\ Watchdog(m, box[m]) /\ Decides(m)
  /\ UNCHANGED waiting
  /\ \/ UNCHANGED Parts0
     \/ Setup(box[m]) /\ Frame(box[m]) /\ Packet(box[m]) /\ Scaling(box[m])

LEMMA PostIs ==
  ASSUME NEW m \in Mailboxes, NEW p \in Posted(m)
  PROVE  /\ p.cmd \in Commands[m] /\ p.req \in BOOLEAN /\ p # NoPost
         /\ p.req \/ p.cmd = "FF"
<1>1. p \in [cmd : Commands[m], req : BOOLEAN, args : BOOLEAN,
             arg : {"good", "bad", "plain"}]
  BY DEF Posted
<1>2. p.req \/ p.cmd = "FF" BY DEF Posted
<1>3. NoPost.cmd = "none" /\ NoPost.req = FALSE BY DEF NoPost
<1>4. p # NoPost BY <1>2, <1>3
<1>5. p.cmd \in Commands[m] /\ p.req \in BOOLEAN BY <1>1
<1>6. QED BY <1>2, <1>4, <1>5

LEMMA ServeCases ==
  ASSUME Types, Serve
  PROVE  \E m \in Mailboxes :
           /\ l1.at = "idle" /\ ~Masked /\ arrived # <<>> /\ m = Head(arrived)
           /\ arrived' = Tail(arrived) /\ UNCHANGED <<box, rmw, step, eng>>
           /\ Ignores(m) \/ Halts(m) \/ Holds(m) \/ Runs(m)
<1> DEFINE m == Head(arrived)
           p == box[m]
<1>1. m \in Mailboxes BY DEF Types, Serve
<1>2. p.req \in BOOLEAN
  <2>1. p \in Posted(m) \cup {NoPost} BY <1>1 DEF Types
  <2>2. NoPost.req = FALSE BY DEF NoPost
  <2>3. CASE p \in Posted(m)
    <3> HIDE DEF p
    <3>1. QED BY <1>1, <2>3, PostIs
  <2>4. CASE p = NoPost BY <2>2, <2>4
  <2>5. QED BY <2>1, <2>3, <2>4
<1>3. "85" \notin AudioPosts BY DEF AudioPosts
<1>4. CASE ~p.req BY <1>1, <1>4 DEF Serve, Ignores, Next1
<1>5. CASE p.req /\ p.cmd = "85"
  <2>1. ~HoldsBack(p) BY <1>3, <1>5 DEF HoldsBack
  <2>2. QED BY <1>1, <1>5, <2>1 DEF Serve, Halts, Next1
<1>6. CASE p.req /\ p.cmd # "85" /\ HoldsBack(p)
  BY <1>1, <1>6 DEF Serve, Holds, HoldsBack
<1>7. CASE p.req /\ p.cmd # "85" /\ ~HoldsBack(p)
  <2>1. IF Refused(m, p)
        THEN UNCHANGED <<jobs, alone, failed, Parts0>>
        ELSE Queue(QueuedBy(p)) /\ Setup(p) /\ Frame(p)
               /\ Packet(p) /\ Scaling(p)
    BY <1>7 DEF Serve
  <2>2. /\ Next1("finish", m) /\ fe6' = After(fe6 \ EntryClears(m), m, p)
        /\ Watchdog(m, p) /\ UNCHANGED waiting
        /\ verdict' = [verdict EXCEPT ![m] =
                         IF Refused(m, p) THEN "refused" ELSE "taken"]
        /\ items' = IF Pushes(m, p) THEN items + 1 ELSE items
    BY <1>7 DEF Serve, Next1
  <2>3. Decides(m) BY <2>1, <2>2 DEF Decides
  <2>4. \/ UNCHANGED Parts0
        \/ Setup(p) /\ Frame(p) /\ Packet(p) /\ Scaling(p)
    BY <2>1
  <2>5. Runs(m) BY <1>7, <2>2, <2>3, <2>4 DEF Runs
  <2>6. QED BY <1>1, <2>5 DEF Serve
<1>8. QED BY <1>2, <1>4, <1>5, <1>6, <1>7

LEMMA DecidesIs ==
  ASSUME Types, NEW m \in Mailboxes, Decides(m)
  PROVE  /\ verdict' \in [Mailboxes -> {"none", "taken", "refused"}]
         /\ verdict'[m] # "none"
         /\ verdict'[m] = "refused" <=> Refused(m, box[m])
         /\ \A o \in Mailboxes : o # m => verdict'[o] = verdict[o]
         /\ jobs' \in Seq(JobKinds) /\ alone' \in BOOLEAN /\ failed' \in BOOLEAN
         /\ Refused(m, box[m]) \/ QueuedBy(box[m]) = <<>> =>
              jobs' = jobs /\ alone' = alone /\ failed' = failed
         /\ ~Refused(m, box[m]) /\ QueuedBy(box[m]) # <<>> =>
              jobs' # <<>> /\ (alone' => jobs = <<>>) /\ failed' = FALSE
         /\ ~Refused(m, box[m]) =>
              Len(jobs') = Len(jobs) + Len(QueuedBy(box[m]))
<1> DEFINE p == box[m]
<1>1. QueuedBy(p) \in Seq(JobKinds) BY QueuedIs
<1>2. jobs \in Seq(JobKinds) /\ alone \in BOOLEAN /\ failed \in BOOLEAN
      /\ verdict \in [Mailboxes -> {"none", "taken", "refused"}]
  BY DEF Types
<1>3. /\ verdict' \in [Mailboxes -> {"none", "taken", "refused"}]
      /\ verdict'[m] # "none"
      /\ verdict'[m] = "refused" <=> Refused(m, p)
      /\ \A o \in Mailboxes : o # m => verdict'[o] = verdict[o]
  BY <1>2 DEF Decides
<1>4. CASE Refused(m, p) BY <1>1, <1>2, <1>3, <1>4 DEF Decides
<1>5. CASE ~Refused(m, p)
  <2>1. /\ jobs \o QueuedBy(p) \in Seq(JobKinds)
        /\ Len(jobs \o QueuedBy(p)) = Len(jobs) + Len(QueuedBy(p))
        /\ jobs \o QueuedBy(p) # <<>> <=> jobs # <<>> \/ QueuedBy(p) # <<>>
    BY <1>1, <1>2, ConcatIs
  <2>2. jobs' = jobs \o QueuedBy(p) BY <1>5 DEF Decides, Queue
  <2>3. IF QueuedBy(p) = <<>> THEN alone' = alone /\ failed' = failed
        ELSE alone' = (jobs = <<>>) /\ failed' = FALSE
    BY <1>5 DEF Decides, Queue
  <2>4. jobs \o <<>> = jobs BY <1>2
  <2>5. QueuedBy(p) = <<>> => jobs' = jobs /\ alone' = alone /\ failed' = failed
    BY <2>2, <2>3, <2>4
  <2>6. QueuedBy(p) # <<>> =>
          jobs' # <<>> /\ (alone' => jobs = <<>>) /\ failed' = FALSE
    BY <2>1, <2>2, <2>3
  <2>7. alone' \in BOOLEAN /\ failed' \in BOOLEAN BY <1>2, <2>3
  <2>8. QED BY <1>3, <1>5, <2>1, <2>2, <2>5, <2>6, <2>7
<1>6. QED BY <1>4, <1>5

\* The oldest held post is finished.
LEMMA TakeIs ==
  ASSUME Types, Take
  PROVE  \E m \in Mailboxes :
           /\ m = Head(waiting) /\ waiting # <<>> /\ waiting' = Tail(waiting)
           /\ fe6' = After(fe6, m, box[m]) \cup {15}
           /\ Decides(m) /\ box' = [box EXCEPT ![m] = NoPost]
           /\ eng = "take" /\ items < ItemRoom
           /\ UNCHANGED <<arrived, l1, rmw, ready, step, eng, session, open,
                          sending, dog>>
<1>1. Head(waiting) \in Mailboxes BY DEF Types, Take
<1>2. Decides(Head(waiting)) BY DEF Take, Decides
<1>3. QED BY <1>1, <1>2 DEF Take
-----------------------------------------------------------------------------
Others == ItemStart \/ ItemEnd \/ TakeDone \/ BelowWrite \/ PacketTaken

LEMMA BelowWriteIs ==
  \A w \in BelowWrites : w[1] \in BOOLEAN /\ w[2] \in {3, 4, 5, 13}
<1> SUFFICES ASSUME NEW w \in BelowWrites
             PROVE  w[1] \in BOOLEAN /\ w[2] \in {3, 4, 5, 13}
  OBVIOUS
<1>1. \/ w = <<TRUE, 3>> \/ w = <<FALSE, 3>> \/ w = <<TRUE, 13>>
      \/ w = <<FALSE, 4>> \/ w = <<TRUE, 5>>
  BY DEF BelowWrites
<1>2. /\ <<TRUE, 3>>[1] = TRUE /\ <<TRUE, 3>>[2] = 3
      /\ <<FALSE, 3>>[1] = FALSE /\ <<FALSE, 3>>[2] = 3
      /\ <<TRUE, 13>>[1] = TRUE /\ <<TRUE, 13>>[2] = 13
      /\ <<FALSE, 4>>[1] = FALSE /\ <<FALSE, 4>>[2] = 4
      /\ <<TRUE, 5>>[1] = TRUE /\ <<TRUE, 5>>[2] = 5
  OBVIOUS
<1>3. QED BY <1>1, <1>2

LEMMA TypesInit == Init => Types
<1> SUFFICES ASSUME Init PROVE Types OBVIOUS
<1>1. box = [m \in Mailboxes |-> box[m]] /\ \A m \in Mailboxes : box[m] = NoPost
  BY DEF Init
<1>2. <<>> \in Seq(Mailboxes) /\ <<>> \in Seq(JobKinds) OBVIOUS
<1>3. NoRmw \in Rmws BY DEF NoRmw, Rmws
<1>4. verdict \in [Mailboxes -> {"none", "taken", "refused"}] /\ fe6 \subseteq 0..15
      /\ l1 \in [at : {"idle", "finish", "idle15", "halted"}, mbx : Mailboxes]
  BY DEF Init, Mailboxes
<1>5. 0 \in 0..ItemRoom BY DispatcherAssumption
<1>6. QED BY <1>1, <1>2, <1>3, <1>4, <1>5 DEF Init, Types

LEMMA TypesKept == ASSUME Types, [Next]_vars PROVE Types'
<1> USE DispatcherAssumption
<1>1. ASSUME NEW m \in Mailboxes, Post(m) PROVE Types'
  <2>1. PICK p \in Posted(m) : box' = [box EXCEPT ![m] = p] BY <1>1 DEF Post
  <2>2. /\ box' = [o \in Mailboxes |-> box'[o]]
        /\ \A o \in Mailboxes : box'[o] \in Posted(o) \cup {NoPost}
    BY <2>1 DEF Types
  <2>3. arrived' \in Seq(Mailboxes) BY <1>1 DEF Post, Types
  <2>4. UNCHANGED <<waiting, l1, fe6, rmw, ready, jobs, step, items, eng,
                    session, dog, history>>
    BY <1>1 DEF Post
  <2>5. Posted(m)' = Posted(m) /\ Posted("A")' = Posted("A")
    BY DEF Posted
  <2>6. QED BY <2>2, <2>3, <2>4 DEF Types, history, Posted
<1>2. CASE Serve
  <2>1. PICK m \in Mailboxes :
          /\ l1.at = "idle" /\ ~Masked /\ arrived # <<>> /\ m = Head(arrived)
          /\ arrived' = Tail(arrived) /\ UNCHANGED <<box, rmw, step, eng>>
          /\ Ignores(m) \/ Halts(m) \/ Holds(m) \/ Runs(m)
    BY <1>2, ServeCases
  <2>2. arrived' \in Seq(Mailboxes) BY <2>1 DEF Types
  <2>3. /\ fe6 \ EntryClears(m) \in SUBSET (0..15)
        /\ After(fe6 \ EntryClears(m), m, box[m]) \in SUBSET (0..15)
    BY EntryIs, AfterIs DEF Types
  <2>4. dog' \in {"off", "armed", "running"}
    BY <2>1 DEF Types, Ignores, Halts, Holds, Runs, Watchdog
  <2>5. /\ ready' \subseteq Parts /\ session' \in {"none", "open", "pending"}
    BY <2>1 DEF Types, Ignores, Halts, Holds, Runs, Parts0, Setup, Scaling
  <2>6. l1' \in [at : {"idle", "finish", "idle15", "halted"}, mbx : Mailboxes]
    BY <2>1 DEF Types, Ignores, Halts, Holds, Runs, Next1
  <2>7. waiting' \in Seq(Mailboxes) /\ fe6' \in SUBSET (0..15)
    <3>1. waiting' \in {waiting, Append(waiting, m)}
      BY <2>1 DEF Ignores, Halts, Holds, Runs
    <3>2. fe6' \in {fe6, fe6 \ EntryClears(m),
                    After(fe6 \ EntryClears(m), m, box[m])}
      BY <2>1 DEF Ignores, Halts, Holds, Runs
    <3>3. fe6 \in SUBSET (0..15) /\ waiting \in Seq(Mailboxes) BY DEF Types
    <3>4. QED BY <2>3, <3>1, <3>2, <3>3
  <2>8. /\ jobs' \in Seq(JobKinds) /\ alone' \in BOOLEAN /\ failed' \in BOOLEAN
        /\ verdict' \in [Mailboxes -> {"none", "taken", "refused"}]
        /\ jobs # <<>> => jobs' # <<>>
    <3>1. CASE Runs(m) BY <3>1, DecidesIs DEF Runs
    <3>2. CASE ~Runs(m)
      BY <2>1, <3>2 DEF Types, Ignores, Halts, Holds, history
    <3>3. QED BY <3>1, <3>2
  <2>9. items' \in 0..ItemRoom /\ items' >= items
    <3>1. CASE Runs(m)
      <4>1. Pushes(m, box[m]) => items < ItemRoom
        BY <3>1 DEF Types, Runs, Pushes, HoldsBack
      <4>2. QED BY <3>1, <4>1 DEF Types, Runs, Decides
    <3>2. CASE ~Runs(m)
      BY <2>1, <3>2 DEF Types, Ignores, Halts, Holds
    <3>3. QED BY <3>1, <3>2
  <2>10. QED BY <2>1, <2>2, <2>4, <2>5, <2>6, <2>7, <2>8, <2>9
            DEF Types, Posted
<1>3. CASE Finish
  BY <1>3 DEF Finish, Types, history, Posted
<1>4. CASE Idle15
  <2>1. fe6' \subseteq 0..15 BY <1>4 DEF Idle15, Types
  <2>2. QED BY <1>4, <2>1 DEF Idle15, Types, history, Posted
<1>5. CASE Take
  <2>1. PICK m \in Mailboxes :
           /\ m = Head(waiting) /\ waiting # <<>> /\ waiting' = Tail(waiting)
           /\ fe6' = After(fe6, m, box[m]) \cup {15}
           /\ Decides(m) /\ box' = [box EXCEPT ![m] = NoPost]
           /\ eng = "take" /\ items < ItemRoom
           /\ UNCHANGED <<arrived, l1, rmw, ready, step, eng, session, open,
                          sending, dog>>
    BY <1>5, TakeIs
  <2>2. waiting' \in Seq(Mailboxes) BY <2>1 DEF Types
  <2>3. fe6' \in SUBSET (0..15)
    <3>1. After(fe6, m, box[m]) \in SUBSET (0..15) BY AfterIs DEF Types
    <3>2. QED BY <2>1, <3>1
  <2>4. /\ box' = [o \in Mailboxes |-> box'[o]]
        /\ \A o \in Mailboxes : box'[o] \in Posted(o) \cup {NoPost}
    BY <2>1 DEF Types
  <2>5. /\ jobs' \in Seq(JobKinds) /\ alone' \in BOOLEAN /\ failed' \in BOOLEAN
        /\ verdict' \in [Mailboxes -> {"none", "taken", "refused"}]
        /\ jobs # <<>> => jobs' # <<>>
    BY <2>1, DecidesIs
  <2>6. items' \in 0..ItemRoom BY <2>1 DEF Types, Decides
  <2>7. QED BY <2>1, <2>2, <2>3, <2>4, <2>5, <2>6 DEF Types, Posted
<1>6. CASE Store
  <2>1. rmw.read \in SUBSET (0..15) /\ rmw.bit \in 0..15
    BY DEF Types, Rmws, BelowL1
  <2>2. fe6' \in {rmw.read \cup {rmw.bit}, rmw.read \ {rmw.bit}}
    BY <1>6 DEF Store
  <2>3. fe6' \in SUBSET (0..15) BY <2>1, <2>2
  <2>4. NoRmw \in Rmws BY DEF NoRmw, Rmws
  <2>5. QED BY <1>6, <2>3, <2>4 DEF Store, Types, history, Posted
<1>7. CASE JobRun BY <1>7 DEF JobRun, Types, SetUp, Parts, Posted
<1>8. CASE JobFail BY <1>8 DEF JobFail, Types, Read, Rmws, BelowL1, history, Posted
<1>9. CASE JobEnd
  <2>1. jobs' \in Seq(JobKinds) BY <1>9 DEF JobEnd, Types
  <2>2. rmw' \in Rmws
    BY <1>9 DEF JobEnd, Types, Read, Rmws, BelowL1
  <2>3. QED BY <1>9, <2>1, <2>2 DEF JobEnd, Types, history, Posted
<1>10. CASE Others
  <2>1. CASE BelowWrite
    <3>1. rmw' \in Rmws
      BY <2>1, BelowWriteIs DEF BelowWrite, Types, Read, Rmws, BelowL1
    <3>2. QED BY <2>1, <3>1 DEF BelowWrite, Types, history, Posted
  <2>2. CASE ItemStart BY <2>2 DEF ItemStart, Types, history, Posted
  <2>3. CASE ItemEnd BY <2>3 DEF ItemEnd, Types, history, Posted
  <2>4. CASE TakeDone BY <2>4 DEF TakeDone, Types, history, Posted
  <2>5. CASE PacketTaken BY <2>5 DEF PacketTaken, Types, history, Posted
  <2>6. QED BY <1>10, <2>1, <2>2, <2>3, <2>4, <2>5 DEF Others
<1>11. CASE UNCHANGED vars BY <1>11 DEF vars, Types, history, Posted
<1>12. QED
  BY <1>1, <1>2, <1>3, <1>4, <1>5, <1>6, <1>7, <1>8, <1>9, <1>10, <1>11
     DEF Next, Others
-----------------------------------------------------------------------------
LEMMA MailKept == ASSUME Types, Mail, [Next]_vars PROVE Mail'
<1>1. ASSUME NEW m \in Mailboxes, Post(m) PROVE Mail'
  <2>1. PICK p \in Posted(m) :
          box[m] = NoPost /\ box' = [box EXCEPT ![m] = p] BY <1>1 DEF Post
  <2>2. arrived' = Append(arrived, m) /\ UNCHANGED <<waiting, l1>>
    BY <1>1 DEF Post
  <2>3. ~In(arrived, m) /\ ~In(waiting, m) BY <2>1 DEF Mail
  <2>4. /\ Once(arrived')
        /\ \A o : In(arrived', o) <=> In(arrived, o) \/ o = m
    BY <2>2, <2>3, AppendIs DEF Mail, Types
  <2>5. \A o \in Mailboxes : box'[o] = IF o = m THEN p ELSE box[o]
    BY <2>1 DEF Types
  <2>6. p # NoPost BY PostIs
  <2>7. ~(l1.at \in {"finish", "halted"} /\ l1.mbx = m)
    BY <2>1 DEF Mail
  <2>8. l1.mbx \in Mailboxes BY DEF Types
  <2>9. QED BY <2>2, <2>3, <2>4, <2>5, <2>6, <2>7, <2>8 DEF Mail
<1>2. CASE Serve
  <2>1. PICK m \in Mailboxes :
          /\ l1.at = "idle" /\ ~Masked /\ arrived # <<>> /\ m = Head(arrived)
          /\ arrived' = Tail(arrived) /\ UNCHANGED <<box, rmw, step, eng>>
          /\ Ignores(m) \/ Halts(m) \/ Holds(m) \/ Runs(m)
    BY <1>2, ServeCases
  <2>2. /\ Once(arrived') /\ ~In(arrived', m) /\ In(arrived, m)
        /\ \A o : In(arrived', o) => In(arrived, o)
    BY <2>1, TailIs DEF Mail, Types
  <2>3. box[m] # NoPost /\ ~In(waiting, m) BY <2>2 DEF Mail
  <2>4. CASE Holds(m)
    <3>1. /\ Once(waiting')
          /\ \A o : In(waiting', o) <=> In(waiting, o) \/ o = m
      BY <2>3, <2>4, AppendIs DEF Holds, Mail, Types
    <3>2. QED BY <2>1, <2>2, <2>3, <2>4, <3>1 DEF Holds, Mail
  <2>5. CASE ~Holds(m)
    <3>1. waiting' = waiting /\ l1'.mbx = m
      BY <2>1, <2>5 DEF Ignores, Halts, Runs, Next1
    <3>2. QED BY <2>1, <2>2, <2>3, <3>1 DEF Mail
  <2>6. QED BY <2>4, <2>5
<1>3. CASE Finish
  <2>1. /\ l1.mbx \in Mailboxes /\ l1'.at = "idle15"
        /\ box' = [box EXCEPT ![l1.mbx] = NoPost]
        /\ UNCHANGED <<arrived, waiting>>
        /\ ~In(arrived, l1.mbx) /\ ~In(waiting, l1.mbx)
    BY <1>3 DEF Finish, Types, Mail
  <2>2. \A o \in Mailboxes : o # l1.mbx => box'[o] = box[o]
    BY <2>1 DEF Types
  <2>3. QED BY <2>1, <2>2 DEF Mail
<1>4. CASE Idle15 BY <1>4 DEF Idle15, Types, Mail
<1>5. CASE Take
  <2>1. PICK m \in Mailboxes :
           /\ m = Head(waiting) /\ waiting # <<>> /\ waiting' = Tail(waiting)
           /\ fe6' = After(fe6, m, box[m]) \cup {15}
           /\ Decides(m) /\ box' = [box EXCEPT ![m] = NoPost]
           /\ eng = "take" /\ items < ItemRoom
           /\ UNCHANGED <<arrived, l1, rmw, ready, step, eng, session, open,
                          sending, dog>>
    BY <1>5, TakeIs
  <2>2. /\ Once(waiting') /\ ~In(waiting', m) /\ In(waiting, m)
        /\ \A o : In(waiting', o) => In(waiting, o)
    BY <2>1, TailIs DEF Mail, Types
  <2>3. ~In(arrived, m) BY <2>2 DEF Mail
  <2>4. \A o \in Mailboxes : o # m => box'[o] = box[o]
    BY <2>1 DEF Types
  <2>5. l1.at \in {"finish", "halted"} => l1.mbx # m /\ l1.mbx \in Mailboxes
    BY <2>2 DEF Mail, Types
  <2>6. QED BY <2>1, <2>2, <2>3, <2>4, <2>5 DEF Mail
<1>6. CASE UNCHANGED <<box, arrived, waiting, l1>> BY <1>6 DEF Mail
<1>7. Store \/ JobRun \/ JobFail \/ JobEnd \/ Others \/ UNCHANGED vars
        => UNCHANGED <<box, arrived, waiting, l1>>
  BY DEF Store, JobRun, JobFail, JobEnd, Others, ItemStart, ItemEnd, TakeDone,
         BelowWrite, PacketTaken, vars
<1>8. QED BY <1>1, <1>2, <1>3, <1>4, <1>5, <1>6, <1>7 DEF Next, Others

\* Below the stores of other levels the word is what it was.
LEMMA WordKept == ASSUME Types, Mail, Word, [Next]_vars PROVE Word'
<1>1. ASSUME NEW m \in Mailboxes, Post(m) PROVE Word'
  BY <1>1 DEF Post, Word, Decided, history
<1>2. CASE Serve
  <2>1. PICK m \in Mailboxes :
          /\ l1.at = "idle" /\ ~Masked /\ arrived # <<>> /\ m = Head(arrived)
          /\ arrived' = Tail(arrived) /\ UNCHANGED <<box, rmw, step, eng>>
          /\ Ignores(m) \/ Halts(m) \/ Holds(m) \/ Runs(m)
    BY <1>2, ServeCases
  <2>2. In(arrived, m) /\ ~In(waiting, m) BY <2>1, TailIs DEF Mail, Types
  <2>3. rmw' = NoRmw BY <2>1 DEF Masked
  <2> DEFINE w == fe6 \ EntryClears(m)
  <2>4. /\ w \in SUBSET (0..15) /\ Refusal(m) \notin w
        /\ \A o \in Mailboxes : o # m => (Refusal(o) \in w <=> Refusal(o) \in fe6)
    BY EntryIs DEF Types
  <2>5. CASE Ignores(m) BY <2>1, <2>3, <2>5 DEF Ignores, Word, Decided, history,
                                                Next1
  <2>6. CASE Halts(m)
    <3>1. ~Decided(m)' BY <2>6 DEF Halts, Decided, Next1
    <3>2. QED BY <2>1, <2>2, <2>3, <2>4, <2>6, <3>1
             DEF Halts, Word, Decided, history, Next1
  <2>7. CASE Holds(m)
    <3>1. \A o : In(waiting', o) <=> In(waiting, o) \/ o = m
      BY <2>2, <2>7, AppendIs DEF Holds, Mail, Types
    <3>2. QED BY <2>1, <2>3, <2>4, <2>7, <3>1 DEF Holds, Word, Decided, history
  <2>8. CASE Runs(m)
    <3>1. /\ \A o \in Mailboxes : o # m =>
               (Refusal(o) \in fe6' <=> Refusal(o) \in w)
          /\ Refusal(m) \in fe6' <=> Refused(m, box[m])
      BY <2>4, <2>8, AfterIs DEF Runs
    <3>2. /\ verdict'[m] = "refused" <=> Refused(m, box[m])
          /\ \A o \in Mailboxes : o # m => verdict'[o] = verdict[o]
      BY <2>8, DecidesIs DEF Runs
    <3>3. waiting' = waiting /\ l1'.at = "finish" BY <2>8 DEF Runs, Next1
    <3>4. QED BY <2>1, <2>2, <2>3, <2>4, <3>1, <3>2, <3>3 DEF Word, Decided
  <2>9. QED BY <2>1, <2>5, <2>6, <2>7, <2>8
<1>3. CASE Finish BY <1>3 DEF Finish, Word, Decided, history
<1>4. CASE Idle15
  <2>1. \A m \in Mailboxes : Refusal(m) # 15 BY DEF Refusal, Mailboxes
  <2>2. QED BY <1>4, <2>1 DEF Idle15, Word, Decided, history
<1>5. CASE Take
  <2>1. PICK m \in Mailboxes :
           /\ m = Head(waiting) /\ waiting # <<>> /\ waiting' = Tail(waiting)
           /\ fe6' = After(fe6, m, box[m]) \cup {15}
           /\ Decides(m) /\ box' = [box EXCEPT ![m] = NoPost]
           /\ eng = "take" /\ items < ItemRoom
           /\ UNCHANGED <<arrived, l1, rmw, ready, step, eng, session, open,
                          sending, dog>>
    BY <1>5, TakeIs
  <2>2. /\ ~In(waiting', m) /\ In(waiting, m)
        /\ \A o : In(waiting', o) => In(waiting, o)
        /\ \A o : In(waiting, o) /\ o # m => In(waiting', o)
    BY <2>1, TailIs DEF Mail, Types
  <2>3. \A o \in Mailboxes : Refusal(o) # 15 BY DEF Refusal, Mailboxes
  <2>4. Refusal(m) \notin fe6 BY <2>2 DEF Word
  <2>5. /\ \A o \in Mailboxes : o # m =>
             (Refusal(o) \in fe6' <=> Refusal(o) \in fe6)
        /\ Refusal(m) \in fe6' <=> Refused(m, box[m])
    BY <2>1, <2>3, <2>4, AfterIs DEF Types
  <2>6. /\ verdict'[m] = "refused" <=> Refused(m, box[m])
        /\ \A o \in Mailboxes : o # m => verdict'[o] = verdict[o]
    BY <2>1, DecidesIs
  <2>7. rmw' = NoRmw BY <2>1 DEF Word
  <2>8. QED BY <2>1, <2>2, <2>5, <2>6, <2>7 DEF Word, Decided
<1>6. CASE Store
  <2>1. rmw.read = fe6 /\ rmw.bit \in BelowL1 BY <1>6 DEF Store, Word
  <2>2. \A m \in Mailboxes : Refusal(m) \notin BelowL1
    BY DEF Refusal, Mailboxes, BelowL1
  <2>3. fe6' = IF rmw.on THEN fe6 \cup {rmw.bit} ELSE fe6 \ {rmw.bit}
    BY <1>6, <2>1 DEF Store
  <2>4. \A m \in Mailboxes : Refusal(m) \in fe6' <=> Refusal(m) \in fe6
    BY <2>1, <2>2, <2>3
  <2>5. rmw' = NoRmw BY <1>6 DEF Store
  <2>6. QED BY <1>6, <2>4, <2>5 DEF Store, Word, Decided, history
<1>7. CASE JobRun BY <1>7 DEF JobRun, Word, Decided
<1>8. CASE JobFail
  BY <1>8 DEF JobFail, Word, Decided, Below, Read, BelowL1, history
<1>9. CASE JobEnd
  BY <1>9 DEF JobEnd, Word, Decided, Below, Read, BelowL1, history
<1>10. CASE Others
  <2>1. CASE BelowWrite
    BY <2>1, BelowWriteIs
       DEF BelowWrite, Word, Decided, Below, Read, BelowL1, history
  <2>2. CASE ItemStart BY <2>2 DEF ItemStart, Word, Decided, history
  <2>3. CASE ItemEnd BY <2>3 DEF ItemEnd, Word, Decided, history
  <2>4. CASE TakeDone BY <2>4 DEF TakeDone, Word, Decided, history
  <2>5. CASE PacketTaken BY <2>5 DEF PacketTaken, Word, Decided, history
  <2>6. QED BY <1>10, <2>1, <2>2, <2>3, <2>4, <2>5 DEF Others
<1>11. CASE UNCHANGED vars BY <1>11 DEF vars, Word, Decided
<1>12. QED
  BY <1>1, <1>2, <1>3, <1>4, <1>5, <1>6, <1>7, <1>8, <1>9, <1>10, <1>11
     DEF Next, Others

\* A decided post keeps the job bits true of the queue.
LEMMA WorkDecided ==
  ASSUME Types, Work, rmw' = NoRmw, UNCHANGED step, NEW m \in Mailboxes, Decides(m),
         NEW w \in SUBSET (0..15), \A b \in {8, 14} : b \in w <=> b \in fe6,
         \A b \in {8, 14} : b \in fe6' <=> b \in After(w, m, box[m]),
         rmw = NoRmw
  PROVE  Work'
<1> DEFINE p == box[m]
<1>1. CASE Refused(m, p) \/ QueuedBy(p) = <<>>
  <2>1. jobs' = jobs /\ alone' = alone /\ failed' = failed
    BY <1>1, DecidesIs
  <2>2. (8 \in fe6' <=> 8 \in fe6) /\ (14 \in fe6 => 14 \in fe6')
    BY <1>1, AfterIs
  <2>3. QED BY <2>1, <2>2 DEF Work, Storing
<1>2. CASE ~(Refused(m, p) \/ QueuedBy(p) = <<>>)
  <2>1. jobs' # <<>> /\ (alone' => jobs = <<>>) /\ failed' = FALSE
    BY <1>2, DecidesIs
  <2>2. 14 \in fe6' /\ 8 \notin fe6' BY <1>2, AfterIs
  <2>3. step # "idle" => jobs # <<>> BY DEF Types
  <2>4. step' = "fail" /\ alone' => FALSE BY <2>1, <2>3
  <2>5. QED BY <2>1, <2>2, <2>4 DEF Work, Storing
<1>3. QED BY <1>1, <1>2

LEMMA WorkKept == ASSUME Types, Mail, Word, Work, [Next]_vars PROVE Work'
<1>1. ASSUME NEW m \in Mailboxes, Post(m) PROVE Work'
  BY <1>1 DEF Post, Work, Storing, history
<1>2. CASE Serve
  <2>1. PICK m \in Mailboxes :
          /\ l1.at = "idle" /\ ~Masked /\ arrived # <<>> /\ m = Head(arrived)
          /\ arrived' = Tail(arrived) /\ UNCHANGED <<box, rmw, step, eng>>
          /\ Ignores(m) \/ Halts(m) \/ Holds(m) \/ Runs(m)
    BY <1>2, ServeCases
  <2>2. rmw = NoRmw /\ rmw' = NoRmw BY <2>1 DEF Masked
  <2> DEFINE w == fe6 \ EntryClears(m)
  <2>3. w \in SUBSET (0..15) /\ \A b \in {8, 14} : b \in w <=> b \in fe6
    BY EntryIs DEF Types
  <2>4. CASE Runs(m)
    <3>1. fe6' = After(w, m, box[m]) /\ Decides(m) BY <2>4 DEF Runs
    <3> HIDE DEF w
    <3>2. QED BY <2>1, <2>2, <2>3, <3>1, WorkDecided
  <2>5. CASE ~Runs(m)
    <3>1. /\ UNCHANGED <<jobs, alone, failed, step>>
          /\ \A b \in {8, 14} : b \in fe6' <=> b \in fe6
      BY <2>1, <2>3, <2>5 DEF Ignores, Halts, Holds, history
    <3>2. QED BY <2>2, <3>1 DEF Work, Storing
  <2>6. QED BY <2>4, <2>5
<1>3. CASE Finish BY <1>3 DEF Finish, Work, Storing, history
<1>4. CASE Idle15 BY <1>4 DEF Idle15, Work, Storing, history
<1>5. CASE Take
  <2>1. PICK m \in Mailboxes :
           /\ m = Head(waiting) /\ waiting # <<>> /\ waiting' = Tail(waiting)
           /\ fe6' = After(fe6, m, box[m]) \cup {15}
           /\ Decides(m) /\ box' = [box EXCEPT ![m] = NoPost]
           /\ eng = "take" /\ items < ItemRoom
           /\ UNCHANGED <<arrived, l1, rmw, ready, step, eng, session, open,
                          sending, dog>>
    BY <1>5, TakeIs
  <2>2. rmw = NoRmw /\ rmw' = NoRmw BY <2>1 DEF Word
  <2>3. \A b \in {8, 14} : b \in fe6' <=> b \in After(fe6, m, box[m])
    BY <2>1
  <2>4. fe6 \in SUBSET (0..15) BY DEF Types
  <2>5. QED BY <2>1, <2>2, <2>3, <2>4, WorkDecided
<1>6. CASE Store
  <2>1. /\ rmw # NoRmw /\ rmw.read = fe6 /\ rmw' = NoRmw
        /\ UNCHANGED <<jobs, step, alone, failed>>
        /\ fe6' = IF rmw.on THEN fe6 \cup {rmw.bit} ELSE fe6 \ {rmw.bit}
    BY <1>6 DEF Store, Word, history
  <2>2. rmw.on \in BOOLEAN BY DEF Types, Rmws
  <2>3. CASE rmw.bit = 14
    <3>1. (8 \in fe6' <=> 8 \in fe6) /\ (14 \in fe6' <=> jobs # <<>>)
      BY <2>1, <2>2, <2>3 DEF Work, Storing
    <3>2. QED BY <2>1, <2>3, <3>1 DEF Work, Storing
  <2>4. CASE rmw.bit = 8
    <3>1. 8 \in fe6' /\ (14 \in fe6' <=> 14 \in fe6)
      BY <2>1, <2>4 DEF Work, Storing
    <3>2. alone => failed BY <2>1, <2>4 DEF Work, Storing
    <3>3. failed \in BOOLEAN BY DEF Types
    <3>4. QED BY <2>1, <2>4, <3>1, <3>2, <3>3 DEF Work, Storing
  <2>5. CASE rmw.bit \notin {8, 14}
    <3>1. (8 \in fe6' <=> 8 \in fe6) /\ (14 \in fe6' <=> 14 \in fe6)
      BY <2>1, <2>5
    <3>2. QED BY <2>1, <2>5, <3>1 DEF Work, Storing
  <2>6. QED BY <2>3, <2>4, <2>5
<1>7. CASE JobRun
  <2>1. PICK fails \in BOOLEAN :
          /\ step' = IF fails /\ Head(jobs).report THEN "fail" ELSE "end"
          /\ failed' = (failed \/ (fails /\ Head(jobs).report))
    BY <1>7 DEF JobRun
  <2>2. rmw = NoRmw /\ UNCHANGED <<fe6, rmw, jobs, alone>> /\ step = "idle"
    BY <1>7 DEF JobRun, Below
  <2>3. failed \in BOOLEAN BY DEF Types
  <2>4. CASE step' = "fail" BY <2>1, <2>2, <2>4 DEF Work, Storing
  <2>5. CASE step' = "end"
    <3>1. failed' = failed BY <2>1, <2>3, <2>5
    <3>2. QED BY <2>2, <2>5, <3>1 DEF Work, Storing
  <2>6. QED BY <2>1, <2>4, <2>5
<1>8. CASE JobFail
  <2>1. /\ rmw' = [on |-> TRUE, bit |-> 8, read |-> fe6] /\ step = "fail"
        /\ step' = "end" /\ UNCHANGED <<fe6, jobs, alone, failed>>
    BY <1>8 DEF JobFail, Read, history
  <2>2. rmw'.on = TRUE /\ rmw'.bit = 8 BY <2>1
  <2>3. rmw' # NoRmw BY <2>2 DEF NoRmw
  <2>4. QED BY <2>1, <2>2, <2>3 DEF Work, Storing
<1>9. CASE JobEnd
  <2>1. /\ rmw' = [on |-> Tail(jobs) # <<>>, bit |-> 14, read |-> fe6]
        /\ jobs' = Tail(jobs) /\ step = "end" /\ step' = "idle"
        /\ rmw = NoRmw /\ UNCHANGED <<fe6, alone, failed>>
    BY <1>9 DEF JobEnd, Read, Below, history
  <2>2. (rmw'.on <=> jobs' # <<>>) /\ rmw'.bit = 14 BY <2>1
  <2>3. 14 \in fe6 BY <2>1 DEF Types, Work
  <2>4. alone => (8 \in fe6 <=> failed) BY <2>1 DEF Work, Storing
  <2>5. QED BY <2>1, <2>2, <2>3, <2>4 DEF Work, Storing
<1>10. CASE Others
  <2>1. CASE BelowWrite
    <3>1. PICK w \in BelowWrites : rmw' = [on |-> w[1], bit |-> w[2], read |-> fe6]
      BY <2>1 DEF BelowWrite, Read
    <3>2. rmw'.bit \notin {8, 14} BY <3>1, BelowWriteIs
    <3>3. rmw = NoRmw /\ UNCHANGED <<fe6, jobs, step, alone, failed>>
      BY <2>1 DEF BelowWrite, Below, history
    <3>4. QED BY <3>2, <3>3 DEF Work, Storing
  <2>2. CASE ItemStart BY <2>2 DEF ItemStart, Work, Storing, history
  <2>3. CASE ItemEnd BY <2>3 DEF ItemEnd, Work, Storing, history
  <2>4. CASE TakeDone BY <2>4 DEF TakeDone, Work, Storing, history
  <2>5. CASE PacketTaken BY <2>5 DEF PacketTaken, Work, Storing, history
  <2>6. QED BY <1>10, <2>1, <2>2, <2>3, <2>4, <2>5 DEF Others
<1>11. CASE UNCHANGED vars BY <1>11 DEF vars, Work, Storing
<1>12. QED
  BY <1>1, <1>2, <1>3, <1>4, <1>5, <1>6, <1>7, <1>8, <1>9, <1>10, <1>11
     DEF Next, Others

LEMMA RoomKept == ASSUME Types, Mail, Word, Room, [Next]_vars PROVE Room'
<1> USE DispatcherAssumption
<1>0. Len(jobs) \in Nat BY DEF Types
<1>1. ASSUME NEW m \in Mailboxes, Post(m) PROVE Room'
  <2>1. PICK p \in Posted(m) :
          /\ box[m] = NoPost /\ box' = [box EXCEPT ![m] = p]
          /\ p.cmd = "C6" => jobs = <<>>
    BY <1>1 DEF Post
  <2>2. arrived' = Append(arrived, m) /\ UNCHANGED <<waiting, jobs>>
    BY <1>1 DEF Post
  <2>3. ~In(arrived, m) /\ Once(arrived) BY <2>1 DEF Mail
  <2>4. /\ \A o : In(arrived', o) <=> In(arrived, o) \/ o = m
        /\ arrived # <<>> => Head(arrived') = Head(arrived)
    BY <2>2, <2>3, AppendIs DEF Types
  <2>5. CASE m = "B"
    <3>1. box'["B"] = p BY <2>1, <2>5 DEF Types
    <3>2. p.cmd = "C6" => Len(jobs) = 0 BY <2>1
    <3>3. Len(jobs) <= JobRoom /\ jobs' = jobs BY <2>2 DEF Room
    <3>4. p.cmd = "C6" => Len(jobs') <= 1 /\ Len(jobs') # 1 BY <3>2, <3>3
    <3>5. QED BY <3>1, <3>3, <3>4 DEF Room
  <2>6. CASE m # "B"
    <3>1. box'["B"] = box["B"] BY <2>1, <2>6 DEF Types, Mailboxes
    <3>2. In(arrived', "B") <=> In(arrived, "B") BY <2>4, <2>6
    <3>3. In(arrived, "B") => arrived # <<>> BY DEF In
    <3>4. QED BY <2>2, <2>4, <3>1, <3>2, <3>3 DEF Room
  <2>7. QED BY <2>5, <2>6
<1>2. CASE Serve
  <2>1. PICK m \in Mailboxes :
          /\ l1.at = "idle" /\ ~Masked /\ arrived # <<>> /\ m = Head(arrived)
          /\ arrived' = Tail(arrived) /\ UNCHANGED <<box, rmw, step, eng>>
          /\ Ignores(m) \/ Halts(m) \/ Holds(m) \/ Runs(m)
    BY <1>2, ServeCases
  <2>2. /\ ~In(arrived', m) /\ In(arrived, m)
        /\ \A o : In(arrived', o) => In(arrived, o)
    BY <2>1, TailIs DEF Mail, Types
  <2>3. Len(jobs') <= JobRoom /\ (m = "A" => Len(jobs') <= Len(jobs) + 1)
    <3>1. CASE Runs(m) /\ ~Refused(m, box[m])
      <4>1. /\ Len(jobs') = Len(jobs) + Len(QueuedBy(box[m]))
            /\ Len(QueuedBy(box[m])) \in Nat
        <5>1. QueuedBy(box[m]) \in Seq(JobKinds) BY QueuedIs
        <5>2. Len(jobs') = Len(jobs) + Len(QueuedBy(box[m]))
          BY <3>1, DecidesIs DEF Runs
        <5>3. QED BY <5>1, <5>2
      <4>2. m = "A" => Len(QueuedBy(box[m])) <= 1
        BY <3>1, QueuedByA
      <4>3. CASE box[m].cmd # "C6"
        <5>1. Len(jobs) + Len(QueuedBy(box[m])) <= JobRoom
          BY <3>1, <4>3, QueuedFits DEF Room
        <5>2. QED BY <1>0, <4>1, <4>2, <5>1
      <4>4. CASE box[m].cmd = "C6"
        <5>1. m = "B" BY <3>1, <4>4 DEF Refused, OnlyB, Mailboxes
        <5>2. Len(jobs) <= 1 BY <2>2, <4>4, <5>1 DEF Room
        <5>3. Len(QueuedBy(box[m])) <= 1 BY <4>4, QueuedIs
        <5>4. QED BY <1>0, <4>1, <5>1, <5>2, <5>3
      <4>5. QED BY <4>3, <4>4
    <3>2. CASE ~(Runs(m) /\ ~Refused(m, box[m]))
      <4>1. jobs' = jobs
        BY <2>1, <3>2, DecidesIs DEF Ignores, Halts, Holds, Runs
      <4>2. QED BY <1>0, <4>1 DEF Room
    <3>3. QED BY <3>1, <3>2
  <2>4. CASE m = "B" BY <2>1, <2>2, <2>3, <2>4 DEF Room
  <2>5. CASE m = "A"
    <3> SUFFICES ASSUME box["B"].cmd = "C6", In(arrived', "B")
                 PROVE  /\ Len(jobs') <= 1
                        /\ Len(jobs') = 1 => ~In(waiting', "A")
                                             /\ Head(arrived') # "A"
      BY <2>1, <2>3 DEF Room
    <3>1. Len(jobs) = 0
      <4>1. Len(jobs) <= 1 /\ Len(jobs) # 1 BY <2>1, <2>2, <2>5 DEF Room
      <4>2. \A n \in Nat : n <= 1 /\ n # 1 => n = 0 OBVIOUS
      <4>3. QED BY <1>0, <4>1, <4>2
    <3>2. Len(jobs') \in Nat /\ Len(jobs') <= 1
      <4>1. jobs' \in Seq(JobKinds) BY TypesKept DEF Types
      <4>2. QED BY <2>3, <2>5, <3>1, <4>1
    <3>3. Head(arrived') # "A"
      <4>1. arrived' # <<>> BY DEF In
      <4>2. arrived' \in Seq(Mailboxes) /\ Once(arrived')
        BY <2>1, TailIs DEF Mail, Types
      <4>3. In(arrived', Head(arrived')) BY <4>1, <4>2, TailIs
      <4>4. QED BY <2>2, <2>5, <4>3
    <3>4. CASE Holds(m)
      <4>1. jobs' = jobs BY <3>4 DEF Holds
      <4>2. QED BY <3>1, <4>1
    <3>5. CASE ~Holds(m)
      <4>1. waiting' = waiting BY <2>1, <3>5 DEF Ignores, Halts, Runs
      <4>2. ~In(waiting, "A") BY <2>2, <2>5 DEF Mail
      <4>3. QED BY <3>2, <3>3, <4>1, <4>2
    <3>6. QED BY <3>4, <3>5
  <2>6. QED BY <2>4, <2>5 DEF Mailboxes
<1>3. CASE Finish
  <2>1. UNCHANGED <<arrived, waiting, jobs>> BY <1>3 DEF Finish
  <2>2. l1.mbx \in Mailboxes /\ ~In(arrived, l1.mbx)
    BY <1>3 DEF Finish, Mail, Types
  <2>3. In(arrived, "B") => box'["B"] = box["B"]
    BY <1>3, <2>2 DEF Finish, Types, Mailboxes
  <2>4. QED BY <2>1, <2>3 DEF Room
<1>4. CASE Take
  <2>1. PICK m \in Mailboxes :
           /\ m = Head(waiting) /\ waiting # <<>> /\ waiting' = Tail(waiting)
           /\ fe6' = After(fe6, m, box[m]) \cup {15}
           /\ Decides(m) /\ box' = [box EXCEPT ![m] = NoPost]
           /\ eng = "take" /\ items < ItemRoom
           /\ UNCHANGED <<arrived, l1, rmw, ready, step, eng, session, open,
                          sending, dog>>
    BY <1>4, TakeIs
  <2>2. ~In(waiting', m) /\ In(waiting, m)
    BY <2>1, TailIs DEF Mail, Types
  <2>3. ~In(arrived, m) BY <2>2 DEF Mail
  <2>4. Len(jobs') \in Nat
    <3>1. jobs' \in Seq(JobKinds) BY TypesKept DEF Types
    <3>2. QED BY <3>1
  <2>5. box[m].cmd \in AudioPosts /\ "C6" \notin AudioPosts
    BY <2>2 DEF Mail, AudioPosts
  <2>6. CASE Refused(m, box[m])
    <3>1. jobs' = jobs BY <2>1, <2>6, DecidesIs
    <3>2. box'["B"] = box["B"] \/ m = "B"
      BY <2>1 DEF Types, Mailboxes
    <3>3. In(arrived, "B") => m # "B" BY <2>3
    <3>4. \A o : In(waiting', o) => In(waiting, o) BY <2>1, TailIs DEF Mail, Types
    <3>5. QED BY <2>1, <3>1, <3>2, <3>3, <3>4 DEF Room
  <2>7. CASE ~Refused(m, box[m])
    <3>1. /\ Len(jobs') = Len(jobs) + Len(QueuedBy(box[m]))
          /\ Len(jobs') <= JobRoom
      <4>1. Len(jobs) + Len(QueuedBy(box[m])) <= JobRoom
        BY <2>5, <2>7, QueuedFits DEF Room
      <4>2. QED BY <2>1, <2>7, <4>1, DecidesIs
    <3>2. CASE box'["B"].cmd = "C6" /\ In(arrived, "B")
      <4>1. m = "A" BY <2>3, <3>2 DEF Mailboxes
      <4>2. box'["B"] = box["B"] BY <2>1, <4>1 DEF Types, Mailboxes
      <4>3. Len(jobs) = 0
        <5>1. Len(jobs) <= 1 /\ Len(jobs) # 1
          BY <2>2, <3>2, <4>1, <4>2 DEF Room
        <5>2. QED BY <1>0, <5>1
      <4>4. Len(QueuedBy(box[m])) <= 1 BY <2>7, <4>1, QueuedByA
      <4>5. Head(arrived) # "A"
        <5>1. arrived # <<>> BY <3>2 DEF In
        <5>2. In(arrived, Head(arrived)) BY <5>1, TailIs DEF Mail, Types
        <5>3. QED BY <2>3, <4>1, <5>2
      <4>6. Len(QueuedBy(box[m])) \in Nat BY QueuedIs
      <4>7. Len(jobs') <= 1 BY <3>1, <4>3, <4>4, <4>6
      <4>8. QED BY <2>1, <2>2, <3>1, <4>1, <4>5, <4>7 DEF Room
    <3>3. CASE ~(box'["B"].cmd = "C6" /\ In(arrived, "B"))
      BY <2>1, <3>1, <3>3 DEF Room
    <3>4. QED BY <3>2, <3>3
  <2>8. QED BY <2>6, <2>7
<1>5. CASE JobEnd
  <2>1. jobs # <<>> BY <1>5 DEF JobEnd, Types
  <2>2. jobs' = Tail(jobs) /\ UNCHANGED <<box, arrived, waiting>>
    BY <1>5 DEF JobEnd
  <2>3. Len(jobs') = Len(jobs) - 1 /\ Len(jobs) >= 1
    BY <2>1, <2>2 DEF Types
  <2>4. Len(jobs) <= 1 => Len(jobs') <= 1 /\ Len(jobs') # 1
    BY <1>0, <2>3
  <2>5. Len(jobs) <= JobRoom => Len(jobs') <= JobRoom BY <1>0, <2>3
  <2>6. QED BY <2>2, <2>4, <2>5 DEF Room
<1>6. CASE UNCHANGED <<box, arrived, waiting, jobs>> BY <1>6 DEF Room
<1>7. Idle15 \/ Store \/ JobRun \/ JobFail \/ Others \/ UNCHANGED vars
        => UNCHANGED <<box, arrived, waiting, jobs>>
  BY DEF Idle15, Store, JobRun, JobFail, Others, ItemStart, ItemEnd, TakeDone,
         BelowWrite, PacketTaken, vars
<1>8. QED BY <1>1, <1>2, <1>3, <1>4, <1>5, <1>6, <1>7 DEF Next, Others
-----------------------------------------------------------------------------
LEMMA InvInit == Init => Inv
<1> SUFFICES ASSUME Init PROVE Inv OBVIOUS
<1>1. Types BY TypesInit
<1>2. DOMAIN arrived = {} /\ DOMAIN waiting = {} /\ Len(jobs) = 0 BY DEF Init
<1>3. \A m : ~In(arrived, m) /\ ~In(waiting, m) BY <1>2 DEF In
<1>4. Mail BY <1>2, <1>3 DEF Init, Mail, Once
<1>5. Word BY <1>3 DEF Init, Word, Decided, Mailboxes
<1>6. Work BY DEF Init, Work, Storing
<1>7. Room BY <1>2, <1>3, DispatcherAssumption DEF Room
<1>8. QED BY <1>1, <1>4, <1>5, <1>6, <1>7 DEF Inv

THEOREM Invariant == Spec => []Inv
<1>1. Inv /\ [Next]_vars => Inv'
  BY TypesKept, MailKept, WordKept, WorkKept, RoomKept DEF Inv
<1>2. QED BY InvInit, <1>1, PTL DEF Spec

\* No queue goes past its room, whatever is posted, held and refused: two
\* mailboxes make two posts, items are counted before they are pushed, and the
\* job queue's gates hold also for C6, which has none.
THEOREM TypeCorrect == Spec => []TypeOK
<1>1. Inv => TypeOK
  <2> SUFFICES ASSUME Inv PROVE TypeOK OBVIOUS
  <2>1. Len(arrived) <= 2 /\ Len(waiting) <= 2
    BY TwoAtMost DEF Inv, Types, Mail
  <2>2. ASSUME NEW m \in Mailboxes PROVE box[m].cmd \in Commands[m] \cup {"none"}
    <3>1. box[m] \in Posted(m) \cup {NoPost} BY DEF Inv, Types
    <3>2. NoPost.cmd = "none" BY DEF NoPost
    <3>3. CASE box[m] \in Posted(m) BY <3>3, PostIs
    <3>4. CASE box[m] = NoPost BY <3>2, <3>4
    <3>5. QED BY <3>1, <3>3, <3>4
  <2>3. QED BY <2>1, <2>2 DEF Inv, Types, Room, TypeOK
<1>2. QED BY <1>1, Invariant, PTL

\* The verdict of a mailbox's last request stands in its refusal bit when the
\* mailbox reads 0 (disp.c's entry and refusals, song_oeq.c's held posts,
\* status.c's section).
THEOREM VerdictIsShown == Spec => []VerdictShown
<1>1. Inv => VerdictShown
  <2> SUFFICES ASSUME Inv, NEW m \in Mailboxes, box[m] = NoPost,
                      verdict[m] # "none"
               PROVE  Refusal(m) \in fe6 <=> verdict[m] = "refused"
    BY DEF VerdictShown
  <2>1. Decided(m) BY DEF Inv, Mail, Decided
  <2>2. QED BY <2>1 DEF Inv, Word
<1>2. QED BY <1>1, Invariant, PTL

\* Bit 14 stands while a job is queued or runs, and bit 8 tells a lone post
\* whether a job of it failed, once bit 14 is clear (jobs.c's step,
\* disp_job_queued).
THEOREM JobsAreShown == Spec => []JobsShown
<1>1. Inv => JobsShown
  <2> SUFFICES ASSUME Inv PROVE JobsShown OBVIOUS
  <2> SUFFICES ASSUME 14 \notin fe6, alone PROVE 8 \in fe6 <=> failed
    <3>1. failed \in BOOLEAN BY DEF Inv, Types
    <3>2. QED BY <3>1 DEF JobsShown, Inv, Work
  <2>1. jobs = <<>> BY DEF Inv, Work
  <2>2. step = "idle" BY <2>1 DEF Inv, Types
  <2>3. QED BY <2>2 DEF Inv, Work
<1>2. QED BY <1>1, Invariant, PTL
-----------------------------------------------------------------------------
\* Where the overlay runs, and where it unpacks.
OverlayPcs == {"map", "check", "unpack", "put", "verify", "crc", "body",
               "magic", "readback", "sfx", "copying", "curve", "tell"}
UnpackPcs == {"unpack", "put", "verify", "crc", "body", "magic", "readback"}

\* The image is whole and of stream r.
ImageIs(r) ==
  r \in Roms /\ LooksKept(hdr) /\ hdr.body = r /\ bank = WholeOf(r)

Where ==
  /\ pc # "off" => rom \in Games
  /\ pc \in OverlayPcs => ~valid /\ overlay
  /\ pc \in UnpackPcs \cup {"check"} => rom \in Roms
  /\ pc \in {"map", "check", "unpack"} => next = 1
  /\ pc = "put" => next <= N
  /\ left.faults <= Faults
Sound ==
  /\ pc \in {"crc", "body", "magic", "readback"} => bank = WholeOf(rom)
  /\ pc \in {"sfx", "copying", "curve", "tell"} /\ ~why => ImageIs(rom)
  /\ pc \in {"curve", "tell"} => SfxCopied
  /\ pc = "tell" => CurveWritten
  /\ pc \in {"crt0", "game"} => deep \/ SoundWritten
  /\ pc # "off" /\ ~overlay => deep \/ SoundWritten
Cut ==
  /\ ~StoreLost /\ pc \in UnpackPcs \ {"unpack", "readback"} =>
       ~hdr.magic
  /\ ~StoreLost /\ pc = "magic" => hdr.body = rom
Card ==
  /\ own = NoRom \/ /\ own \in Roms /\ file.size = "whole"
                    /\ LooksKept(file.hdr) /\ file.hdr.body = own
                    /\ file.bank = WholeOf(own)
  /\ flush > 0 => pc # "off"
  /\ flush > 1 => valid
  /\ flush > 2 => copy.hdr = hdr
  /\ \A b \in Blocks : b + 2 < flush => copy.bank[b] = bank[b]
  /\ kept = rom /\ rom # NoRom => ~unpacked /\ Passes /\ pc \notin UnpackPcs

BootInv ==
  /\ BootTypeOK /\ Where /\ Sound /\ CacheSound
  /\ Cut /\ CutNeverLooksKept /\ Card

\* The empty header, bank and file are of their types.
LEMMA NoFileTypes == NoHdr \in Headers /\ NoBank \in Banks /\ NoFile \in Files
<1>1. NoHdr \in Headers BY DEF NoHdr, Headers
<1>2. NoBank \in Banks BY DEF NoBank, Banks
<1>3. QED BY <1>1, <1>2 DEF NoFile, Files

\* A file's parts are of their types.
LEMMA FileTypes ==
  ASSUME NEW f \in Files
  PROVE  f.hdr \in Headers /\ f.bank \in Banks /\ f.size \in {"none", "whole",
  "short"}
BY DEF Files

\* A file with one part replaced is a file.
LEMMA FileParts ==
  ASSUME NEW f \in Files, NEW s \in {"none", "whole", "short"},
  NEW h \in Headers,
         NEW b \in Blocks, NEW x \in Roms \cup {Nothing}
  PROVE  /\ [f EXCEPT !.size = s] \in Files /\ [f EXCEPT !.hdr = h] \in Files
         /\ [f EXCEPT !.bank[b] = x] \in Files
         /\ [f EXCEPT !.hdr.magic = FALSE] \in Files
<1>1. [f EXCEPT !.size = s] \in Files /\ [f EXCEPT !.hdr = h] \in Files
  BY DEF Files
<1>2. [f.bank EXCEPT ![b] = x] \in Banks
  BY DEF Files, Banks
<1>3. [f EXCEPT !.bank[b] = x] \in Files
  BY <1>2 DEF Files
<1>4. [f.hdr EXCEPT !.magic = FALSE] \in Headers
  BY DEF Files, Headers
<1>5. [f EXCEPT !.hdr.magic = FALSE] \in Files
  BY <1>4 DEF Files
<1>6. QED BY <1>1, <1>3, <1>5

\* The initial state's types.
LEMMA TypeInit == BootInit => BootTypeOK
<1>1. SUFFICES ASSUME BootInit PROVE BootTypeOK OBVIOUS
<1>2. left \in [powers : Nat, resets : Nat, faults : Nat]
  BY <1>1, BootAssumption DEF BootInit
<1>3. hdr \in Headers /\ bank \in Banks /\ file \in Files /\ copy \in Files
  BY <1>1, NoFileTypes DEF BootInit
<1>4. next \in 1..(N + 1) /\ flush \in 0..(N + 3) /\ pc \in Pcs
  BY <1>1, BootAssumption DEF BootInit, Pcs
<1>5. QED
  BY <1>1, <1>2, <1>3, <1>4 DEF BootInit, BootTypeOK

\* The initial state.
LEMMA BootInvInit == BootInit => BootInv
<1>1. SUFFICES ASSUME BootInit PROVE BootInv OBVIOUS
<1>2. BootTypeOK BY <1>1, TypeInit
<1>3. Where /\ Cut
  BY <1>1, BootAssumption DEF BootInit, Where, Cut, OverlayPcs, UnpackPcs
<1>4. Sound /\ CacheSound /\ CutNeverLooksKept
  BY <1>1 DEF BootInit, Sound, CacheSound, CutNeverLooksKept
<1>5. Card
  BY <1>1, BootAssumption DEF BootInit, Card, Blocks
<1> QED BY <1>2, <1>3, <1>4, <1>5 DEF BootInv

\* Every step keeps the types.
LEMMA TypeStep ==
  BootTypeOK /\ Where /\ CacheSound /\ Card /\ [BootNext]_bootVars =>
    BootTypeOK'
<1> SUFFICES ASSUME BootTypeOK, Where, CacheSound, Card, [BootNext]_bootVars PROVE BootTypeOK'
  OBVIOUS
<1>0. deep' = deep
  BY DEF BootNext, bootVars
<1> USE BootAssumption, <1>0
<1>a. CASE PowerOn
  <2>1. PICK r \in Games, miss \in Blocks \cup {0} :
        PowerOn!(r, miss)
    BY <1>a DEF PowerOn
  <2>2. hdr' \in Headers /\ loaded' \in {"none", "whole", "short"}
      /\ file.bank \in Banks
    BY <2>1, FileTypes DEF BootTypeOK
  <2>3. bank' \in Banks
    BY <2>1, <2>2 DEF Banks
  <2>4. left' \in [powers : Nat, resets : Nat, faults : Nat]
    BY <2>1 DEF BootTypeOK
  <2>5. /\ pc' \in Pcs /\ rom' \in Games \cup {NoRom} /\ next' \in 1..(N + 1)
        /\ sfx' \in Games \cup {Nothing, Torn} /\ kept' \in Roms \cup {NoRom}
        /\ lost' \in BOOLEAN
    BY <2>1 DEF BootTypeOK, Pcs
  <2>6. QED
    BY <2>1, <2>2, <2>3, <2>4, <2>5 DEF BootTypeOK, card
<1>b. CASE Stub
  <2>1. pc' \in Pcs /\ next' \in 1..(N + 1)
    BY <1>b DEF Stub, Pcs
  <2>2. UNCHANGED <<rom, cram, valid, loaded, lost, overlay, card, kept,
                    unpacked, left>> /\ why' = FALSE
    BY <1>b DEF Stub
  <2>3. UNCHANGED <<file, copy, flush, own, hdr, bank, sfx, curve>>
    BY <2>2 DEF card, cram
  <2>4. /\ valid' \in BOOLEAN /\ lost' \in BOOLEAN /\ overlay' \in BOOLEAN
        /\ why' \in BOOLEAN /\ unpacked' \in BOOLEAN /\ deep' \in BOOLEAN
    BY <2>2 DEF BootTypeOK
  <2>5. UNCHANGED <<rom, loaded, kept, left>>
    BY <2>2
  <2>6. QED
    BY <2>1, <2>3, <2>4, <2>5 DEF BootTypeOK
<1>c. CASE Overlay
  <2>1. CASE StackGuard \/ Map
    BY <2>1 DEF StackGuard, Map, Quietly, BootTypeOK, Pcs, card, cram
  <2>2. CASE CheckFile
    BY <2>2 DEF CheckFile, Quietly, BootTypeOK, Pcs, card, cram, Blocks
  <2>3. CASE UnpackStart
    <3>1. left' \in [powers : Nat, resets : Nat, faults : Nat]
      BY <2>3 DEF UnpackStart, Lands, BootTypeOK
    <3>2. hdr' \in Headers
      BY <2>3 DEF UnpackStart, BootTypeOK, Headers
    <3>3. QED
      BY <2>3, <3>1, <3>2 DEF UnpackStart, BootTypeOK, Pcs, card
  <2>4. CASE Put
    <3>1. left' \in [powers : Nat, resets : Nat, faults : Nat]
      BY <2>4 DEF Put, PutBlock, Lands, BootTypeOK
    <3>2. rom \in Roms /\ next \in 1..N
      BY <2>4 DEF Put, PutBlock, Where, UnpackPcs, BootTypeOK
    <3>3. bank' \in Banks
      BY <2>4, <3>2 DEF Put, PutBlock, Decoded, BootTypeOK, Banks, Blocks
    <3>4. next' \in 1..(N + 1)
      BY <2>4, <3>2 DEF Put, PutBlock
    <3>5. QED
      BY <2>4, <3>1, <3>3, <3>4 DEF Put, PutBlock, BootTypeOK, Pcs, card
  <2>5. CASE Verify
    BY <2>5 DEF Verify, Verified, Quietly, BootTypeOK, Pcs, card, cram
  <2>6. CASE HdrCrc \/ HdrBody \/ HdrMagic
    <3>1. left' \in [powers : Nat, resets : Nat, faults : Nat]
      BY <2>6 DEF HdrCrc, HdrBody, HdrMagic, HdrStore, Lands, BootTypeOK
    <3>2. rom \in Roms
      BY <2>6 DEF HdrCrc, HdrBody, HdrMagic, HdrStore, Where, UnpackPcs
    <3>3. hdr' \in Headers
      BY <2>6, <3>2 DEF HdrCrc, HdrBody, HdrMagic, HdrStore, BootTypeOK, Headers
    <3>4. QED
      BY <2>6, <3>1, <3>3
         DEF HdrCrc, HdrBody, HdrMagic, HdrStore, BootTypeOK, Pcs, card
  <2>9. CASE ReadBack BY <2>9 DEF ReadBack, Quietly, BootTypeOK, Pcs, card, cram
  <2>10. CASE SfxStart BY <2>10 DEF SfxStart, Quietly, BootTypeOK, Pcs, card, cram
  <2>11. CASE SfxEnd
    <3>1. left' \in [powers : Nat, resets : Nat, faults : Nat]
      BY <2>11 DEF SfxEnd, Lands, BootTypeOK
    <3>2. rom \in Games
      BY <2>11 DEF SfxEnd, Where
    <3>3. QED
      BY <2>11, <3>1, <3>2 DEF SfxEnd, BootTypeOK, Pcs, card
  <2>12. CASE CurveWrite
    <3>1. left' \in [powers : Nat, resets : Nat, faults : Nat]
      BY <2>12 DEF CurveWrite, Lands, BootTypeOK
    <3>2. QED
      BY <2>12, <3>1 DEF CurveWrite, BootTypeOK, Pcs, card
  <2>13. CASE Tell BY <2>13 DEF Tell, Quietly, BootTypeOK, Pcs, card, cram
  <2> QED
    BY <1>c, <2>1, <2>2, <2>3, <2>4, <2>5, <2>6, <2>9, <2>10, <2>11, <2>12,
       <2>13
       DEF Overlay, Unpack
<1>d. CASE Crt0
  <2>1. /\ pc' \in Pcs /\ overlay' = FALSE
        /\ UNCHANGED <<rom, cram, valid, loaded, lost, next, why, card, kept,
                      unpacked, left>>
    BY <1>d DEF Crt0, Pcs
  <2>2. UNCHANGED <<file, copy, flush, own, hdr, bank, sfx, curve>>
    BY <2>1 DEF card, cram
  <2>3. /\ valid' \in BOOLEAN /\ lost' \in BOOLEAN /\ overlay' \in BOOLEAN
        /\ why' \in BOOLEAN /\ unpacked' \in BOOLEAN /\ deep' \in BOOLEAN
    BY <2>1 DEF BootTypeOK
  <2>4. pc' \in Pcs /\ UNCHANGED <<rom, loaded, next, kept, left>>
    BY <2>1
  <2>5. QED
    BY <2>2, <2>3, <2>4 DEF BootTypeOK
<1>e. CASE Reset \/ Quit
  <2>1. left' \in [powers : Nat, resets : Nat, faults : Nat]
    BY <1>e DEF Reset, Quit, Restart, BootTypeOK
  <2>2. QED
    BY <1>e, <2>1 DEF Reset, Quit, Restart, BootTypeOK, Pcs, card, cram
<1>f. CASE FlushSize
  BY <1>f, NoFileTypes DEF FlushSize, PowerOff, Boots, BootTypeOK, Pcs, cram
<1>g. CASE FlushWord
  <2>1. flush - 2 \in Blocks \/ flush = 2
    BY <1>g DEF FlushWord, Blocks
  <2>2. \A b \in Blocks : bank[b] \in Roms \cup {Nothing}
    BY DEF BootTypeOK, Banks
  <2>3. copy' \in Files
    <3>1. CASE flush = 2
      BY <1>g, <3>1 DEF FlushWord, BootTypeOK, Files
    <3>2. CASE flush # 2
      <4>1. copy \in Files /\ hdr \in Headers
        BY DEF BootTypeOK
      <4>2. copy' = [copy EXCEPT !.bank[flush - 2] = bank[flush - 2]]
        BY <1>g, <3>2 DEF FlushWord
      <4>3. QED
        BY <2>1, <2>2, <3>2, <4>1, <4>2, FileParts
    <3>3. QED
      BY <3>1, <3>2
  <2>4. QED
    BY <1>g, <2>3 DEF FlushWord, Boots, BootTypeOK, cram
<1>h. CASE FlushEnd
  <2>1. file' \in Files
    BY <1>h DEF FlushEnd, BootTypeOK, Files
  <2>2. own' \in Roms
    BY <1>h DEF FlushEnd, Card, CacheSound, BootTypeOK
  <2>3. QED
    BY <1>h, <2>1, <2>2 DEF FlushEnd, PowerOff, Boots, BootTypeOK, Pcs, cram
<1>i. CASE PowerCut
  <2>1. file' \in Files
    BY <1>i DEF PowerCut, BootTypeOK, Files
  <2>2. QED
    BY <1>i, <2>1 DEF PowerCut, PowerOff, Boots, BootTypeOK, Pcs, cram
<1>j. CASE Damage
  <2>1. N \in Blocks
    BY DEF Blocks
  <2>2. file' \in Files
    <3>1. CASE file' = [file EXCEPT !.size = "short", !.bank[N] = Nothing]
      <4>1. [file EXCEPT !.size = "short"] \in Files
        BY DEF BootTypeOK, Files
      <4>2. [file EXCEPT !.size = "short", !.bank[N] = Nothing]
              = [[file EXCEPT !.size = "short"] EXCEPT !.bank[N] = Nothing]
        BY DEF BootTypeOK, Files
      <4>3. QED
        BY <2>1, <3>1, <4>1, <4>2, FileParts DEF BootTypeOK
    <3>2. CASE file' = [file EXCEPT !.hdr.magic = FALSE]
      <4>1. file \in Files /\ file.hdr \in Headers
        BY FileTypes DEF BootTypeOK
      <4>2. QED
        BY <2>1, <3>2, <4>1, FileParts
    <3>3. CASE \E b \in Blocks, r \in Roms \cup {Nothing} :
                 file' = [file EXCEPT !.bank[b] = r]
      <4>1. file \in Files /\ file.hdr \in Headers
        BY FileTypes DEF BootTypeOK
      <4>2. PICK b \in Blocks, r \in Roms \cup {Nothing} :
              file' = [file EXCEPT !.bank[b] = r]
        BY <3>3
      <4>3. QED
        BY <4>1, <4>2, FileParts
    <3>4. QED
      BY <1>j, <3>1, <3>2, <3>3 DEF Damage
  <2>3. QED
    BY <1>j, <2>2 DEF Damage, Boots, BootTypeOK, cram
<1>k. CASE UNCHANGED bootVars
  BY <1>k DEF bootVars, BootTypeOK, card, cram
<1> QED
  BY <1>a, <1>b, <1>c, <1>d, <1>e, <1>f, <1>g, <1>h, <1>i, <1>j, <1>k
     DEF BootNext, Mcu, Pocket

\* Where the boot is, and what is known there.
LEMMA WhereStep == BootTypeOK /\ Where /\ CacheSound /\ [BootNext]_bootVars => Where'
<1> SUFFICES ASSUME BootTypeOK, Where, CacheSound, [BootNext]_bootVars PROVE Where'
  OBVIOUS
<1> USE BootAssumption DEF Where, BootTypeOK, OverlayPcs, UnpackPcs
<1>1. CASE PowerOn
  BY <1>1 DEF PowerOn, card
<1>2. CASE Stub
  BY <1>2 DEF Stub, cram, card
<1>3. CASE StackGuard \/ Map
  BY <1>3 DEF StackGuard, Map, Quietly, cram, card
<1>4. CASE CheckFile
  BY <1>4 DEF CheckFile, Quietly, cram, card
<1>5. CASE UnpackStart
  BY <1>5 DEF UnpackStart, Lands, card
<1>6. CASE Put
  BY <1>6 DEF Put, PutBlock, Lands, card
<1>7. CASE Verify
  BY <1>7 DEF Verify, Verified, Quietly, cram, card
<1>8. CASE HdrCrc
  BY <1>8 DEF HdrCrc, HdrStore, Lands, card
<1>9. CASE HdrBody
  BY <1>9 DEF HdrBody, HdrStore, Lands, card
<1>10. CASE HdrMagic
  BY <1>10 DEF HdrMagic, HdrStore, Lands, card
<1>11. CASE ReadBack
  BY <1>11 DEF ReadBack, Quietly, cram, card
<1>12. CASE SfxStart
  BY <1>12 DEF SfxStart, Quietly, cram, card
<1>13. CASE SfxEnd
  BY <1>13 DEF SfxEnd, Lands, card
<1>14. CASE CurveWrite
  BY <1>14 DEF CurveWrite, Lands, card
<1>15. CASE Tell
  BY <1>15 DEF Tell, cram, card
<1>16. CASE Crt0
  BY <1>16 DEF Crt0, cram, card
<1>17. CASE Reset \/ Quit
  BY <1>17 DEF Reset, Quit, Restart, cram, card
<1>18. CASE FlushSize
  BY <1>18 DEF FlushSize, PowerOff, Boots, cram
<1>19. CASE FlushWord
  BY <1>19 DEF FlushWord, Boots, cram
<1>20. CASE FlushEnd
  BY <1>20 DEF FlushEnd, PowerOff, Boots, cram
<1>21. CASE PowerCut
  BY <1>21 DEF PowerCut, PowerOff, Boots, cram
<1>22. CASE Damage
  BY <1>22 DEF Damage, Boots, cram
<1>23. CASE UNCHANGED bootVars
  BY <1>23 DEF bootVars, cram, card
<1> QED
  BY <1>1, <1>2, <1>3, <1>4, <1>5, <1>6, <1>7, <1>8, <1>9, <1>10, <1>11,
  <1>12, <1>13, <1>14, <1>15, <1>16, <1>17, <1>18, <1>19, <1>20, <1>21, <1>22,
      <1>23
     DEF BootNext, Mcu, Pocket, Overlay, Unpack

\* After a step that may lose its store, no loss yet means that it landed.
LEMMA LandsHere ==
  ASSUME BootTypeOK, Where, NEW here \in BOOLEAN, Lands(here), ~StoreLost'
  PROVE  here /\ ~StoreLost
<1>1. left \in [powers : Nat, resets : Nat, faults : Nat]
    /\ left.faults <= Faults
  BY DEF BootTypeOK, Where
<1>2. CASE ~here
  <2>1. left'.faults = left.faults - 1
    BY <1>1, <1>2 DEF Lands
  <2>2. QED
    BY <1>1, <2>1, BootAssumption DEF StoreLost
<1>3. CASE here
  BY <1>3 DEF Lands, StoreLost
<1>4. QED
  BY <1>2, <1>3

\* What each step of the boot has put in CRAM.
LEMMA SoundStep ==
  BootTypeOK /\ Where /\ Sound /\ CacheSound /\ [BootNext]_bootVars =>
    Sound' /\ CacheSound'
<1> SUFFICES ASSUME BootTypeOK, Where, Sound, CacheSound, [BootNext]_bootVars
           PROVE Sound' /\ CacheSound'
  OBVIOUS
<1>0. deep' = deep
  BY DEF BootNext, bootVars
<1> USE BootAssumption, <1>0 DEF Where, Sound, CacheSound, SoundWritten, SfxCopied,
    CurveWritten, StoreLost, ImageIs, LooksKept, OverlayPcs, UnpackPcs
<1>1. CASE PowerOn
  BY <1>1 DEF PowerOn, card
<1>2. CASE Stub
  BY <1>2 DEF Stub, cram, card
<1>3. CASE StackGuard \/ Map
  <2>1. CASE StackGuard
    BY <2>1 DEF StackGuard, Quietly, cram, card
  <2>2. CASE Map
    BY <2>2 DEF Map, Quietly, cram, card
  <2>3. QED
    BY <1>3, <2>1, <2>2
<1>4. CASE CheckFile
  BY <1>4 DEF CheckFile, Quietly, cram, card, Passes, WholeOf
<1>5. CASE UnpackStart
  BY <1>5 DEF UnpackStart, Lands, card
<1>6. CASE Put
  BY <1>6 DEF Put, PutBlock, Lands, card
<1>7. CASE Verify
  BY <1>7 DEF Verify, Verified, Quietly, cram, card
<1>8. CASE HdrCrc
  BY <1>8 DEF HdrCrc, HdrStore, Lands, card
<1>9. CASE HdrBody
  BY <1>9 DEF HdrBody, HdrStore, Lands, card
<1>10. CASE HdrMagic
  BY <1>10 DEF HdrMagic, HdrStore, Lands, card
<1>11. CASE ReadBack
  <2>1. ~why' => hdr.magic /\ hdr.body = rom /\ hdr.crc = rom
    <3>1. CASE hdr = [magic |-> TRUE, body |-> rom, crc |-> rom]
      BY <3>1
    <3>2. CASE hdr # [magic |-> TRUE, body |-> rom, crc |-> rom]
      BY <1>11, <3>2 DEF ReadBack
    <3>3. QED
      BY <3>1, <3>2
  <2>2. rom \in Roms /\ rom # Nothing /\ bank = WholeOf(rom)
    BY <1>11 DEF ReadBack, Quietly
  <2>3. QED
    BY <1>11, <2>1, <2>2 DEF ReadBack, Quietly, cram, card, WholeOf
<1>12. CASE SfxStart
  BY <1>12 DEF SfxStart, Quietly, cram, card
<1>13. CASE SfxEnd
  <2>1. PICK here \in BOOLEAN :
        Lands(here) /\ pc = "copying" /\ pc' = "curve" /\ rom' = rom
        /\ sfx' = IF here \/ sfx = rom THEN rom ELSE Torn
    BY <1>13 DEF SfxEnd
  <2>2. ~here => StoreLost'
    BY <2>1, LandsHere
  <2>3. SfxCopied'
    BY <2>1, <2>2
  <2>4. QED
    BY <1>13, <2>1, <2>3 DEF SfxEnd, card
<1>14. CASE CurveWrite
  <2>1. PICK here \in BOOLEAN : CurveWrite!(here)
    BY <1>14 DEF CurveWrite
  <2>2. (~here => StoreLost') /\ (StoreLost => StoreLost')
    BY <2>1, LandsHere
  <2>3. SfxCopied'
    BY <2>1, <2>2
  <2>4. CurveWritten'
    BY <2>1, <2>2
  <2>5. pc' = "tell" /\ ~valid' /\ overlay' /\ rom' = rom /\ why' = why
    BY <2>1
  <2>6. UNCHANGED <<hdr, bank>>
    BY <2>1
  <2>7. QED
    BY <2>1, <2>3, <2>4, <2>5, <2>6
<1>15. CASE Tell
  BY <1>15 DEF Tell, cram, card
<1>16. CASE Crt0
  BY <1>16 DEF Crt0, cram, card
<1>17. CASE Reset \/ Quit
  <2>1. /\ left'.faults = left.faults /\ pc' = "stub" /\ pc # "off"
        /\ UNCHANGED <<rom, hdr, bank, sfx, curve, valid, overlay, why>>
    BY <1>17 DEF Reset, Quit, Restart, cram, BootTypeOK
  <2>2. overlay \/ deep \/ SoundWritten
    BY <2>1
  <2>3. overlay' \/ deep' \/ SoundWritten'
    BY <2>1, <2>2
  <2>4. QED
    BY <2>1, <2>3
<1>18. CASE FlushSize
  BY <1>18 DEF FlushSize, PowerOff, Boots, cram
<1>19. CASE FlushWord
  BY <1>19 DEF FlushWord, Boots, cram
<1>20. CASE FlushEnd
  BY <1>20 DEF FlushEnd, PowerOff, Boots, cram
<1>21. CASE PowerCut
  BY <1>21 DEF PowerCut, PowerOff, Boots, cram
<1>22. CASE Damage
  BY <1>22 DEF Damage, Boots, cram
<1>23. CASE UNCHANGED bootVars
  BY <1>23 DEF bootVars, cram, card
<1> QED
  BY <1>1, <1>2, <1>3, <1>4, <1>5, <1>6, <1>7, <1>8, <1>9, <1>10, <1>11,
  <1>12, <1>13, <1>14, <1>15, <1>16, <1>17, <1>18, <1>19, <1>20, <1>21, <1>22,
      <1>23
     DEF BootNext, Mcu, Pocket, Overlay, Unpack

\* An unpack's header, while every store landed.
LEMMA CutStep ==
  BootTypeOK /\ Where /\ Sound /\ Cut /\ CutNeverLooksKept /\ [BootNext]_bootVars =>
    Cut' /\ CutNeverLooksKept'
<1> SUFFICES ASSUME BootTypeOK, Where, Sound, Cut, CutNeverLooksKept, [BootNext]_bootVars
           PROVE Cut' /\ CutNeverLooksKept'
  OBVIOUS
<1> USE BootAssumption DEF Where, Sound, Cut, CutNeverLooksKept, StoreLost, LooksKept,
    OverlayPcs, UnpackPcs
<1>1. CASE PowerOn
  BY <1>1 DEF PowerOn, card
<1>2. CASE Stub
  BY <1>2 DEF Stub, cram, card
<1>3. CASE StackGuard \/ Map
  BY <1>3 DEF StackGuard, Map, Quietly, cram, card
<1>4. CASE CheckFile
  BY <1>4 DEF CheckFile, Quietly, cram, card
<1>5. CASE UnpackStart
  <2>1. PICK here \in BOOLEAN : Lands(here) /\ pc' = "put"
        /\ hdr' = IF here THEN [hdr EXCEPT !.magic = FALSE] ELSE hdr
    BY <1>5 DEF UnpackStart
  <2>2. ~StoreLost' => here /\ ~StoreLost
    BY <2>1, LandsHere
  <2>3. hdr \in Headers
    BY DEF BootTypeOK
  <2>4. Cut'
    BY <2>1, <2>2, <2>3 DEF Headers
  <2>5. CutNeverLooksKept'
    BY <2>1, <2>2, <2>3 DEF Headers, WholeOf
  <2>6. QED
    BY <2>4, <2>5
<1>6. CASE Put
  <2>1. PICK here \in BOOLEAN :
        Lands(here) /\ pc = "put" /\ pc' \in {"put", "verify"} /\ hdr' = hdr
    BY <1>6 DEF Put, PutBlock
  <2>2. ~StoreLost' => here /\ ~StoreLost
    BY <2>1, LandsHere
  <2>3. QED
    BY <2>1, <2>2
<1>7. CASE Verify
  BY <1>7 DEF Verify, Verified, Quietly, cram, card
<1>8. CASE HdrCrc
  <2>1. PICK here \in BOOLEAN :
        Lands(here) /\ pc = "crc" /\ pc' = "body" /\ bank' = bank /\ rom' = rom
        /\ unpacked' = unpacked
        /\ hdr' = IF here THEN [hdr EXCEPT !.crc = rom] ELSE hdr
    BY <1>8 DEF HdrCrc, HdrStore
  <2>2. ~StoreLost' => here /\ ~StoreLost
    BY <2>1, LandsHere
  <2>3. hdr \in Headers
    BY DEF BootTypeOK
  <2>4. Cut'
    BY <2>1, <2>2, <2>3 DEF Headers
  <2>5. CutNeverLooksKept'
    BY <2>1, <2>2, <2>3 DEF Headers, WholeOf
  <2>6. QED
    BY <2>4, <2>5
<1>9. CASE HdrBody
  <2>1. PICK here \in BOOLEAN :
        Lands(here) /\ pc = "body" /\ pc' = "magic" /\ bank' = bank
        /\ rom' = rom
        /\ unpacked' = unpacked
        /\ hdr' = IF here THEN [hdr EXCEPT !.body = rom] ELSE hdr
    BY <1>9 DEF HdrBody, HdrStore
  <2>2. ~StoreLost' => here /\ ~StoreLost
    BY <2>1, LandsHere
  <2>3. hdr \in Headers
    BY DEF BootTypeOK
  <2>4. Cut'
    BY <2>1, <2>2, <2>3 DEF Headers
  <2>5. CutNeverLooksKept'
    BY <2>1, <2>2, <2>3 DEF Headers, WholeOf
  <2>6. QED
    BY <2>4, <2>5
<1>10. CASE HdrMagic
  <2>1. PICK here \in BOOLEAN :
        Lands(here) /\ pc = "magic" /\ pc' = "readback" /\ bank' = bank
        /\ rom' = rom
        /\ unpacked' = unpacked
        /\ hdr' = IF here THEN [hdr EXCEPT !.magic = TRUE] ELSE hdr
    BY <1>10 DEF HdrMagic, HdrStore
  <2>2. ~StoreLost' => here /\ ~StoreLost
    BY <2>1, LandsHere
  <2>3. hdr \in Headers
    BY DEF BootTypeOK
  <2>4. Cut'
    BY <2>1, <2>2, <2>3 DEF Headers
  <2>5. CutNeverLooksKept'
    BY <2>1, <2>2, <2>3 DEF Headers, WholeOf
  <2>6. QED
    BY <2>4, <2>5
<1>11. CASE ReadBack
  BY <1>11 DEF ReadBack, Quietly, cram, card
<1>12. CASE SfxStart
  BY <1>12 DEF SfxStart, Quietly, cram, card
<1>13. CASE SfxEnd
  <2>1. PICK here \in BOOLEAN : Lands(here) /\ pc' = "curve"
    BY <1>13 DEF SfxEnd
  <2>2. ~StoreLost' => ~StoreLost
    BY <2>1, LandsHere
  <2>3. QED
    BY <1>13, <2>1, <2>2 DEF SfxEnd
<1>14. CASE CurveWrite
  <2>1. PICK here \in BOOLEAN : Lands(here) /\ pc' = "tell"
    BY <1>14 DEF CurveWrite
  <2>2. ~StoreLost' => ~StoreLost
    BY <2>1, LandsHere
  <2>3. QED
    BY <1>14, <2>1, <2>2 DEF CurveWrite
<1>15. CASE Tell
  BY <1>15 DEF Tell, cram, card
<1>16. CASE Crt0
  BY <1>16 DEF Crt0, cram, card
<1>17. CASE Reset \/ Quit
  <2>1. left'.faults = left.faults /\ pc' = "stub"
    BY <1>17 DEF Reset, Quit, Restart, BootTypeOK
  <2>2. QED
    BY <1>17, <2>1 DEF Reset, Quit, Restart, cram
<1>18. CASE FlushSize
  BY <1>18 DEF FlushSize, PowerOff, Boots, cram
<1>19. CASE FlushWord
  BY <1>19 DEF FlushWord, Boots, cram
<1>20. CASE FlushEnd
  BY <1>20 DEF FlushEnd, PowerOff, Boots, cram
<1>21. CASE PowerCut
  BY <1>21 DEF PowerCut, PowerOff, Boots, cram
<1>22. CASE Damage
  BY <1>22 DEF Damage, Boots, cram
<1>23. CASE UNCHANGED bootVars
  BY <1>23 DEF bootVars, cram, card
<1> QED
  BY <1>1, <1>2, <1>3, <1>4, <1>5, <1>6, <1>7, <1>8, <1>9, <1>10, <1>11,
  <1>12, <1>13, <1>14, <1>15, <1>16, <1>17, <1>18, <1>19, <1>20, <1>21, <1>22,
      <1>23
     DEF BootNext, Mcu, Pocket, Overlay, Unpack

\* The file on the card, and what was read of it.
LEMMA CardStep == BootTypeOK /\ Where /\ CacheSound /\ Card /\ [BootNext]_bootVars => Card'
<1> SUFFICES ASSUME BootTypeOK, Where, CacheSound, Card, [BootNext]_bootVars PROVE Card'
  OBVIOUS
<1> USE BootAssumption DEF Where, CacheSound, Card, Passes, LooksKept,
    OverlayPcs, UnpackPcs, Blocks
<1>1. CASE PowerOn
  <2>1. PICK r \in Games, miss \in Blocks \cup {0} :
        PowerOn!(r, miss)
    BY <1>1 DEF PowerOn
  <2>2. flush = 0 /\ flush' = 0 /\ file' = file /\ own' = own
    BY <2>1 DEF card, BootTypeOK
  <2>3. CASE miss = 0 /\ own = r /\ r # NoRom
    <3>1. /\ own \in Roms /\ file.bank = WholeOf(own)
          /\ LooksKept(file.hdr) /\ file.hdr.body = own
      BY <2>3
    <3>2. bank' = WholeOf(own)
      BY <2>1, <2>3, <3>1 DEF WholeOf
    <3>3. /\ hdr' = file.hdr /\ loaded' = "whole" /\ ~lost' /\ rom' = own
          /\ pc' = "stub" /\ ~unpacked'
      BY <2>1, <2>3, <3>1
    <3>4. own # Nothing /\ own \in Games
      BY <3>1 DEF Games
    <3>5. hdr'.magic /\ hdr'.body = own /\ hdr'.crc = own
      BY <3>1, <3>3
    <3>6. Passes'
      BY <3>2, <3>3, <3>4, <3>5 DEF WholeOf
    <3>7. pc' \notin UnpackPcs
      BY <3>3
    <3>8. QED
      BY <2>2, <3>1, <3>3, <3>6, <3>7
  <2>4. CASE ~(miss = 0 /\ own = r /\ r # NoRom)
    <3>1. kept' = rom' => rom' = NoRom
      BY <2>1, <2>4
    <3>2. QED
      BY <2>2, <3>1
  <2>5. QED
    BY <2>3, <2>4
<1>2. CASE Stub
  BY <1>2 DEF Stub, cram, card
<1>3. CASE StackGuard \/ Map
  BY <1>3 DEF StackGuard, Map, Quietly, cram, card
<1>4. CASE CheckFile
  BY <1>4 DEF CheckFile, Quietly, cram, card
<1>5. CASE UnpackStart
  <2>1. ~valid /\ pc \in UnpackPcs /\ pc' \in OverlayPcs /\ valid' = valid
      /\ kept' = kept
        /\ rom' = rom /\ file' = file /\ own' = own /\ flush' = flush
        /\ copy' = copy
    BY <1>5 DEF UnpackStart, card
  <2>2. flush <= 1 /\ flush \in Nat
    BY <2>1 DEF BootTypeOK
  <2>3. QED
    BY <2>1, <2>2
<1>6. CASE Put
  <2>1. ~valid /\ pc \in UnpackPcs /\ pc' \in OverlayPcs /\ valid' = valid
      /\ kept' = kept
        /\ rom' = rom /\ file' = file /\ own' = own /\ flush' = flush
        /\ copy' = copy
    BY <1>6 DEF Put, PutBlock, card
  <2>2. flush <= 1 /\ flush \in Nat
    BY <2>1 DEF BootTypeOK
  <2>3. QED
    BY <2>1, <2>2
<1>7. CASE Verify
  BY <1>7 DEF Verify, Verified, Quietly, cram, card
<1>8. CASE HdrCrc
  <2>1. ~valid /\ pc \in UnpackPcs /\ pc' \in OverlayPcs /\ valid' = valid
      /\ kept' = kept
        /\ rom' = rom /\ file' = file /\ own' = own /\ flush' = flush
        /\ copy' = copy
    BY <1>8 DEF HdrCrc, HdrStore, card
  <2>2. flush <= 1 /\ flush \in Nat
    BY <2>1 DEF BootTypeOK
  <2>3. QED
    BY <2>1, <2>2
<1>9. CASE HdrBody
  <2>1. ~valid /\ pc \in UnpackPcs /\ pc' \in OverlayPcs /\ valid' = valid
      /\ kept' = kept
        /\ rom' = rom /\ file' = file /\ own' = own /\ flush' = flush
        /\ copy' = copy
    BY <1>9 DEF HdrBody, HdrStore, card
  <2>2. flush <= 1 /\ flush \in Nat
    BY <2>1 DEF BootTypeOK
  <2>3. QED
    BY <2>1, <2>2
<1>10. CASE HdrMagic
  <2>1. ~valid /\ pc \in UnpackPcs /\ pc' \in OverlayPcs /\ valid' = valid
      /\ kept' = kept
        /\ rom' = rom /\ file' = file /\ own' = own /\ flush' = flush
        /\ copy' = copy
    BY <1>10 DEF HdrMagic, HdrStore, card
  <2>2. flush <= 1 /\ flush \in Nat
    BY <2>1 DEF BootTypeOK
  <2>3. QED
    BY <2>1, <2>2
<1>11. CASE ReadBack
  BY <1>11 DEF ReadBack, Quietly, cram, card
<1>12. CASE SfxStart
  BY <1>12 DEF SfxStart, Quietly, cram, card
<1>13. CASE SfxEnd
  BY <1>13 DEF SfxEnd, Lands, card
<1>14. CASE CurveWrite
  BY <1>14 DEF CurveWrite, Lands, card
<1>15. CASE Tell
  BY <1>15 DEF Tell, cram, card
<1>16. CASE Crt0
  BY <1>16 DEF Crt0, cram, card
<1>17. CASE Reset \/ Quit
  BY <1>17 DEF Reset, Quit, Restart, cram, card
<1>18. CASE FlushSize
  BY <1>18 DEF FlushSize, PowerOff, Boots, cram
<1>19. CASE FlushWord
  <2>1. valid /\ flush \in 2..(N + 2) /\ flush' = flush + 1 /\ pc' = pc
      /\ bank' = bank /\ hdr' = hdr
        /\ valid' = valid /\ file' = file /\ own' = own
    BY <1>19 DEF FlushWord, Boots, cram
  <2>2. copy \in Files
    BY DEF BootTypeOK
  <2>3. flush' > 2 => copy'.hdr = hdr
    BY <1>19, <2>1, <2>2 DEF FlushWord, Files
  <2>4. ASSUME NEW b \in Blocks, b + 2 < flush' PROVE copy'.bank[b] = bank[b]
    <3>1. CASE flush = 2
      BY <2>1, <2>4, <3>1
    <3>2. CASE flush # 2
      <4>1. copy' = [copy EXCEPT !.bank[flush - 2] = bank[flush - 2]]
          /\ flush - 2 \in Blocks
        BY <1>19, <2>1, <3>2 DEF FlushWord
      <4>2. copy'.bank = [copy.bank EXCEPT ![flush - 2] = bank[flush - 2]]
        BY <2>2, <4>1 DEF Files
      <4>3. copy.bank \in Banks
        BY <2>2, FileTypes
      <4>4. b = flush - 2 \/ b + 2 < flush
        BY <2>1, <2>4
      <4>5. QED
        BY <2>1, <4>1, <4>2, <4>3, <4>4 DEF Banks
    <3>3. QED
      BY <3>1, <3>2
  <2>5. kept' = rom' /\ rom' # NoRom => ~unpacked' /\ Passes'
      /\ pc' \notin UnpackPcs
    BY <1>19 DEF FlushWord, Boots, cram
  <2>6. pc # "off"
    BY <2>1
  <2>7. QED
    BY <2>1, <2>3, <2>4, <2>5, <2>6
<1>20. CASE FlushEnd
  <2>1. valid /\ copy.hdr = hdr /\ \A b \in Blocks : copy.bank[b] = bank[b]
    BY <1>20 DEF FlushEnd
  <2>2. copy \in Files /\ copy.bank \in Banks /\ bank \in Banks
    BY FileTypes DEF BootTypeOK
  <2>3. copy.bank = bank
    BY <2>1, <2>2 DEF Banks
  <2>4. file'.hdr = hdr /\ file'.bank = bank /\ file'.size = "whole"
    BY <1>20, <2>1, <2>2, <2>3 DEF FlushEnd, Files
  <2>5. QED
    BY <1>20, <2>1, <2>4 DEF FlushEnd, PowerOff, Boots, cram
<1>21. CASE PowerCut
  BY <1>21 DEF PowerCut, PowerOff, Boots, cram
<1>22. CASE Damage
  BY <1>22 DEF Damage, Boots, cram
<1>23. CASE UNCHANGED bootVars
  BY <1>23 DEF bootVars, cram, card
<1> QED
  BY <1>1, <1>2, <1>3, <1>4, <1>5, <1>6, <1>7, <1>8, <1>9, <1>10, <1>11,
  <1>12, <1>13, <1>14, <1>15, <1>16, <1>17, <1>18, <1>19, <1>20, <1>21, <1>22,
      <1>23
     DEF BootNext, Mcu, Pocket, Overlay, Unpack

\* The invariant is inductive.
LEMMA InvStep == BootInv /\ [BootNext]_bootVars => BootInv'
BY TypeStep, WhereStep, SoundStep, CutStep, CardStep DEF BootInv

\* It holds throughout.
LEMMA InvHolds == BootSpec => []BootInv
BY BootInvInit, InvStep, PTL DEF BootSpec

\* Every variable keeps its type, for any bank size and any number of resets and
\* lost stores: the unpack never leaves the bank (put, c4b_ovl.c).
THEOREM BootTyped == BootSpec => []BootTypeOK
BY InvHolds, PTL DEF BootInv

\* VALID stands over a whole image of this ROM, a finished copy of its SFX bank
\* (unless sfx_copy refuses its bounds, which fails nothing) and a finished curve:
\* a warm boot may touch nothing (boot_cache_check, c4b_ovl_main).
THEOREM CacheIsSound == BootSpec => []CacheSound
BY InvHolds, PTL DEF BootInv

\* However the boot was cut, the 68000 runs only after the copy of the SFX bank and
\* the curve were finished, unless the overlay's stack guard sends every boot of
\* the build past them (c4b_ovl_main's order of its stores).
THEOREM SoundForTheGame == BootSpec => []GameHasSound
<1>1. BootInv => GameHasSound
  BY DEF BootInv, Sound, GameHasSound
<1>2. QED
  BY <1>1, InvHolds, PTL

\* A cut unpack never looks kept (unpack).
THEOREM CutUnpack == BootSpec => []CutNeverLooksKept
BY InvHolds, PTL DEF BootInv

\* The core never unpacks over its own good file (check_file, the flush).
THEOREM FileIsUsed == BootSpec => []OwnFileKept
<1>1. BootInv => OwnFileKept
  BY DEF BootInv, Card, OwnFileKept
<1>2. QED
  BY <1>1, InvHolds, PTL

\* No step changes the image while the Pocket may read it (boot_cache_check).
THEOREM ImageIsHeld == BootSpec => ImageHeld
<1>1. BootInv /\ [BootNext]_bootVars => [valid /\ valid' => UNCHANGED <<hdr, bank>>]_bootVars
  <2> SUFFICES ASSUME BootInv, BootNext, valid, valid' PROVE UNCHANGED <<hdr, bank>>
    OBVIOUS
  <2>1. pc \notin OverlayPcs
    BY DEF BootInv, Where
  <2>2. CASE Mcu
    BY <2>1, <2>2
       DEF Mcu, Overlay, Unpack, Stub, StackGuard, Map, CheckFile, UnpackStart, Put,
           PutBlock,
           Verify, Verified, HdrCrc, HdrBody, HdrMagic, HdrStore, ReadBack,
           SfxStart, SfxEnd, CurveWrite, Tell, Crt0, Quietly, OverlayPcs, cram
  <2>3. CASE Pocket
    BY <2>3
       DEF Pocket, PowerOn, PowerCut, Reset, Quit, Restart, FlushSize,
           FlushWord,
           FlushEnd, Damage, PowerOff, Boots, cram
  <2>4. QED
    BY <2>2, <2>3 DEF BootNext
<1>2. QED
  BY <1>1, InvHolds, PTL DEF BootSpec, ImageHeld
=============================================================================
