--------------------------- MODULE FileListProofs ---------------------------
(***************************************************************************)
(* What is stored under a file's name is that file, for any number of      *)
(* files and gestures and for tasks that overtake each other.  Known(p) is *)
(* what the ids of p stand for, wherever they are mentioned: in lists,     *)
(* tasks, control messages, requests, transfers and the other end's names. *)
(* An id stands for one file in all of them (Agree), and while both are    *)
(* connected all are among those that p has given out (Counted), so that   *)
(* the next is new.  Most steps only say again what is said already        *)
(* (Moves); a file that is added, a list that is announced, and the        *)
(* beginning and the end of the session are proved by themselves.          *)
(*                                                                         *)
(* And the lists show the same when nothing is left to do.  RowsInv        *)
(* follows each file from the list of its owner to the other's and off     *)
(* both again: it is to be added (Coming), shown (OnShow), or to be        *)
(* deleted (Going), at one place at a time, and its deletion is behind its *)
(* addition wherever both wait in one line.                                *)
(***************************************************************************)
EXTENDS FileListProps, TLAPS, FiniteSetTheorems, SequenceTheorems,
        WellFoundedInduction

-----------------------------------------------------------------------------
(* Peers, lists and their entries *)

LEMMA TwoPeers ==
    ASSUME NEW p \in Peers
    PROVE  /\ Other(p) \in Peers /\ Other(p) # p
           /\ \A q \in Peers : q = p \/ q = Other(p)
           /\ Other(Other(p)) = p
<1>1. IsFiniteSet(Peers \ {p}) /\ Cardinality(Peers \ {p}) = 1
  BY ListAssumption, FS_RemoveElement
<1>2. PICK q : Peers \ {p} = {q}
  BY <1>1, FS_Singleton
<1>3. q \in Peers /\ q # p /\ Peers = {p, q}
  BY <1>2
<1>4. Other(p) = q /\ Other(q) = p
  BY <1>3 DEF Other
<1> QED
  BY <1>3, <1>4

\* Entries keeps the entries at the positions at, and only those.
LEMMA EntriesOf ==
    ASSUME NEW S, NEW list \in Seq(S), NEW at \in SUBSET DOMAIN list
    PROVE  /\ Entries(list, at) \in Seq(S)
           /\ Len(Entries(list, at)) = Cardinality(at)
           /\ \A k \in DOMAIN Entries(list, at) :
                 \E i \in at : Entries(list, at)[k] = list[i]
           /\ \A i \in at :
                 \E k \in DOMAIN Entries(list, at) : Entries(list, at)[k] = list[i]
           /\ \A k, m \in DOMAIN Entries(list, at) : k # m =>
                 \E i, j \in at : /\ i # j /\ Entries(list, at)[k] = list[i]
                                 /\ Entries(list, at)[m] = list[j]
<1> DEFINE rank(i) == Cardinality({j \in at : j <= i})
           ranks == [i \in at |-> rank(i)]
           n == Cardinality(at)
<1>1. IsFiniteSet(at) /\ n \in Nat /\ at \subseteq Nat
  <2>1. IsFiniteSet(DOMAIN list) /\ DOMAIN list = 1..Len(list) /\ Len(list) \in Nat
    BY FS_Interval
  <2> QED
    BY <2>1, FS_Subset, FS_CardinalityType
<1>2. ASSUME NEW i \in at
      PROVE  /\ IsFiniteSet({j \in at : j <= i})
             /\ rank(i) \in 1..n
  <2>1. IsFiniteSet({j \in at : j <= i}) /\ rank(i) <= n /\ rank(i) \in Nat
    BY <1>1, FS_Subset, FS_CardinalityType
  <2>2. i \in {j \in at : j <= i}
    BY <1>1
  <2>3. rank(i) # 0
    BY <2>1, <2>2, FS_EmptySet
  <2> QED
    BY <1>1, <2>1, <2>3
<1>3. \A i \in at : rank(i) \in Int
  BY <1>1, <1>2, FS_CardinalityType
<1>4. ASSUME NEW i \in at, NEW j \in at, i < j
      PROVE  rank(i) < rank(j)
  <2> DEFINE below == {k \in at : k <= i}
             upto == {k \in at : k <= j}
  <2>1. below \subseteq upto /\ j \in upto /\ j \notin below
    BY <1>1, <1>4
  <2>2. IsFiniteSet(upto) /\ IsFiniteSet(below)
    BY <1>2
  <2>3. Cardinality(below) <= Cardinality(upto) /\ Cardinality(below) # Cardinality(upto)
    BY <2>1, <2>2, FS_Subset
  <2>4. rank(i) = Cardinality(below) /\ rank(j) = Cardinality(upto)
    OBVIOUS
  <2>5. rank(i) \in Int /\ rank(j) \in Int
    BY <1>3
  <2> HIDE DEF below, upto, rank
  <2> QED
    BY <2>3, <2>4, <2>5
<1> HIDE DEF rank
<1>5. ranks \in Injection(at, 1..n)
  <2>1. ranks \in [at -> 1..n]
    BY <1>2
  <2>2. ASSUME NEW i \in at, NEW j \in at, rank(i) = rank(j)
        PROVE  i = j
    <3>1. i \in Int /\ j \in Int
      BY <1>1
    <3>2. rank(i) \in Int /\ rank(j) \in Int
      BY <1>3
    <3> QED
      BY <1>4, <2>2, <3>1, <3>2
  <2> QED
    BY <2>1, <2>2 DEF Injection, IsInjective
<1>6. ranks \in Surjection(at, 1..n)
  <2>1. IsFiniteSet(1..n) /\ Cardinality(1..n) = n
    BY <1>1, FS_Interval
  <2> QED
    BY <1>1, <1>5, <2>1, FS_Injection
<1>7. Entries(list, at) = [k \in 1..n |-> list[CHOOSE i \in at : rank(i) = k]]
  BY DEF Entries, rank
<1>8. \A k \in 1..n : \E i \in at : rank(i) = k
  BY <1>6 DEF Surjection
<1>9. ASSUME NEW i \in at
      PROVE  (CHOOSE j \in at : rank(j) = rank(i)) = i
  BY <1>5 DEF Injection, IsInjective
<1> HIDE DEF n
<1>10. ASSUME NEW k \in 1..n
      PROVE  (CHOOSE i \in at : rank(i) = k) \in at
  BY <1>8
<1>11. \A i \in at : list[i] \in S
  OBVIOUS
<1>12. Entries(list, at) \in [1..n -> S]
  BY <1>7, <1>10, <1>11
<1>13. Entries(list, at) \in Seq(S) /\ Len(Entries(list, at)) = n
  BY <1>1, <1>12
<1>14. \A k \in 1..n : \E i \in at : Entries(list, at)[k] = list[i]
  BY <1>7, <1>10
<1>15. ASSUME NEW i \in at
       PROVE  \E k \in 1..n : Entries(list, at)[k] = list[i]
  <2>1. rank(i) \in 1..n
    BY <1>2
  <2> QED
    BY <1>7, <1>9, <2>1
<1>16. ASSUME NEW k \in 1..n, NEW m \in 1..n, k # m
       PROVE  \E i, j \in at : /\ i # j /\ Entries(list, at)[k] = list[i]
                               /\ Entries(list, at)[m] = list[j]
  <2> DEFINE i == CHOOSE x \in at : rank(x) = k
             j == CHOOSE x \in at : rank(x) = m
  <2>1. i \in at /\ j \in at /\ rank(i) = k /\ rank(j) = m
    BY <1>8
  <2>2. Entries(list, at)[k] = list[i] /\ Entries(list, at)[m] = list[j]
    BY <1>7
  <2> HIDE DEF i, j
  <2> QED
    BY <1>16, <2>1, <2>2
<1>17. DOMAIN Entries(list, at) = 1..n /\ n = Cardinality(at)
  BY <1>12 DEF n
<1>18. /\ \A k \in DOMAIN Entries(list, at) : \E i \in at : Entries(list, at)[k] = list[i]
       /\ \A i \in at : \E k \in DOMAIN Entries(list, at) : Entries(list, at)[k] = list[i]
  BY <1>14, <1>15, <1>17
<1>19. \A k, m \in DOMAIN Entries(list, at) : k # m =>
          \E i, j \in at : /\ i # j /\ Entries(list, at)[k] = list[i]
                          /\ Entries(list, at)[m] = list[j]
  BY <1>16, <1>17
<1> QED
  BY <1>13, <1>17, <1>18, <1>19

LEMMA PlaceBehind ==
    ASSUME NEW i \in Int, NEW j \in Int, NEW n \in Int, NEW m,
           m = i - 1, 1 <= j, i <= j, j <= n - 1
    PROVE  /\ ~(j <= m) /\ j - m \in 1..(n - i)
           /\ i + (j - m) = j + 1 /\ j \in 1..(n - 1)
  OBVIOUS

LEMMA RemoveAtSeq ==
    ASSUME NEW S, NEW s \in Seq(S), NEW i \in DOMAIN s
    PROVE  /\ RemoveAt(s, i) \in Seq(S)
           /\ Len(RemoveAt(s, i)) = Len(s) - 1
           /\ \A j \in 1..(Len(s) - 1) :
                 RemoveAt(s, i)[j] = IF j < i THEN s[j] ELSE s[j + 1]
<1>1. i \in 1..Len(s) /\ Len(s) \in Nat
  OBVIOUS
<1> DEFINE front == SubSeq(s, 1, i - 1)
           back == SubSeq(s, i + 1, Len(s))
<1>2. /\ front \in Seq(S) /\ Len(front) = i - 1
      /\ \A j \in 1..(i - 1) : front[j] = s[j]
  BY <1>1
<1>3. /\ back \in Seq(S) /\ Len(back) = Len(s) - i
      /\ \A j \in 1..(Len(s) - i) : back[j] = s[i + j]
  BY <1>1
<1>4. RemoveAt(s, i) = front \o back
  BY DEF RemoveAt
<1> HIDE DEF front, back
<1>5. /\ front \o back \in Seq(S) /\ Len(front \o back) = Len(front) + Len(back)
      /\ \A j \in 1..(Len(front) + Len(back)) :
            (front \o back)[j] = IF j <= Len(front) THEN front[j] ELSE back[j - Len(front)]
  BY <1>2, <1>3, ConcatProperties
<1>6. Len(front) + Len(back) = Len(s) - 1
  BY <1>1, <1>2, <1>3
<1>7. ASSUME NEW j \in 1..(Len(s) - 1)
      PROVE  RemoveAt(s, i)[j] = IF j < i THEN s[j] ELSE s[j + 1]
  <2>1. CASE j < i
    <3>1. j \in 1..(i - 1) /\ j <= Len(front) /\ j \in 1..(Len(front) + Len(back))
      BY <1>1, <1>2, <1>6, <2>1
    <3> QED
      BY <1>2, <1>4, <1>5, <2>1, <3>1
  <2>2. CASE j >= i
    <3>1. /\ ~(j <= Len(front)) /\ j - Len(front) \in 1..(Len(s) - i)
          /\ i + (j - Len(front)) = j + 1 /\ j \in 1..(Len(front) + Len(back))
      <4>1. i \in Int /\ Len(front) = i - 1 /\ i <= Len(s) /\ Len(s) \in Nat
        BY <1>1, <1>2
      <4>2. j \in Int /\ 1 <= j /\ j <= Len(s) - 1
        BY <4>1
      <4> DEFINE n == Len(s)
                 m == Len(front)
      <4>3. i \in Int /\ m = i - 1 /\ i <= n /\ n \in Nat /\ m + Len(back) = n - 1
        BY <1>6, <4>1
      <4>4. j \in Int /\ 1 <= j /\ j <= n - 1 /\ j >= i
        BY <2>2, <4>2
      <4> HIDE DEF n, m
      <4>5. /\ ~(j <= m) /\ j - m \in 1..(n - i)
            /\ i + (j - m) = j + 1 /\ j \in 1..(n - 1)
        BY <4>3, <4>4, PlaceBehind
      <4> QED
        BY <4>3, <4>5 DEF n, m
    <3>2. RemoveAt(s, i)[j] = back[j - Len(front)]
      BY <1>4, <1>5, <3>1
    <3>3. back[j - Len(front)] = s[j + 1]
      BY <1>3, <3>1
    <3> QED
      BY <1>1, <2>2, <3>2, <3>3
  <2> QED
    BY <1>1, <2>1, <2>2
<1> QED
  BY <1>4, <1>5, <1>6, <1>7


-----------------------------------------------------------------------------
(* Tasks, and what is said of the files of a peer *)

Ops == {"send_addfiles", "send_deletefiles", "send_get_file", "send_expired_file",
        "send_cancel_file_send", "have_addfiles", "have_deletefiles",
        "have_download_request", "have_expired_file", "have_cancel_transit",
        "upload_progress", "upload_end", "download_progress", "download_end",
        "have_file_to_send", "cancel_file_send", "cancel_transit_in_sender"}
Statuses == {"LocalDefault", "RemoteDefault", "Pending", "Uploading", "Downloading",
             "UploadCompleted", "DownloadCompleted", "UploadCancel",
             "DownloadCancel", "Error"}

Items == [id : Int, file : Files \cup {NoFile}]
Row == [file : Files \cup {NoFile}, remote : BOOLEAN, id : Int, status : Statuses]
Tasks == [op : Ops, of : Seq(Items) \ {<< >>}]
Transfer == [id : Int, file : Files \cup {NoFile},
             at : {"header", "block", "end", "report"}, cancel : BOOLEAN]
Messages == [kind : {"header", "block", "end", "cancel"}, of : Transfer]

Pair(r) == Item(r.id, r.file)

\* The items of the tasks of one kind.
Mentioned(tasks, op) ==
    UNION {{tasks[k].of[m] : m \in DOMAIN tasks[k].of} :
              k \in {k \in DOMAIN tasks : tasks[k].op = op}}

LEMMA MentionedIs ==
    ASSUME NEW tasks, NEW op, NEW x
    PROVE  x \in Mentioned(tasks, op) <=>
               \E k \in DOMAIN tasks : /\ tasks[k].op = op
                                       /\ \E m \in DOMAIN tasks[k].of : tasks[k].of[m] = x
  BY DEF Mentioned

LEMMA MentionedNone ==
    ASSUME NEW op
    PROVE  Mentioned(<< >>, op) = {}
  BY DEF Mentioned

LEMMA MentionedFrom ==
    ASSUME NEW s, NEW u, NEW op, \A k \in DOMAIN u : \E j \in DOMAIN s : u[k] = s[j]
    PROVE  Mentioned(u, op) \subseteq Mentioned(s, op)
<1> SUFFICES ASSUME NEW x \in Mentioned(u, op)
             PROVE  x \in Mentioned(s, op)
  OBVIOUS
<1>1. PICK k \in DOMAIN u : u[k].op = op /\ \E m \in DOMAIN u[k].of : u[k].of[m] = x
  BY MentionedIs
<1>2. PICK j \in DOMAIN s : u[k] = s[j]
  OBVIOUS
<1> QED
  BY <1>1, <1>2, MentionedIs

LEMMA MentionedConcat ==
    ASSUME NEW s \in Seq(Tasks), NEW t \in Seq(Tasks), NEW op
    PROVE  Mentioned(s \o t, op) = Mentioned(s, op) \cup Mentioned(t, op)
<1>1. /\ DOMAIN (s \o t) = 1..(Len(s) + Len(t)) /\ Len(s) \in Nat /\ Len(t) \in Nat
      /\ \A k \in 1..Len(s) : (s \o t)[k] = s[k]
      /\ \A k \in 1..Len(t) : (s \o t)[Len(s) + k] = t[k]
      /\ DOMAIN s = 1..Len(s) /\ DOMAIN t = 1..Len(t)
  OBVIOUS
<1> DEFINE u == s \o t
<1>2. ASSUME NEW k \in DOMAIN u
      PROVE  \/ \E j \in DOMAIN s : u[k] = s[j]
             \/ \E j \in DOMAIN t : u[k] = t[j]
  <2>1. CASE k <= Len(s)
    BY <1>1, <2>1
  <2>2. CASE k > Len(s)
    <3>1. k - Len(s) \in 1..Len(t) /\ Len(s) + (k - Len(s)) = k
      BY <1>1, <2>2
    <3> QED
      BY <1>1, <3>1
  <2> QED
    BY <1>1, <2>1, <2>2
<1>3. \A j \in DOMAIN s : \E k \in DOMAIN u : u[k] = s[j]
  <2> SUFFICES ASSUME NEW j \in DOMAIN s PROVE j \in DOMAIN u /\ u[j] = s[j]
    OBVIOUS
  <2> QED
    BY <1>1
<1>4. \A j \in DOMAIN t : \E k \in DOMAIN u : u[k] = t[j]
  <2> SUFFICES ASSUME NEW j \in DOMAIN t
               PROVE  Len(s) + j \in DOMAIN u /\ u[Len(s) + j] = t[j]
    OBVIOUS
  <2> QED
    BY <1>1
<1> HIDE DEF u
<1>5. Mentioned(s, op) \subseteq Mentioned(u, op)
  BY <1>3, MentionedFrom
<1>6. Mentioned(t, op) \subseteq Mentioned(u, op)
  BY <1>4, MentionedFrom
<1>7. ASSUME NEW x \in Mentioned(u, op)
      PROVE  x \in Mentioned(s, op) \/ x \in Mentioned(t, op)
  <2>1. PICK k \in DOMAIN u : u[k].op = op /\ \E m \in DOMAIN u[k].of : u[k].of[m] = x
    BY <1>7, MentionedIs
  <2> QED
    BY <1>2, <2>1, MentionedIs
<1>8. Mentioned(u, op) = Mentioned(s, op) \cup Mentioned(t, op)
  BY <1>5, <1>6, <1>7
<1> QED
  BY <1>8 DEF u

LEMMA MentionedOne ==
    ASSUME NEW t \in Tasks, NEW op
    PROVE  /\ t.op # op => Mentioned(<<t>>, op) = {}
           /\ t.op = op => Mentioned(<<t>>, op) = {t.of[m] : m \in DOMAIN t.of}
<1>1. DOMAIN <<t>> = {1} /\ <<t>>[1] = t
  OBVIOUS
<1>2. \A x : x \in Mentioned(<<t>>, op) <=> t.op = op /\ \E m \in DOMAIN t.of : t.of[m] = x
  BY <1>1, MentionedIs
<1> QED
  BY <1>2

LEMMA MentionedAppend ==
    ASSUME NEW s \in Seq(Tasks), NEW t \in Tasks, NEW op
    PROVE  /\ t.op # op => Mentioned(Append(s, t), op) = Mentioned(s, op)
           /\ t.op = op =>
                  Mentioned(Append(s, t), op) =
                      Mentioned(s, op) \cup {t.of[m] : m \in DOMAIN t.of}
<1>1. Append(s, t) = s \o <<t>> /\ <<t>> \in Seq(Tasks)
  OBVIOUS
<1>2. Mentioned(s \o <<t>>, op) = Mentioned(s, op) \cup Mentioned(<<t>>, op)
  BY <1>1, MentionedConcat
<1> QED
  BY <1>1, <1>2, MentionedOne

LEMMA MentionedRemoveAt ==
    ASSUME NEW s \in Seq(Tasks), NEW i \in DOMAIN s, NEW op
    PROVE  Mentioned(RemoveAt(s, i), op) \subseteq Mentioned(s, op)
<1>1. /\ RemoveAt(s, i) \in Seq(Tasks) /\ Len(RemoveAt(s, i)) = Len(s) - 1
      /\ \A j \in 1..(Len(s) - 1) : RemoveAt(s, i)[j] = IF j < i THEN s[j] ELSE s[j + 1]
  BY RemoveAtSeq
<1>2. ASSUME NEW k \in DOMAIN RemoveAt(s, i)
      PROVE  \E j \in DOMAIN s : RemoveAt(s, i)[k] = s[j]
  <2>1. k \in 1..(Len(s) - 1)
    BY <1>1
  <2>2. k \in DOMAIN s /\ k + 1 \in DOMAIN s
    BY <2>1
  <2> QED
    BY <1>1, <2>1, <2>2
<1> QED
  BY <1>2, MentionedFrom

LEMMA MentionedTail ==
    ASSUME NEW s \in Seq(Tasks), s # << >>, NEW op
    PROVE  Mentioned(s, op) = Mentioned(<<Head(s)>>, op) \cup Mentioned(Tail(s), op)
<1>1. /\ s = <<Head(s)>> \o Tail(s)
      /\ Head(s) \in Tasks /\ Tail(s) \in Seq(Tasks) /\ <<Head(s)>> \in Seq(Tasks)
  OBVIOUS
<1>2. Mentioned(<<Head(s)>> \o Tail(s), op) =
          Mentioned(<<Head(s)>>, op) \cup Mentioned(Tail(s), op)
  BY <1>1, MentionedConcat
<1> QED
  BY <1>1, <1>2

LEMMA MentionedOther ==
    ASSUME NEW s, NEW op, \A k \in DOMAIN s : s[k].op # op
    PROVE  Mentioned(s, op) = {}
  BY DEF Mentioned

LEMMA TaskIsTask ==
    ASSUME NEW op \in Ops, NEW x \in Items
    PROVE  /\ Task(op, <<x>>) \in Tasks /\ <<Task(op, <<x>>)>> \in Seq(Tasks)
           /\ Task(op, <<x>>).op = op /\ Task(op, <<x>>).of = <<x>>
  BY DEF Task, Tasks

LEMMA AboutIsTask ==
    ASSUME NEW op \in Ops, NEW id \in Int
    PROVE  /\ About(op, id) \in Tasks /\ <<About(op, id)>> \in Seq(Tasks)
           /\ About(op, id).op = op /\ About(op, id).of = <<Item(id, NoFile)>>
<1>1. Item(id, NoFile) \in Items
  BY DEF Item, Items
<1> QED
  BY <1>1, TaskIsTask DEF About

LEMMA OneTask == \A t \in Tasks : <<t>> \in Seq(Tasks)
  OBVIOUS

LEMMA FirstItem ==
    ASSUME NEW s \in Seq(Tasks), NEW i \in DOMAIN s
    PROVE  /\ s[i] \in Tasks /\ 1 \in DOMAIN s[i].of
           /\ s[i].of[1] \in Items /\ s[i].of[1].id \in Int
           /\ s[i].of[1] \in Mentioned(s, s[i].op)
<1>1. s[i] \in Tasks
  OBVIOUS
<1>2. s[i].of \in Seq(Items) /\ s[i].of # << >>
  BY <1>1 DEF Tasks
<1>3. 1 \in DOMAIN s[i].of
  BY <1>2
<1>4. s[i].of[1] \in Items
  BY <1>2, <1>3
<1> QED
  BY <1>1, <1>3, <1>4, MentionedIs DEF Items

Named == [id : Int, name : Files \cup {NoFile}, file : Files \cup {NoFile}]

\* The types that the invariants rest on.
ListType ==
    /\ rows \in [Peers -> Seq(Row)]
    /\ names \in [Peers -> UNION {[ids -> Files \cup {NoFile}] : ids \in SUBSET Int}]
    /\ counter \in [Peers -> Int] /\ begin \in [Peers -> {"Low", "High"}]
    /\ linked \in [Peers -> BOOLEAN] /\ asking \in [Peers -> BOOLEAN]
    /\ todo \in [Peers -> Seq(Tasks)] /\ wire \in [Peers -> Seq(Tasks)]
    /\ queue \in [Peers -> Seq(Items)]
    /\ sending \in [Peers -> Transfer \cup {NoTransfer}]
    /\ data \in [Peers -> Seq(Messages)]
    /\ parsing \in [Peers -> Named]
    /\ deaf \in [Peers -> BOOLEAN]
    /\ gestures \in Nat /\ sessions \in 0..MaxSessions
    /\ stored \in [Peers -> SUBSET [name : Files \cup {NoFile}, content : Files \cup {NoFile}]]

LEMMA TypeInit == Init => ListType
<1> SUFFICES ASSUME Init PROVE ListType
  OBVIOUS
<1> USE DEF Init
<1>1. names \in [Peers -> UNION {[ids -> Files \cup {NoFile}] : ids \in SUBSET Int}]
  <2>1. << >> \in [{} -> Files \cup {NoFile}] /\ {} \in SUBSET Int
    OBVIOUS
  <2>2. << >> \in UNION {[ids -> Files \cup {NoFile}] : ids \in SUBSET Int}
    BY <2>1
  <2> QED
    BY <2>2
<1>2. parsing \in [Peers -> Named]
  BY DEF Silent, Named
<1>3. gestures \in Nat /\ sessions \in 0..MaxSessions
  BY ListAssumption
<1> QED
  BY <1>1, <1>2, <1>3 DEF ListType

LEMMA PublishFacts ==
    ASSUME ListType, NEW p \in Peers, NEW new \in Seq(Tasks), Publish(p, new)
    PROVE  /\ todo' \in [Peers -> Seq(Tasks)]
           /\ \A q \in Peers : q # p => todo'[q] = todo[q]
           /\ todo'[p] = todo[p] \o new
           /\ \A op : Mentioned(todo'[p], op) =
                          Mentioned(todo[p], op) \cup Mentioned(new, op)
<1>1. todo \in [Peers -> Seq(Tasks)] /\ todo[p] \in Seq(Tasks)
  BY DEF ListType
<1>2. todo' = [todo EXCEPT ![p] = todo[p] \o new] /\ todo[p] \o new \in Seq(Tasks)
  BY <1>1 DEF Publish
<1>3. todo'[p] = todo[p] \o new
  BY <1>1, <1>2
<1> QED
  BY <1>1, <1>2, <1>3, MentionedConcat

LEMMA DoneFacts ==
    ASSUME ListType, NEW p \in Peers, NEW i \in DOMAIN todo[p],
           NEW new \in Seq(Tasks), Done(p, i, new)
    PROVE  /\ todo' \in [Peers -> Seq(Tasks)]
           /\ \A q \in Peers : q # p => todo'[q] = todo[q]
           /\ todo'[p] = RemoveAt(todo[p], i) \o new
           /\ \A op : Mentioned(todo'[p], op) \subseteq
                          Mentioned(todo[p], op) \cup Mentioned(new, op)
<1>1. todo \in [Peers -> Seq(Tasks)] /\ todo[p] \in Seq(Tasks)
  BY DEF ListType
<1>2. RemoveAt(todo[p], i) \in Seq(Tasks)
  BY <1>1, RemoveAtSeq
<1>3. /\ todo' = [todo EXCEPT ![p] = RemoveAt(todo[p], i) \o new]
      /\ RemoveAt(todo[p], i) \o new \in Seq(Tasks)
  BY <1>1, <1>2 DEF Done
<1>4. todo'[p] = RemoveAt(todo[p], i) \o new
  BY <1>1, <1>3
<1>5. ASSUME NEW op
      PROVE  Mentioned(todo'[p], op) \subseteq Mentioned(todo[p], op) \cup Mentioned(new, op)
  <2>1. Mentioned(todo'[p], op) = Mentioned(RemoveAt(todo[p], i), op) \cup Mentioned(new, op)
    BY <1>2, <1>4, MentionedConcat
  <2>2. Mentioned(RemoveAt(todo[p], i), op) \subseteq Mentioned(todo[p], op)
    BY <1>1, MentionedRemoveAt
  <2> QED
    BY <2>1, <2>2
<1> QED
  BY <1>1, <1>3, <1>4, <1>5

-----------------------------------------------------------------------------
(* What the handlers publish *)

LEMMA EmptyTasks == << >> \in Seq(Tasks) /\ \A op : Mentioned(<< >>, op) = {}
  BY MentionedNone

LEMMA RequestsAre ==
    ASSUME NEW list \in Seq(Row), NEW wanted \in SUBSET DOMAIN list
    PROVE  /\ Requests(list, wanted) \in Seq(Tasks)
           /\ \A op : op # "send_get_file" => Mentioned(Requests(list, wanted), op) = {}
           /\ \A x \in Mentioned(Requests(list, wanted), "send_get_file") :
                 \E i \in wanted : x.id = list[i].id
<1> DEFINE chosen == Entries(list, wanted)
           new == Requests(list, wanted)
<1>1. /\ chosen \in Seq(Row)
      /\ \A k \in DOMAIN chosen : \E i \in wanted : chosen[k] = list[i]
  BY EntriesOf
<1>2. new = [k \in DOMAIN chosen |-> About("send_get_file", chosen[k].id)]
  BY DEF Requests
<1> HIDE DEF chosen, new
<1>3. DOMAIN chosen = 1..Len(chosen) /\ Len(chosen) \in Nat
  BY <1>1
<1>4. \A k \in DOMAIN chosen : chosen[k].id \in Int
  <2> SUFFICES ASSUME NEW k \in DOMAIN chosen PROVE chosen[k].id \in Int
    OBVIOUS
  <2>1. chosen[k] \in Row
    BY <1>1
  <2> QED
    BY <2>1 DEF Row
<1>5. \A k \in DOMAIN chosen : new[k] \in Tasks /\ new[k].op = "send_get_file"
                               /\ new[k].of = <<Item(chosen[k].id, NoFile)>>
  <2> SUFFICES ASSUME NEW k \in DOMAIN chosen
               PROVE  /\ new[k] \in Tasks /\ new[k].op = "send_get_file"
                      /\ new[k].of = <<Item(chosen[k].id, NoFile)>>
    OBVIOUS
  <2>1. new[k] = About("send_get_file", chosen[k].id) /\ chosen[k].id \in Int
    BY <1>2, <1>4
  <2>2. "send_get_file" \in Ops
    BY DEF Ops
  <2> QED
    BY <2>1, <2>2, AboutIsTask
<1>6. DOMAIN new = DOMAIN chosen
  BY <1>2
<1>7. new \in Seq(Tasks)
  BY <1>2, <1>3, <1>5, <1>6
<1>8. \A op : op # "send_get_file" => Mentioned(new, op) = {}
  BY <1>5, <1>6, MentionedOther
<1>9. ASSUME NEW x \in Mentioned(new, "send_get_file")
      PROVE  \E i \in wanted : x.id = list[i].id
  <2>1. PICK k \in DOMAIN new : \E m \in DOMAIN new[k].of : new[k].of[m] = x
    BY MentionedIs
  <2>2. x = Item(chosen[k].id, NoFile)
    BY <1>5, <1>6, <2>1
  <2> QED
    BY <1>1, <1>6, <2>2 DEF Item
<1> QED
  BY <1>7, <1>8, <1>9 DEF new

Cancels == {"cancel_transit_in_sender", "cancel_file_send", "send_cancel_file_send"}

LEMMA WithdrawalIs ==
    ASSUME NEW row \in Row
    PROVE  /\ Withdrawal(row) \in Seq(Tasks)
           /\ \A k \in DOMAIN Withdrawal(row) : Withdrawal(row)[k].op \in Cancels
<1>1. row.id \in Int
  BY DEF Row
<1>2. ASSUME NEW op \in Cancels
      PROVE  /\ <<About(op, row.id)>> \in Seq(Tasks)
             /\ \A k \in DOMAIN <<About(op, row.id)>> :
                   <<About(op, row.id)>>[k].op \in Cancels
  <2>1. op \in Ops
    BY DEF Cancels, Ops
  <2>2. <<About(op, row.id)>> \in Seq(Tasks) /\ About(op, row.id).op = op
    BY <1>1, <2>1, AboutIsTask
  <2> QED
    BY <2>2
<1>3. << >> \in Seq(Tasks) /\ \A k \in DOMAIN << >> : << >>[k].op \in Cancels
  OBVIOUS
<1>4. \/ Withdrawal(row) = << >>
      \/ \E op \in Cancels : Withdrawal(row) = <<About(op, row.id)>>
  BY DEF Withdrawal, Cancels
<1> QED
  BY <1>2, <1>3, <1>4

LEMMA CancelTasksAre ==
    ASSUME NEW row \in Row
    PROVE  /\ CancelTasks(row) \in Seq(Tasks)
           /\ \A k \in DOMAIN CancelTasks(row) : CancelTasks(row)[k].op \in Cancels
<1>1. row.id \in Int
  BY DEF Row
<1>2. /\ About("send_cancel_file_send", row.id) \in Tasks
      /\ About("send_cancel_file_send", row.id).op = "send_cancel_file_send"
  BY <1>1, AboutIsTask DEF Ops
<1> DEFINE told == About("send_cancel_file_send", row.id)
           first == Withdrawal(row)
<1>3. first \in Seq(Tasks) /\ \A k \in DOMAIN first : first[k].op \in Cancels
  BY WithdrawalIs
<1>4. /\ Append(first, told) \in Seq(Tasks)
      /\ \A k \in DOMAIN Append(first, told) : Append(first, told)[k].op \in Cancels
  <2> HIDE DEF told, first
  <2>1. told \in Tasks /\ told.op \in Cancels
    BY <1>2 DEF told, Cancels
  <2>2. \A k \in DOMAIN Append(first, told) :
           (k \in DOMAIN first /\ Append(first, told)[k] = first[k]) \/ Append(first, told)[k] = told
    BY <1>3, <2>1
  <2> QED
    BY <1>3, <2>1, <2>2
<1>5. /\ <<told>> \in Seq(Tasks)
      /\ \A k \in DOMAIN <<told>> : <<told>>[k].op \in Cancels
  BY <1>2 DEF Cancels
<1>6. << >> \in Seq(Tasks) /\ \A k \in DOMAIN << >> : << >>[k].op \in Cancels
  OBVIOUS
<1>7. \/ CancelTasks(row) = first \/ CancelTasks(row) = <<told>>
      \/ CancelTasks(row) = Append(first, told) \/ CancelTasks(row) = << >>
  BY DEF CancelTasks
<1> HIDE DEF told, first
<1> QED
  BY <1>3, <1>4, <1>5, <1>6, <1>7

-----------------------------------------------------------------------------
(* What the steps do to a list *)

\* The same rows, but for their statuses.
SameList(new, old) ==
    /\ DOMAIN new = DOMAIN old
    /\ \A k \in DOMAIN old : /\ new[k].id = old[k].id /\ new[k].file = old[k].file
                             /\ new[k].remote = old[k].remote

LEMMA StatusesSet ==
    ASSUME NEW list \in Seq(Row), NEW new, new = [k \in DOMAIN list |-> new[k]],
           \A k \in DOMAIN list :
              \/ new[k] = list[k]
              \/ \E status \in Statuses : new[k] = [list[k] EXCEPT !.status = status]
    PROVE  new \in Seq(Row) /\ SameList(new, list)
<1>1. DOMAIN list = 1..Len(list) /\ Len(list) \in Nat
  OBVIOUS
<1>2. ASSUME NEW k \in DOMAIN list
      PROVE  /\ new[k] \in Row /\ new[k].id = list[k].id /\ new[k].file = list[k].file
             /\ new[k].remote = list[k].remote
  <2>1. list[k] \in Row
    OBVIOUS
  <2> QED
    BY <2>1 DEF Row
<1>3. new \in [1..Len(list) -> Row]
  BY <1>1, <1>2
<1>4. new \in Seq(Row) /\ DOMAIN new = DOMAIN list
  BY <1>1, <1>3
<1> QED
  BY <1>2, <1>4 DEF SameList

LEMMA SameListSelf == \A list : SameList(list, list)
  BY DEF SameList

LEMMA SetStatusFacts ==
    ASSUME ListType, NEW p \in Peers, NEW at \in DOMAIN rows[p],
           NEW status \in Statuses, SetStatus(p, at, status)
    PROVE  /\ rows' \in [Peers -> Seq(Row)]
           /\ \A q \in Peers : SameList(rows'[q], rows[q])
<1>1. rows \in [Peers -> Seq(Row)] /\ rows[p] \in Seq(Row)
  BY DEF ListType
<1> DEFINE new == [rows[p] EXCEPT ![at].status = status]
<1>2. rows' = [rows EXCEPT ![p] = new]
  BY <1>1 DEF SetStatus
<1>3. new = [k \in DOMAIN rows[p] |-> new[k]]
  OBVIOUS
<1>4. \A k \in DOMAIN rows[p] : \/ new[k] = rows[p][k]
                                \/ new[k] = [rows[p][k] EXCEPT !.status = status]
  OBVIOUS
<1>5. new \in Seq(Row) /\ SameList(new, rows[p])
  <2> HIDE DEF new
  <2> QED
    BY <1>1, <1>3, <1>4, StatusesSet
<1> HIDE DEF new
<1> QED
  BY <1>1, <1>2, <1>5, SameListSelf

LEMMA RequestedFacts ==
    ASSUME NEW list \in Seq(Row), NEW wanted \in SUBSET DOMAIN list
    PROVE  Requested(list, wanted) \in Seq(Row) /\ SameList(Requested(list, wanted), list)
<1> DEFINE new == Requested(list, wanted)
<1>1. new = [k \in DOMAIN list |-> new[k]]
  BY DEF Requested
<1>2. \A k \in DOMAIN list : \/ new[k] = list[k]
                             \/ new[k] = [list[k] EXCEPT !.status = "Pending"]
  BY DEF Requested
<1>3. "Pending" \in Statuses
  BY DEF Statuses
<1> HIDE DEF new
<1>4. new \in Seq(Row) /\ SameList(new, list)
  BY <1>1, <1>2, <1>3, StatusesSet
<1> QED
  BY <1>4 DEF new

LEMMA RemoveRow ==
    ASSUME ListType, NEW p \in Peers, NEW at \in DOMAIN rows[p],
           rows' = [rows EXCEPT ![p] = RemoveAt(@, at)]
    PROVE  /\ rows' \in [Peers -> Seq(Row)]
           /\ rows'[p] = RemoveAt(rows[p], at)
           /\ \A q \in Peers : q # p => rows'[q] = rows[q]
           /\ \A k \in DOMAIN rows'[p] : \E j \in DOMAIN rows[p] : rows'[p][k] = rows[p][j]
<1>1. rows \in [Peers -> Seq(Row)] /\ rows[p] \in Seq(Row)
  BY DEF ListType
<1> DEFINE new == RemoveAt(rows[p], at)
<1>2. /\ new \in Seq(Row) /\ Len(new) = Len(rows[p]) - 1
      /\ \A j \in 1..(Len(rows[p]) - 1) :
            new[j] = IF j < at THEN rows[p][j] ELSE rows[p][j + 1]
  BY <1>1, RemoveAtSeq
<1> HIDE DEF new
<1>3. rows' = [rows EXCEPT ![p] = new]
  BY <1>1 DEF new
<1>4. rows'[p] = new /\ rows' \in [Peers -> Seq(Row)]
  BY <1>1, <1>2, <1>3
<1>5. ASSUME NEW k \in DOMAIN new
      PROVE  \E j \in DOMAIN rows[p] : new[k] = rows[p][j]
  <2>1. k \in 1..(Len(rows[p]) - 1) /\ k \in DOMAIN rows[p] /\ k + 1 \in DOMAIN rows[p]
    BY <1>1, <1>2
  <2> QED
    BY <1>2, <2>1
<1> QED
  BY <1>1, <1>3, <1>4, <1>5 DEF new

\* OnHaveCancelFile.
LEMMA CanceledFacts ==
    ASSUME NEW list \in Seq(Row), NEW hit,
           NEW new, new = [k \in DOMAIN list |->
               LET row == list[k] IN
               IF k \in hit THEN [row EXCEPT !.status = Canceled(row)] ELSE row]
    PROVE  new \in Seq(Row) /\ SameList(new, list)
<1>1. \A row : Canceled(row) \in Statuses
  BY DEF Canceled, Statuses
<1>2. \A k \in DOMAIN list :
         new[k] = list[k] \/ \E status \in Statuses : new[k] = [list[k] EXCEPT !.status = status]
  BY <1>1
<1>3. new = [k \in DOMAIN list |-> new[k]]
  OBVIOUS
<1> QED
  BY <1>2, <1>3, StatusesSet

LEMMA DueFacts ==
    ASSUME NEW list \in Seq(Row), NEW at \in SUBSET DOMAIN list,
           \A k \in at : Withdrawal(list[k]) # << >>
    PROVE  LET due == Entries(list, at)
               new == [k \in DOMAIN due |-> Withdrawal(due[k])[1]]
           IN  new \in Seq(Tasks) /\ \A k \in DOMAIN new : new[k].op \in Cancels
<1> DEFINE due == Entries(list, at)
           new == [k \in DOMAIN due |-> Withdrawal(due[k])[1]]
<1>1. due \in Seq(Row) /\ \A k \in DOMAIN due : \E i \in at : due[k] = list[i]
  BY EntriesOf
<1> HIDE DEF due
<1>2. ASSUME NEW k \in DOMAIN due
      PROVE  new[k] \in Tasks /\ new[k].op \in Cancels
  <2>1. due[k] \in Row /\ Withdrawal(due[k]) # << >>
    BY <1>1
  <2>2. /\ Withdrawal(due[k]) \in Seq(Tasks)
        /\ \A m \in DOMAIN Withdrawal(due[k]) : Withdrawal(due[k])[m].op \in Cancels
    BY <2>1, WithdrawalIs
  <2>3. 1 \in DOMAIN Withdrawal(due[k])
    BY <2>1, <2>2
  <2> QED
    BY <2>2, <2>3
<1>3. DOMAIN due = 1..Len(due) /\ Len(due) \in Nat
  BY <1>1
<1>4. new \in [1..Len(due) -> Tasks]
  BY <1>2, <1>3
<1>5. new \in Seq(Tasks) /\ \A k \in DOMAIN new : new[k].op \in Cancels
  BY <1>2, <1>3, <1>4
<1> QED
  BY <1>5 DEF due

LEMMA OwnFacts ==
    ASSUME NEW list \in Seq(Row)
    PROVE  /\ Own(list) \subseteq DOMAIN list /\ IsFiniteSet(Own(list))
           /\ Cardinality(Own(list)) \in Nat
<1>1. IsFiniteSet(DOMAIN list)
  BY FS_Interval
<1>2. Own(list) \subseteq DOMAIN list
  BY DEF Own
<1> QED
  BY <1>1, <1>2, FS_Subset, FS_CardinalityType

\* The own rows before row i.
Before(list, i) == Cardinality({j \in Own(list) : j < i})

LEMMA BeforeFacts ==
    ASSUME NEW list \in Seq(Row), NEW i \in Own(list)
    PROVE  /\ Before(list, i) \in 0..(Cardinality(Own(list)) - 1)
           /\ \A j \in Own(list) : j # i => Before(list, i) # Before(list, j)
<1>1. /\ IsFiniteSet(Own(list)) /\ Own(list) \subseteq DOMAIN list
      /\ Cardinality(Own(list)) \in Nat
  BY OwnFacts
<1>2. Own(list) \subseteq Int
  BY <1>1
<1>3. ASSUME NEW j \in Own(list)
      PROVE  /\ IsFiniteSet({k \in Own(list) : k < j})
             /\ Before(list, j) \in Nat /\ Before(list, j) < Cardinality(Own(list))
  <2>1. {k \in Own(list) : k < j} \subseteq Own(list) /\ j \notin {k \in Own(list) : k < j}
    BY <1>2
  <2>2. /\ IsFiniteSet({k \in Own(list) : k < j}) /\ Before(list, j) \in Nat
        /\ Before(list, j) <= Cardinality(Own(list))
        /\ Before(list, j) # Cardinality(Own(list))
    BY <1>1, <2>1, FS_Subset, FS_CardinalityType DEF Before
  <2> QED
    BY <1>1, <2>2
<1>4. ASSUME NEW j \in Own(list), NEW k \in Own(list), j < k
      PROVE  Before(list, j) # Before(list, k)
  <2>1. /\ {m \in Own(list) : m < j} \subseteq {m \in Own(list) : m < k}
        /\ j \in {m \in Own(list) : m < k} /\ j \notin {m \in Own(list) : m < j}
    BY <1>2, <1>4
  <2> QED
    BY <1>3, <2>1, FS_Subset DEF Before
<1>5. \A j \in Own(list) : j # i => j < i \/ i < j
  BY <1>2
<1>6. \A j \in Own(list) : j # i => Before(list, i) # Before(list, j)
  BY <1>4, <1>5
<1>7. Before(list, i) \in Nat /\ Before(list, i) < Cardinality(Own(list))
  BY <1>3
<1>8. Before(list, i) \in 0..(Cardinality(Own(list)) - 1)
  BY <1>1, <1>7
<1> QED
  BY <1>6, <1>8

Renumbered(p) ==
    [i \in DOMAIN rows[p] |->
        IF rows[p][i].remote THEN rows[p][i]
        ELSE [rows[p][i] EXCEPT !.id = NextId(p, Before(rows[p], i))]]

LEMMA NextIdType ==
    ASSUME ListType, NEW p \in Peers, NEW n \in Int
    PROVE  NextId(p, n) \in Int
  BY DEF NextId, ListType

LEMMA SyncFacts ==
    ASSUME ListType, NEW p \in Peers, SyncCurrentFiles(p)
    PROVE  /\ asking[p] /\ asking' = [asking EXCEPT ![p] = FALSE]
           /\ rows' = [rows EXCEPT ![p] = Renumbered(p)]
           /\ counter' = [counter EXCEPT ![p] = NextId(p, Cardinality(Own(rows[p])))]
           /\ \E own : /\ own = Entries(Renumbered(p), Own(Renumbered(p)))
                       /\ Publish(p, IF linked[p] /\ own # << >>
                                     THEN <<Task("send_addfiles", [k \in DOMAIN own |->
                                                    Item(own[k].id, own[k].file)])>>
                                     ELSE << >>)
           /\ UNCHANGED <<names, begin, linked, wire, engineVars, peerVars, bounds,
                          mishaps>>
  BY DEF SyncCurrentFiles, Renumbered, Before

LEMMA RenumberedFacts ==
    ASSUME ListType, NEW p \in Peers
    PROVE  /\ Renumbered(p) \in Seq(Row) /\ DOMAIN Renumbered(p) = DOMAIN rows[p]
           /\ Own(Renumbered(p)) = Own(rows[p])
           /\ \A i \in DOMAIN rows[p] :
                 /\ Renumbered(p)[i].remote = rows[p][i].remote
                 /\ Renumbered(p)[i].file = rows[p][i].file
                 /\ IF rows[p][i].remote THEN Renumbered(p)[i] = rows[p][i]
                    ELSE Renumbered(p)[i].id = NextId(p, Before(rows[p], i))
<1> DEFINE new == Renumbered(p)
<1>1. rows[p] \in Seq(Row) /\ DOMAIN rows[p] = 1..Len(rows[p]) /\ Len(rows[p]) \in Nat
  BY DEF ListType
<1>2. ASSUME NEW i \in DOMAIN rows[p]
      PROVE  /\ new[i] \in Row /\ new[i].remote = rows[p][i].remote
             /\ new[i].file = rows[p][i].file
             /\ IF rows[p][i].remote THEN new[i] = rows[p][i]
                ELSE new[i].id = NextId(p, Before(rows[p], i))
  <2>1. rows[p][i] \in Row
    BY <1>1
  <2>2. CASE rows[p][i].remote
    BY <2>1, <2>2 DEF Renumbered
  <2>3. CASE ~rows[p][i].remote
    <3>1. i \in Own(rows[p])
      BY <2>3 DEF Own
    <3>2. Before(rows[p], i) \in Int
      BY <1>1, <3>1, BeforeFacts
    <3>3. NextId(p, Before(rows[p], i)) \in Int
      BY <3>2, NextIdType
    <3>4. new[i] = [rows[p][i] EXCEPT !.id = NextId(p, Before(rows[p], i))]
      BY <2>3 DEF Renumbered
    <3> QED
      BY <2>1, <2>3, <3>3, <3>4 DEF Row
  <2> QED
    BY <2>2, <2>3
<1>3. new = [i \in DOMAIN rows[p] |-> new[i]]
  BY DEF Renumbered
<1> HIDE DEF new
<1>4. DOMAIN new = 1..Len(rows[p])
  BY <1>1, <1>3
<1>5. \A i \in 1..Len(rows[p]) : new[i] \in Row
  BY <1>1, <1>2
<1>6. new \in [1..Len(rows[p]) -> Row]
  BY <1>1, <1>3, <1>5
<1>7. new \in Seq(Row) /\ DOMAIN new = DOMAIN rows[p]
  BY <1>1, <1>4, <1>6
<1>8. Own(new) = Own(rows[p])
  BY <1>2, <1>7 DEF Own
<1> QED
  BY <1>2, <1>7, <1>8 DEF new

\* What SyncCurrentFiles announces.
LEMMA AnnouncedFacts ==
    ASSUME NEW list \in Seq(Row), Entries(list, Own(list)) # << >>
    PROVE  LET own == Entries(list, Own(list))
               task == Task("send_addfiles", [k \in DOMAIN own |-> Item(own[k].id, own[k].file)])
           IN  /\ task \in Tasks /\ task.op = "send_addfiles"
               /\ {task.of[m] : m \in DOMAIN task.of} = {Pair(list[i]) : i \in Own(list)}
<1> DEFINE own == Entries(list, Own(list))
           items == [k \in DOMAIN own |-> Item(own[k].id, own[k].file)]
<1>1. Own(list) \subseteq DOMAIN list
  BY OwnFacts
<1>2. /\ own \in Seq(Row)
      /\ \A k \in DOMAIN own : \E i \in Own(list) : own[k] = list[i]
      /\ \A i \in Own(list) : \E k \in DOMAIN own : own[k] = list[i]
  BY <1>1, EntriesOf
<1>3. own # << >>
  OBVIOUS
<1> HIDE DEF own
<1>4. DOMAIN own = 1..Len(own) /\ Len(own) \in Nat /\ Len(own) # 0
  BY <1>2, <1>3
<1>5. ASSUME NEW k \in DOMAIN own
      PROVE  items[k] \in Items /\ items[k] = Pair(own[k])
  <2>1. own[k] \in Row
    BY <1>2
  <2> QED
    BY <2>1 DEF Item, Items, Row, Pair
<1>6. items \in [1..Len(own) -> Items] /\ DOMAIN items = DOMAIN own
  BY <1>4, <1>5
<1> HIDE DEF items
<1>7. items \in Seq(Items) /\ items # << >>
  BY <1>4, <1>6
<1>8. /\ Task("send_addfiles", items) \in Tasks
      /\ Task("send_addfiles", items).op = "send_addfiles"
      /\ Task("send_addfiles", items).of = items
  BY <1>7 DEF Task, Tasks, Ops
<1>9. {items[m] : m \in DOMAIN items} = {Pair(list[i]) : i \in Own(list)}
  <2>1. \A m \in DOMAIN items : \E i \in Own(list) : items[m] = Pair(list[i])
    BY <1>2, <1>5, <1>6
  <2>2. ASSUME NEW i \in Own(list)
        PROVE  \E m \in DOMAIN items : items[m] = Pair(list[i])
    <3>1. PICK k \in DOMAIN own : own[k] = list[i]
      BY <1>2
    <3> QED
      BY <1>5, <1>6, <3>1
  <2> QED
    BY <2>1, <2>2
<1> QED
  BY <1>8, <1>9 DEF own, items

-----------------------------------------------------------------------------
(* The types *)

Steps(p, i) ==
    \/ Send(p, i) \/ AddRemoteFiles(p, i) \/ NotFound(p, i)
    \/ HaveDownLoadRequest(p, i) \/ OnHaveExpiredFile(p, i)
    \/ RemoveFileById(p, i) \/ OnUploadFileProgress(p, i)
    \/ OnDownLoadProgress(p, i) \/ OnHaveCancelFile(p, i)
    \/ OnHaveFileToSend(p, i) \/ OnCancelSendFile(p, i)
    \/ OnCancelUploadFile(p, i)

LEMMA FindRow ==
    ASSUME NEW p \in Peers, NEW id, NEW at \in Find(p, id)
    PROVE  at \in DOMAIN rows[p] /\ rows[p][at].id = id
  BY DEF Find

\* AddRemoteFiles: the rows that are appended, and what is asked for.
Added(t) ==
    [k \in DOMAIN t.of |-> [file |-> t.of[k].file, remote |-> TRUE, id |-> t.of[k].id,
                            status |-> "RemoteDefault"]]
Longer(p, t) == rows[p] \o Added(t)
Automated(p, t) == Wanted(Longer(p, t), {"RemoteDefault"}, Automatic)

LEMMA LongerFacts ==
    ASSUME ListType, NEW p \in Peers, NEW t \in Tasks
    PROVE  /\ Longer(p, t) \in Seq(Row) /\ Automated(p, t) \subseteq DOMAIN Longer(p, t)
           /\ Len(Longer(p, t)) = Len(rows[p]) + Len(t.of)
           /\ \A k \in DOMAIN rows[p] :
                 k \in DOMAIN Longer(p, t) /\ Longer(p, t)[k] = rows[p][k]
           /\ \A m \in DOMAIN t.of :
                 /\ Len(rows[p]) + m \in DOMAIN Longer(p, t)
                 /\ Longer(p, t)[Len(rows[p]) + m] = Added(t)[m]
           /\ \A k \in DOMAIN Longer(p, t) :
                 \/ k \in DOMAIN rows[p] /\ Longer(p, t)[k] = rows[p][k]
                 \/ \E m \in DOMAIN t.of : /\ Longer(p, t)[k] = Added(t)[m]
                                           /\ k = Len(rows[p]) + m
           /\ \A m \in DOMAIN t.of : /\ Added(t)[m].remote
                                     /\ Pair(Added(t)[m]) = t.of[m]
<1> DEFINE new == Added(t)
<1>1. rows[p] \in Seq(Row)
  BY DEF ListType
<1>2. t.of \in Seq(Items) /\ DOMAIN t.of = 1..Len(t.of) /\ Len(t.of) \in Nat
  BY DEF Tasks
<1>3. ASSUME NEW m \in DOMAIN t.of
      PROVE  new[m] \in Row /\ new[m].remote /\ Pair(new[m]) = t.of[m]
  <2>1. t.of[m] \in Items
    BY <1>2
  <2> QED
    BY <2>1 DEF Added, Row, Items, Pair, Item, Statuses
<1>4. new = [m \in 1..Len(t.of) |-> new[m]]
  BY <1>2 DEF Added
<1> HIDE DEF new
<1>5. new \in [1..Len(t.of) -> Row]
  BY <1>2, <1>3, <1>4
<1>6. new \in Seq(Row) /\ Len(new) = Len(t.of)
  BY <1>2, <1>5
<1> DEFINE old == rows[p]
<1> HIDE DEF old
<1>7. old \in Seq(Row)
  BY <1>1 DEF old
<1>8. /\ old \o new \in Seq(Row) /\ Len(old \o new) = Len(old) + Len(new)
      /\ \A j \in 1..(Len(old) + Len(new)) :
            (old \o new)[j] = IF j <= Len(old) THEN old[j] ELSE new[j - Len(old)]
  BY <1>6, <1>7, ConcatProperties
<1>9. /\ DOMAIN old = 1..Len(old) /\ Len(old) \in Nat /\ DOMAIN new = 1..Len(new)
      /\ Len(new) \in Nat /\ DOMAIN (old \o new) = 1..(Len(old) + Len(new))
  BY <1>6, <1>7, <1>8
<1> DEFINE u == old \o new
<1>10. u = Longer(p, t)
  BY DEF old, new, Longer
<1>11. /\ u \in Seq(Row) /\ Len(u) = Len(old) + Len(new)
       /\ \A j \in 1..(Len(old) + Len(new)) :
             u[j] = IF j <= Len(old) THEN old[j] ELSE new[j - Len(old)]
       /\ DOMAIN u = 1..(Len(old) + Len(new))
  BY <1>8, <1>9
<1> HIDE DEF u
<1>12. \A k \in DOMAIN old : k \in DOMAIN u /\ u[k] = old[k]
  BY <1>9, <1>11
<1>13. ASSUME NEW m \in DOMAIN new
       PROVE  Len(old) + m \in DOMAIN u /\ u[Len(old) + m] = new[m]
  <2>1. /\ Len(old) + m \in 1..(Len(old) + Len(new)) /\ ~(Len(old) + m <= Len(old))
        /\ (Len(old) + m) - Len(old) = m
    BY <1>9
  <2> QED
    BY <1>11, <2>1
<1>14. ASSUME NEW k \in DOMAIN u
       PROVE  \/ k \in DOMAIN old /\ u[k] = old[k]
              \/ \E m \in DOMAIN new : u[k] = new[m] /\ k = Len(old) + m
  <2>1. CASE k <= Len(old)
    BY <1>9, <1>11, <2>1
  <2>2. CASE k > Len(old)
    <3>1. k - Len(old) \in DOMAIN new /\ k = Len(old) + (k - Len(old)) /\ ~(k <= Len(old))
      BY <1>9, <1>11, <2>2
    <3> QED
      BY <1>11, <3>1
  <2> QED
    BY <1>9, <1>11, <2>1, <2>2
<1>15. DOMAIN new = DOMAIN t.of
  BY <1>2, <1>6, <1>9
<1>16. Automated(p, t) \subseteq DOMAIN Longer(p, t)
  BY DEF Automated, Wanted
<1> QED
  BY <1>3, <1>6, <1>10, <1>11, <1>12, <1>13, <1>14, <1>15, <1>16 DEF old, new

\* The list and the tasks after AddRemoteFiles.
LEMMA AddRemoteFacts ==
    ASSUME ListType, NEW p \in Peers, NEW i \in DOMAIN todo[p], AddRemoteFiles(p, i)
    PROVE  LET t == todo[p][i] IN
           /\ t \in Tasks /\ t.op = "have_addfiles"
           /\ names' = [names EXCEPT ![p] = Insert(@, t.of)]
           /\ rows' = [rows EXCEPT ![p] = Requested(Longer(p, t), Automated(p, t))]
           /\ rows' \in [Peers -> Seq(Row)]
           /\ SameList(rows'[p], Longer(p, t))
           /\ Done(p, i, Requests(Longer(p, t), Automated(p, t)))
           /\ UNCHANGED <<counter, begin, linked, asking, wire, engineVars, peerVars,
                          bounds>>
<1> DEFINE t == todo[p][i]
<1>1. t \in Tasks /\ rows \in [Peers -> Seq(Row)]
  BY DEF ListType
<1>2. /\ t.op = "have_addfiles"
      /\ names' = [names EXCEPT ![p] = Insert(@, t.of)]
      /\ rows' = [rows EXCEPT ![p] = Requested(Longer(p, t), Automated(p, t))]
      /\ Done(p, i, Requests(Longer(p, t), Automated(p, t)))
      /\ UNCHANGED <<counter, begin, linked, asking, wire, engineVars, peerVars,
                     bounds>>
  BY DEF AddRemoteFiles, Longer, Added, Automated
<1> HIDE DEF t
<1>3. Longer(p, t) \in Seq(Row) /\ Automated(p, t) \subseteq DOMAIN Longer(p, t)
  BY <1>1, LongerFacts
<1> DEFINE new == Requested(Longer(p, t), Automated(p, t))
<1>4. new \in Seq(Row) /\ SameList(new, Longer(p, t))
  BY <1>3, RequestedFacts
<1>5. rows' = [rows EXCEPT ![p] = new]
  BY <1>2
<1> HIDE DEF new
<1>6. rows' \in [Peers -> Seq(Row)] /\ rows'[p] = new
  BY <1>1, <1>4, <1>5
<1> QED
  BY <1>1, <1>2, <1>4, <1>6 DEF t

LEMMA InsertFacts ==
    ASSUME NEW map, NEW ids \in SUBSET Int, map \in [ids -> Files \cup {NoFile}],
           NEW items \in Seq(Items)
    PROVE  /\ Insert(map, items) \in UNION {[I -> Files \cup {NoFile}] : I \in SUBSET Int}
           /\ \A id \in DOMAIN Insert(map, items) :
                 \/ id \in DOMAIN map /\ Insert(map, items)[id] = map[id]
                 \/ \E k \in DOMAIN items : Item(id, Insert(map, items)[id]) = items[k]
<1> DEFINE new == Insert(map, items)
           first(id) == CHOOSE k \in DOMAIN items : items[k].id = id
           all == DOMAIN map \cup {items[k].id : k \in DOMAIN items}
<1>1. DOMAIN map = ids
  OBVIOUS
<1>2. \A k \in DOMAIN items : items[k] \in Items
  OBVIOUS
<1>3. new = [id \in all |-> IF id \in DOMAIN map THEN map[id] ELSE items[first(id)].file]
  BY DEF Insert
<1>4. ASSUME NEW id \in all, id \notin DOMAIN map
      PROVE  first(id) \in DOMAIN items /\ items[first(id)].id = id
  <2>1. \E k \in DOMAIN items : items[k].id = id
    BY <1>4
  <2> QED
    BY <2>1
<1> HIDE DEF first
<1>5. ASSUME NEW id \in all
      PROVE  /\ id \in Int /\ new[id] \in Files \cup {NoFile}
             /\ \/ id \in DOMAIN map /\ new[id] = map[id]
                \/ \E k \in DOMAIN items : Item(id, new[id]) = items[k]
  <2>1. CASE id \in DOMAIN map
    BY <1>1, <1>3, <2>1
  <2>2. CASE id \notin DOMAIN map
    <3>1. first(id) \in DOMAIN items /\ items[first(id)].id = id
      BY <1>4, <2>2
    <3>2. items[first(id)] \in Items /\ new[id] = items[first(id)].file
      BY <1>2, <1>3, <2>2, <3>1
    <3>3. Item(id, new[id]) = items[first(id)]
      BY <3>1, <3>2 DEF Items, Item
    <3> QED
      BY <3>1, <3>2, <3>3 DEF Items
  <2> QED
    BY <2>1, <2>2
<1> HIDE DEF new, all
<1>6. all \in SUBSET Int /\ new \in [all -> Files \cup {NoFile}]
  BY <1>3, <1>5 DEF new
<1>7. DOMAIN new = all
  BY <1>6
<1> QED
  BY <1>5, <1>6, <1>7 DEF new

LEMMA FindStatus ==
    ASSUME ListType, NEW p \in Peers, NEW id, NEW at \in Find(p, id),
           NEW status \in Statuses, SetStatus(p, at, status)
    PROVE  /\ rows' \in [Peers -> Seq(Row)]
           /\ \A q \in Peers : SameList(rows'[q], rows[q])
  BY FindRow, SetStatusFacts

LEMMA SendFacts ==
    ASSUME ListType, NEW p \in Peers, NEW i \in DOMAIN todo[p], Send(p, i)
    PROVE  LET t == todo[p][i] q == Other(p) IN
           /\ t.op \in DOMAIN Arrives /\ Task(Arrives[t.op], t.of) \in Tasks
           /\ wire' = IF linked[p] /\ linked[q]
                      THEN [wire EXCEPT ![q] = Append(@, Task(Arrives[t.op], t.of))]
                      ELSE wire
           /\ Done(p, i, << >>)
           /\ UNCHANGED <<listVars, linked, asking, engineVars, peerVars, bounds>>
<1>1. todo[p][i] \in Tasks
  BY DEF ListType
<1>2. \A op \in DOMAIN Arrives : Arrives[op] \in Ops
  BY DEF Arrives, Ops
<1> QED
  BY <1>1, <1>2 DEF Send, Task, Tasks

LEMMA EraseType ==
    ASSUME ListType, NEW p \in Peers, NEW id, names' = [names EXCEPT ![p] = Erase(@, id)]
    PROVE  /\ names' \in [Peers -> UNION {[ids -> Files \cup {NoFile}] : ids \in SUBSET Int}]
           /\ names'[p] = Erase(names[p], id)
           /\ \A q \in Peers : q # p => names'[q] = names[q]
<1>1. names \in [Peers -> UNION {[ids -> Files \cup {NoFile}] : ids \in SUBSET Int}]
  BY DEF ListType
<1>2. PICK ids \in SUBSET Int : names[p] \in [ids -> Files \cup {NoFile}]
  BY <1>1
<1>3. Erase(names[p], id) \in [ids \ {id} -> Files \cup {NoFile}]
  BY <1>2 DEF Erase
<1>4. Erase(names[p], id) \in UNION {[I -> Files \cup {NoFile}] : I \in SUBSET Int}
  BY <1>2, <1>3
<1> QED
  BY <1>1, <1>4

LEMMA CancelFacts ==
    ASSUME ListType, NEW p \in Peers, NEW i \in DOMAIN todo[p], OnHaveCancelFile(p, i)
    PROVE  /\ rows' \in [Peers -> Seq(Row)]
           /\ \A q \in Peers : SameList(rows'[q], rows[q])
           /\ \E new \in Seq(Tasks) : /\ \A k \in DOMAIN new : new[k].op \in Cancels
                                      /\ Done(p, i, new)
<1> DEFINE hit == {k \in DOMAIN rows[p] : rows[p][k].id = todo[p][i].of[1].id}
           at == {k \in hit : Withdrawal(rows[p][k]) # << >>}
           due == Entries(rows[p], at)
           list == [k \in DOMAIN rows[p] |->
                       LET row == rows[p][k] IN
                       IF k \in hit THEN [row EXCEPT !.status = Canceled(row)] ELSE row]
           new == [k \in DOMAIN due |-> Withdrawal(due[k])[1]]
<1>1. rows' = [rows EXCEPT ![p] = list] /\ Done(p, i, new)
  BY DEF OnHaveCancelFile
<1>2. rows \in [Peers -> Seq(Row)] /\ rows[p] \in Seq(Row)
  BY DEF ListType
<1>3. list \in Seq(Row) /\ SameList(list, rows[p])
  BY <1>2, CanceledFacts
<1>4. new \in Seq(Tasks) /\ \A k \in DOMAIN new : new[k].op \in Cancels
  <2>1. at \in SUBSET DOMAIN rows[p] /\ \A k \in at : Withdrawal(rows[p][k]) # << >>
    OBVIOUS
  <2> HIDE DEF at
  <2> QED
    BY <1>2, <2>1, DueFacts
<1> HIDE DEF list, new
<1> QED
  BY <1>1, <1>2, <1>3, <1>4, SameListSelf

LEMMA CancelSendFacts ==
    ASSUME ListType, NEW p \in Peers, NEW i \in DOMAIN todo[p], OnCancelSendFile(p, i)
    PROVE  /\ queue' \in [Peers -> Seq(Items)]
           /\ \A q \in Peers : q # p => queue'[q] = queue[q]
           /\ \A k \in DOMAIN queue'[p] : \E j \in DOMAIN queue[p] : queue'[p][k] = queue[p][j]
<1> DEFINE at == {k \in DOMAIN queue[p] : queue[p][k].id # todo[p][i].of[1].id}
           left == Entries(queue[p], at)
<1>1. queue \in [Peers -> Seq(Items)] /\ queue[p] \in Seq(Items)
  BY DEF ListType
<1>2. queue' = [queue EXCEPT ![p] = left]
  BY DEF OnCancelSendFile
<1>3. at \in SUBSET DOMAIN queue[p]
  OBVIOUS
<1> HIDE DEF at
<1>4. /\ left \in Seq(Items)
      /\ \A k \in DOMAIN left : \E j \in DOMAIN queue[p] : left[k] = queue[p][j]
  BY <1>1, <1>3, EntriesOf
<1> HIDE DEF left
<1> QED
  BY <1>1, <1>2, <1>4

LEMMA RunType ==
    ASSUME ListType, NEW p \in Peers, NEW i \in DOMAIN todo[p], Steps(p, i)
    PROVE  ListType'
<1> DEFINE t == todo[p][i]
<1>1. /\ t \in Tasks /\ t.of[1] \in Items /\ t.of[1].id \in Int
      /\ rows \in [Peers -> Seq(Row)] /\ Other(p) \in Peers
  BY FirstItem, TwoPeers DEF ListType
<1>2. ASSUME NEW new \in Seq(Tasks), Done(p, i, new)
      PROVE  todo' \in [Peers -> Seq(Tasks)]
  BY <1>2, DoneFacts
<1>3. << >> \in Seq(Tasks)
  OBVIOUS
<1>4. CASE Send(p, i)
  <2>1. todo' \in [Peers -> Seq(Tasks)]
    BY <1>2, <1>3, <1>4, SendFacts
  <2>2. wire' \in [Peers -> Seq(Tasks)]
    <3> DEFINE new == Task(Arrives[t.op], t.of)
    <3>1. new \in Tasks /\ (wire' = wire \/ wire' = [wire EXCEPT ![Other(p)] = Append(@, new)])
      BY <1>4, SendFacts
    <3> HIDE DEF new, t
    <3>2. wire \in [Peers -> Seq(Tasks)] /\ Other(p) \in Peers
      BY <1>1 DEF ListType
    <3>3. Append(wire[Other(p)], new) \in Seq(Tasks)
      BY <3>1, <3>2
    <3> QED
      BY <3>1, <3>2, <3>3
  <2>3. UNCHANGED <<listVars, linked, asking, engineVars, peerVars, bounds>>
    BY <1>4, SendFacts
  <2> QED
    BY <2>1, <2>2, <2>3 DEF ListType, listVars, engineVars, peerVars, bounds
<1>5. CASE AddRemoteFiles(p, i)
  <2>1. /\ rows' \in [Peers -> Seq(Row)]
        /\ names' = [names EXCEPT ![p] = Insert(@, t.of)]
        /\ Done(p, i, Requests(Longer(p, t), Automated(p, t)))
        /\ UNCHANGED <<counter, begin, linked, asking, wire, engineVars, peerVars,
                       bounds>>
    BY <1>5, AddRemoteFacts
  <2>2. Requests(Longer(p, t), Automated(p, t)) \in Seq(Tasks)
    BY <1>1, LongerFacts, RequestsAre
  <2>3. todo' \in [Peers -> Seq(Tasks)]
    BY <1>2, <2>1, <2>2
  <2>4. Insert(names[p], t.of) \in UNION {[I -> Files \cup {NoFile}] : I \in SUBSET Int}
    <3>1. PICK ids \in SUBSET Int : names[p] \in [ids -> Files \cup {NoFile}]
      BY DEF ListType
    <3>2. t.of \in Seq(Items)
      BY <1>1 DEF Tasks
    <3> QED
      BY <3>1, <3>2, InsertFacts
  <2>5. names' \in [Peers -> UNION {[ids -> Files \cup {NoFile}] : ids \in SUBSET Int}]
    BY <2>1, <2>4 DEF ListType
  <2> QED
    BY <2>1, <2>3, <2>5 DEF ListType, engineVars, peerVars, bounds
<1>6. CASE NotFound(p, i)
  <2>1. todo' \in [Peers -> Seq(Tasks)]
    BY <1>2, <1>3, <1>6 DEF NotFound
  <2> QED
    BY <1>6, <2>1 DEF ListType, NotFound, listVars, engineVars, peerVars, bounds
<1>7. CASE HaveDownLoadRequest(p, i)
  <2> DEFINE id == t.of[1].id
  <2>1. PICK at \in Find(p, id) :
           \/ /\ SetStatus(p, at, "Pending")
              /\ Done(p, i, <<Task("have_file_to_send", <<Item(id, rows[p][at].file)>>)>>)
           \/ /\ SetStatus(p, at, "Error")
              /\ Done(p, i, <<About("send_expired_file", id)>>)
    BY <1>7 DEF HaveDownLoadRequest
  <2>2. rows' \in [Peers -> Seq(Row)]
    BY <2>1, FindStatus DEF Statuses
  <2>3. <<About("send_expired_file", id)>> \in Seq(Tasks)
    BY <1>1, AboutIsTask DEF Ops
  <2>4. rows[p][at] \in Row
    BY <1>1, <2>1, FindRow
  <2>5. Item(id, rows[p][at].file) \in Items
    BY <1>1, <2>4 DEF Item, Items, Row
  <2>6. <<Task("have_file_to_send", <<Item(id, rows[p][at].file)>>)>> \in Seq(Tasks)
    BY <2>5, TaskIsTask DEF Ops
  <2>7. todo' \in [Peers -> Seq(Tasks)]
    BY <1>2, <2>1, <2>3, <2>6
  <2> QED
    BY <1>7, <2>2, <2>7 DEF ListType, HaveDownLoadRequest, listVars, engineVars, peerVars, bounds
<1>8. CASE OnHaveExpiredFile(p, i)
  <2>1. rows' \in [Peers -> Seq(Row)]
    BY <1>8, FindStatus DEF OnHaveExpiredFile, Statuses
  <2>2. todo' \in [Peers -> Seq(Tasks)]
    BY <1>2, <1>3, <1>8 DEF OnHaveExpiredFile
  <2> QED
    BY <1>8, <2>1, <2>2 DEF ListType, OnHaveExpiredFile, listVars, engineVars, peerVars, bounds
<1>9. CASE RemoveFileById(p, i)
  <2> DEFINE id == t.of[1].id
  <2>1. PICK at \in Find(p, id) :
           /\ rows' = [rows EXCEPT ![p] = RemoveAt(@, at)]
           /\ \/ Done(p, i, <<About("cancel_file_send", id)>>) \/ Done(p, i, << >>)
    BY <1>9 DEF RemoveFileById
  <2>2. rows' \in [Peers -> Seq(Row)]
    BY <2>1, FindRow, RemoveRow
  <2>3. <<About("cancel_file_send", id)>> \in Seq(Tasks)
    BY <1>1, AboutIsTask DEF Ops
  <2>4. todo' \in [Peers -> Seq(Tasks)]
    BY <1>2, <1>3, <2>1, <2>3
  <2>5. names' \in [Peers -> UNION {[ids -> Files \cup {NoFile}] : ids \in SUBSET Int}]
    BY <1>9, EraseType DEF RemoveFileById
  <2> QED
    BY <1>9, <2>2, <2>4, <2>5 DEF ListType, RemoveFileById, engineVars, peerVars, bounds
<1>10. CASE OnUploadFileProgress(p, i)
  <2>1. PICK at \in Find(p, t.of[1].id) :
           \/ UNCHANGED rows \/ SetStatus(p, at, "UploadCompleted")
           \/ SetStatus(p, at, "Uploading")
    BY <1>10 DEF OnUploadFileProgress
  <2>2. rows' \in [Peers -> Seq(Row)]
    BY <1>1, <2>1, FindStatus DEF Statuses
  <2>3. todo' \in [Peers -> Seq(Tasks)]
    BY <1>2, <1>3, <1>10 DEF OnUploadFileProgress
  <2> QED
    BY <1>10, <2>2, <2>3 DEF ListType, OnUploadFileProgress, listVars, engineVars, peerVars, bounds
<1>11. CASE OnDownLoadProgress(p, i)
  <2>1. PICK at \in Find(p, t.of[1].id) :
           \/ UNCHANGED rows \/ SetStatus(p, at, "DownloadCompleted")
           \/ SetStatus(p, at, "Downloading")
    BY <1>11 DEF OnDownLoadProgress
  <2>2. rows' \in [Peers -> Seq(Row)]
    BY <1>1, <2>1, FindStatus DEF Statuses
  <2>3. todo' \in [Peers -> Seq(Tasks)]
    BY <1>2, <1>3, <1>11 DEF OnDownLoadProgress
  <2> QED
    BY <1>11, <2>2, <2>3 DEF ListType, OnDownLoadProgress, listVars, engineVars, peerVars, bounds
<1>12. CASE OnHaveCancelFile(p, i)
  <2>1. /\ rows' \in [Peers -> Seq(Row)] /\ todo' \in [Peers -> Seq(Tasks)]
    BY <1>12, CancelFacts, DoneFacts
  <2> QED
    BY <1>12, <2>1 DEF ListType, OnHaveCancelFile, listVars, engineVars, peerVars, bounds
<1>13. CASE OnHaveFileToSend(p, i)
  <2>1. todo' \in [Peers -> Seq(Tasks)]
    BY <1>2, <1>3, <1>13 DEF OnHaveFileToSend
  <2>2. queue' = [queue EXCEPT ![p] = Append(queue[p], t.of[1])] /\ queue \in [Peers -> Seq(Items)]
    BY <1>13 DEF OnHaveFileToSend, ListType
  <2>3. queue' \in [Peers -> Seq(Items)]
    <3> HIDE DEF t
    <3> QED
      BY <1>1, <2>2
  <2> QED
    BY <1>13, <2>1, <2>3 DEF ListType, OnHaveFileToSend, listVars, peerVars, bounds
<1>14. CASE OnCancelSendFile(p, i)
  <2>1. todo' \in [Peers -> Seq(Tasks)]
    BY <1>2, <1>3, <1>14 DEF OnCancelSendFile
  <2>2. queue' \in [Peers -> Seq(Items)]
    BY <1>14, CancelSendFacts
  <2> QED
    BY <1>14, <2>1, <2>2 DEF ListType, OnCancelSendFile, listVars, peerVars, bounds
<1>15. CASE OnCancelUploadFile(p, i)
  <2>1. todo' \in [Peers -> Seq(Tasks)]
    BY <1>2, <1>3, <1>15 DEF OnCancelUploadFile
  <2>2. sending' \in [Peers -> Transfer \cup {NoTransfer}]
    <3>1. CASE Sends(p, t.of[1].id)
      <4>1. sending[p] \in Transfer /\ sending \in [Peers -> Transfer \cup {NoTransfer}]
        BY <3>1 DEF Sends, ListType
      <4>2. sending' = [sending EXCEPT ![p].cancel = TRUE]
        BY <1>15, <3>1 DEF OnCancelUploadFile
      <4>3. [sending[p] EXCEPT !.cancel = TRUE] \in Transfer
        BY <4>1 DEF Transfer
      <4> QED
        BY <4>1, <4>2, <4>3
    <3>2. CASE ~Sends(p, t.of[1].id)
      BY <1>15, <3>2 DEF OnCancelUploadFile, ListType
    <3> QED
      BY <3>1, <3>2
  <2> QED
    BY <1>15, <2>1, <2>2 DEF ListType, OnCancelUploadFile, listVars, peerVars, bounds
<1> QED
  BY <1>4, <1>5, <1>6, <1>7, <1>8, <1>9, <1>10, <1>11, <1>12, <1>13, <1>14, <1>15 DEF Steps

LEMMA StreamFacts ==
    ASSUME ListType, NEW p \in Peers, sending[p] # NoTransfer,
           NEW kind \in {"header", "block", "end", "cancel"}, Stream(p, kind)
    PROVE  /\ data' \in [Peers -> Seq(Messages)]
           /\ data'[p] = data[p]
           /\ data'[Other(p)] # data[Other(p)] => linked[p] /\ linked[Other(p)]
           /\ \A k \in DOMAIN data'[Other(p)] :
                 \/ k \in DOMAIN data[Other(p)] /\ data'[Other(p)][k] = data[Other(p)][k]
                 \/ linked[p] /\ linked[Other(p)] /\ data'[Other(p)][k].of = sending[p]
<1> DEFINE q == Other(p)
           m == [kind |-> kind, of |-> sending[p]]
<1>1. q \in Peers /\ q # p
  BY TwoPeers
<1>2. data \in [Peers -> Seq(Messages)] /\ sending[p] \in Transfer
  BY DEF ListType
<1>3. m \in Messages /\ m.of = sending[p]
  BY <1>2 DEF Messages
<1>4. \/ data' = data
      \/ linked[p] /\ linked[q] /\ data' = [data EXCEPT ![q] = Append(data[q], m)]
  BY DEF Stream
<1> HIDE DEF q, m
<1>5. CASE data' = data
  BY <1>1, <1>2, <1>5 DEF q
<1>6. CASE linked[p] /\ linked[q] /\ data' = [data EXCEPT ![q] = Append(data[q], m)]
  <2>1. Append(data[q], m) \in Seq(Messages) /\ data'[q] = Append(data[q], m)
    BY <1>1, <1>2, <1>3, <1>6
  <2>2. \A k \in DOMAIN Append(data[q], m) :
           (k \in DOMAIN data[q] /\ Append(data[q], m)[k] = data[q][k]) \/ Append(data[q], m)[k] = m
    BY <1>1, <1>2, <1>3
  <2>3. data' \in [Peers -> Seq(Messages)] /\ data'[p] = data[p]
    BY <1>1, <1>2, <1>6, <2>1
  <2> QED
    BY <1>3, <1>6, <2>1, <2>2, <2>3 DEF q
<1> QED
  BY <1>4, <1>5, <1>6

LEMMA AfterReport ==
    ASSUME ListType, NEW p \in Peers, NEW op \in Ops, NEW id \in Int,
           todo' \in {todo, [todo EXCEPT ![p] = Append(@, About(op, id))]}
    PROVE  /\ todo' \in [Peers -> Seq(Tasks)]
           /\ \A q \in Peers : q # p => todo'[q] = todo[q]
           /\ \A o : o # op => Mentioned(todo'[p], o) = Mentioned(todo[p], o)
<1>1. About(op, id) \in Tasks /\ About(op, id).op = op
  BY AboutIsTask
<1>2. todo \in [Peers -> Seq(Tasks)]
  BY DEF ListType
<1> DEFINE new == About(op, id)
<1> HIDE DEF new
<1>3. Append(todo[p], new) \in Seq(Tasks)
  BY <1>1, <1>2 DEF new
<1>4. todo' = todo \/ todo' = [todo EXCEPT ![p] = Append(todo[p], new)]
  BY DEF new
<1>5. \A o : o # op => Mentioned(Append(todo[p], new), o) = Mentioned(todo[p], o)
  BY <1>1, <1>2, MentionedAppend DEF new
<1> QED
  BY <1>2, <1>3, <1>4, <1>5

LEMMA SenderType ==
    ASSUME ListType, NEW p \in Peers, Sender(p)
    PROVE  ListType'
<1> USE DEF ListType
<1>1. sending[p] # NoTransfer => sending[p] \in Transfer /\ sending[p].id \in Int
  BY DEF Transfer
<1>2. CASE TakeTask(p)
  <2>1. queue[p] \in Seq(Items) /\ queue[p] # << >>
    BY <1>2 DEF TakeTask
  <2>2. Head(queue[p]) \in Items /\ Tail(queue[p]) \in Seq(Items)
    BY <2>1
  <2> DEFINE new == [id |-> Head(queue[p]).id, file |-> Head(queue[p]).file,
                     at |-> "header", cancel |-> FALSE]
             rest == Tail(queue[p])
  <2>3. new \in Transfer
    BY <2>2 DEF Items, Transfer
  <2>4. sending' = [sending EXCEPT ![p] = new] /\ queue' = [queue EXCEPT ![p] = rest]
    BY <1>2 DEF TakeTask
  <2>5. sending' \in [Peers -> Transfer \cup {NoTransfer}]
    <3> HIDE DEF new
    <3> QED
      BY <2>3, <2>4
  <2>6. queue' \in [Peers -> Seq(Items)]
    <3>1. rest \in Seq(Items)
      BY <2>2
    <3> HIDE DEF rest
    <3> QED
      BY <2>4, <3>1
  <2> QED
    BY <1>2, <2>5, <2>6 DEF TakeTask, listVars, peerVars, bounds
<1>3. ASSUME NEW at \in {"header", "block", "end", "report"}, sending[p] # NoTransfer,
             sending' = [sending EXCEPT ![p].at = at]
      PROVE  sending' \in [Peers -> Transfer \cup {NoTransfer}]
  <2>1. [sending[p] EXCEPT !.at = at] \in Transfer
    BY <1>1, <1>3 DEF Transfer
  <2>2. sending' = [sending EXCEPT ![p] = [sending[p] EXCEPT !.at = at]]
    BY <1>3
  <2> QED
    BY <2>1, <2>2
<1>4. CASE SendHeader(p)
  <2>1. data' \in [Peers -> Seq(Messages)]
    BY <1>4, StreamFacts DEF SendHeader
  <2>2. sending' \in [Peers -> Transfer \cup {NoTransfer}]
    BY <1>3, <1>4 DEF SendHeader
  <2> QED
    BY <1>4, <2>1, <2>2 DEF SendHeader, listVars, bounds
<1>5. CASE SendBlock(p)
  <2>1. data' \in [Peers -> Seq(Messages)]
    BY <1>5, StreamFacts DEF SendBlock
  <2>2. sending' \in [Peers -> Transfer \cup {NoTransfer}]
    BY <1>3, <1>5 DEF SendBlock
  <2>3. todo' \in [Peers -> Seq(Tasks)]
    BY <1>1, <1>5, AfterReport DEF SendBlock, Ops
  <2> QED
    BY <1>5, <2>1, <2>2, <2>3 DEF SendBlock, listVars, bounds
<1>6. CASE SendEnd(p)
  <2>1. data' \in [Peers -> Seq(Messages)]
    BY <1>6, StreamFacts DEF SendEnd
  <2>2. sending' \in [Peers -> Transfer \cup {NoTransfer}]
    BY <1>3, <1>6 DEF SendEnd
  <2> QED
    BY <1>6, <2>1, <2>2 DEF SendEnd, listVars, bounds
<1>7. CASE ReportEnd(p)
  <2>1. todo' \in [Peers -> Seq(Tasks)]
    <3>1. <<About("upload_end", sending[p].id)>> \in Seq(Tasks)
      BY <1>1, <1>7, AboutIsTask DEF ReportEnd, Ops
    <3> QED
      BY <1>7, <3>1, PublishFacts DEF ReportEnd
  <2> QED
    BY <1>7, <2>1 DEF ReportEnd, listVars, peerVars, bounds
<1> QED
  BY <1>2, <1>4, <1>5, <1>6, <1>7 DEF Sender

LEMMA ParseType ==
    ASSUME ListType, NEW p \in Peers, Parse(p)
    PROVE  ListType'
<1> USE DEF ListType
<1> DEFINE m == Head(data[p])
           rest == Tail(data[p])
<1>1. data \in [Peers -> Seq(Messages)] /\ data[p] # << >>
  BY DEF Parse
<1>2. m \in Messages /\ rest \in Seq(Messages)
  BY <1>1
<1>3. m.of \in Transfer /\ m.of.id \in Int /\ m.of.file \in Files \cup {NoFile}
  BY <1>2 DEF Messages, Transfer
<1>4. parsing[p] \in Named /\ parsing[p].id \in Int
  BY DEF Named
<1>5. ASSUME data' = [data EXCEPT ![p] = rest]
      PROVE  data' \in [Peers -> Seq(Messages)]
  BY <1>1, <1>2, <1>5
<1> HIDE DEF m, rest
<1>6. UNCHANGED <<listVars, linked, asking, wire, engineVars, bounds>>
  BY DEF Parse
<1>7. CASE ParseHeader(p, m)
  <2>1. \A id \in DOMAIN names[p] : names[p][id] \in Files \cup {NoFile}
    <3>1. PICK ids \in SUBSET Int : names[p] \in [ids -> Files \cup {NoFile}]
      OBVIOUS
    <3> QED
      BY <3>1
  <2>2. CASE m.of.id \in DOMAIN names[p]
    <3> DEFINE new == [id |-> m.of.id, name |-> names[p][m.of.id], file |-> m.of.file]
    <3>1. names[p][m.of.id] \in Files \cup {NoFile}
      BY <2>1, <2>2
    <3>2. new \in Named
      BY <1>3, <3>1 DEF Named
    <3>3. parsing' = [parsing EXCEPT ![p] = new] /\ data' = [data EXCEPT ![p] = rest]
      BY <1>7, <2>2 DEF ParseHeader, rest
    <3> HIDE DEF new
    <3>4. parsing' \in [Peers -> Named] /\ data' \in [Peers -> Seq(Messages)]
      BY <1>5, <3>2, <3>3
    <3>5. UNCHANGED <<todo, stored, deaf>>
      BY <1>7, <2>2 DEF ParseHeader
    <3> QED
      BY <1>6, <3>4, <3>5 DEF listVars, engineVars, bounds
  <2>3. CASE m.of.id \notin DOMAIN names[p]
    <3>1. /\ UNCHANGED <<todo, stored, parsing>> /\ deaf' = [deaf EXCEPT ![p] = TRUE]
          /\ data' = [data EXCEPT ![p] = << >>]
      BY <1>7, <2>3 DEF ParseHeader
    <3>2. data' \in [Peers -> Seq(Messages)]
      BY <1>1, <3>1
    <3> QED
      BY <1>6, <3>1, <3>2 DEF listVars, engineVars, bounds
  <2> QED
    BY <2>2, <2>3
<1>8. CASE ParseBlock(p, m)
  <2>1. todo' \in [Peers -> Seq(Tasks)]
    BY <1>4, <1>8, AfterReport DEF ParseBlock, Ops
  <2> QED
    BY <1>5, <1>6, <1>8, <2>1 DEF ParseBlock, listVars, engineVars, bounds, rest
<1>9. CASE ParseEnd(p, m)
  <2>1. /\ <<About("download_end", parsing[p].id)>> \in Seq(Tasks)
        /\ <<About("have_cancel_transit", parsing[p].id)>> \in Seq(Tasks)
    BY <1>4, AboutIsTask DEF Ops
  <2>2. todo' \in [Peers -> Seq(Tasks)]
    BY <1>9, <2>1, PublishFacts DEF ParseEnd
  <2>3. [name |-> parsing[p].name, content |-> parsing[p].file]
           \in [name : Files \cup {NoFile}, content : Files \cup {NoFile}]
    BY <1>4 DEF Named
  <2>4. stored' \in [Peers -> SUBSET [name : Files \cup {NoFile}, content : Files \cup {NoFile}]]
    BY <1>9, <2>3 DEF ParseEnd
  <2> QED
    BY <1>5, <1>6, <1>9, <2>2, <2>4 DEF ParseEnd, listVars, engineVars, bounds, rest
<1> QED
  BY <1>7, <1>8, <1>9 DEF Parse, m

LEMMA RowIs ==
    ASSUME ListType, NEW p \in Peers
    PROVE  /\ rows[p] \in Seq(Row) /\ rows \in [Peers -> Seq(Row)]
           /\ \A i \in DOMAIN rows[p] :
                 rows[p][i] \in Row /\ rows[p][i].id \in Int /\ rows[p][i].remote \in BOOLEAN
<1>1. rows[p] \in Seq(Row) /\ rows \in [Peers -> Seq(Row)]
  BY DEF ListType
<1>2. \A i \in DOMAIN rows[p] : rows[p][i] \in Row
  BY <1>1
<1>3. \A r \in Row : r.id \in Int /\ r.remote \in BOOLEAN
  BY DEF Row
<1> QED
  BY <1>1, <1>2, <1>3

LEMMA AddFileFacts ==
    ASSUME ListType, NEW p \in Peers, NEW f \in Files, AddFile(p, f)
    PROVE  LET new == [file |-> f, remote |-> FALSE, id |-> counter[p],
                       status |-> "LocalDefault"]
               task == Task("send_addfiles", <<Item(counter[p], f)>>)
           IN  /\ new \in Row /\ task \in Tasks
               /\ rows' = [rows EXCEPT ![p] = Append(@, new)]
               /\ rows' \in [Peers -> Seq(Row)]
               /\ counter' = [counter EXCEPT ![p] = NextId(p, 1)]
               /\ Publish(p, IF linked[p] THEN <<task>> ELSE << >>)
               /\ ~asking[p] /\ gestures' = gestures + 1
               /\ UNCHANGED <<names, begin, linked, asking, wire, engineVars, peerVars,
                              sessions, mishaps>>
<1> DEFINE new == [file |-> f, remote |-> FALSE, id |-> counter[p],
                   status |-> "LocalDefault"]
<1>1. new \in Row
  BY DEF Row, Statuses, ListType
<1>2. Item(counter[p], f) \in Items
  BY DEF Item, Items, ListType
<1>3. Task("send_addfiles", <<Item(counter[p], f)>>) \in Tasks
  BY <1>2, TaskIsTask DEF Ops
<1>4. rows' = [rows EXCEPT ![p] = Append(rows[p], new)] /\ rows \in [Peers -> Seq(Row)]
  BY DEF AddFile, ListType
<1>5. rows' \in [Peers -> Seq(Row)]
  <2> HIDE DEF new
  <2> QED
    BY <1>1, <1>4
<1> QED
  BY <1>1, <1>3, <1>4, <1>5 DEF AddFile, Gesture

LEMMA DownloadAllFacts ==
    ASSUME ListType, NEW p \in Peers, DownloadAll(p)
    PROVE  /\ rows' \in [Peers -> Seq(Row)]
           /\ \A q \in Peers : SameList(rows'[q], rows[q])
           /\ \E wanted \in SUBSET DOMAIN rows[p] :
                 /\ \A k \in wanted : rows[p][k].status \in {"RemoteDefault", "DownloadCancel"}
                 /\ Publish(p, Requests(rows[p], wanted))
<1> DEFINE wanted == Wanted(rows[p], {"RemoteDefault", "DownloadCancel"}, Files)
           new == Requested(rows[p], wanted)
<1>1. rows \in [Peers -> Seq(Row)] /\ rows[p] \in Seq(Row)
  BY DEF ListType
<1>2. /\ wanted \in SUBSET DOMAIN rows[p]
      /\ \A k \in wanted : rows[p][k].status \in {"RemoteDefault", "DownloadCancel"}
  BY DEF Wanted
<1>3. rows' = [rows EXCEPT ![p] = new] /\ Publish(p, Requests(rows[p], wanted))
  BY DEF DownloadAll
<1> HIDE DEF wanted
<1>4. new \in Seq(Row) /\ SameList(new, rows[p])
  BY <1>1, <1>2, RequestedFacts
<1> HIDE DEF new
<1> QED
  BY <1>1, <1>2, <1>3, <1>4, SameListSelf

\* The tasks with which the peer is told that a file is gone.
LEMMA RemoveFileFacts ==
    ASSUME ListType, NEW p \in Peers, NEW i \in DOMAIN rows[p], RemoveFile(p, i)
    PROVE  LET told == IF linked[p]
                       THEN <<About("send_deletefiles", rows[p][i].id)>> ELSE << >>
           IN  /\ told \in Seq(Tasks) /\ CancelTasks(rows[p][i]) \o told \in Seq(Tasks)
               /\ \A op : op \notin Cancels =>
                     Mentioned(CancelTasks(rows[p][i]) \o told, op) = Mentioned(told, op)
               /\ \A op : op # "send_deletefiles" => Mentioned(told, op) = {}
               /\ Publish(p, CancelTasks(rows[p][i]) \o told)
               /\ rows' \in [Peers -> Seq(Row)]
<1> DEFINE told == IF linked[p]
                   THEN <<About("send_deletefiles", rows[p][i].id)>> ELSE << >>
           first == CancelTasks(rows[p][i])
<1>1. rows[p][i] \in Row
  BY DEF ListType
<1>2. rows[p][i].id \in Int
  BY <1>1 DEF Row
<1>3. "send_deletefiles" \in Ops
  BY DEF Ops
<1>4. /\ About("send_deletefiles", rows[p][i].id) \in Tasks
      /\ About("send_deletefiles", rows[p][i].id).op = "send_deletefiles"
      /\ <<About("send_deletefiles", rows[p][i].id)>> \in Seq(Tasks)
  BY <1>2, <1>3, AboutIsTask
<1>5. told \in Seq(Tasks)
  BY <1>4
<1>6. \A op : op # "send_deletefiles" => Mentioned(told, op) = {}
  BY <1>4, MentionedOne, MentionedNone
<1>7. first \in Seq(Tasks) /\ \A op : op \notin Cancels => Mentioned(first, op) = {}
  BY <1>1, CancelTasksAre, MentionedOther
<1>8. Publish(p, first \o told)
  BY DEF RemoveFile
<1>9. rows' \in [Peers -> Seq(Row)]
  BY RemoveRow DEF RemoveFile
<1> HIDE DEF told, first
<1>10. first \o told \in Seq(Tasks)
  BY <1>5, <1>7
<1>11. \A op : op \notin Cancels => Mentioned(first \o told, op) = Mentioned(told, op)
  <2> SUFFICES ASSUME NEW op, op \notin Cancels
               PROVE  Mentioned(first \o told, op) = Mentioned(told, op)
    OBVIOUS
  <2>1. Mentioned(first \o told, op) = Mentioned(first, op) \cup Mentioned(told, op)
    BY <1>5, <1>7, MentionedConcat
  <2> QED
    BY <1>7, <2>1
<1> QED
  BY <1>5, <1>6, <1>8, <1>9, <1>10, <1>11 DEF told, first

LEMMA WindowType ==
    ASSUME ListType, NEW p \in Peers, Window(p)
    PROVE  ListType'
<1>1. ASSUME NEW new \in Seq(Tasks), Publish(p, new)
      PROVE  todo' \in [Peers -> Seq(Tasks)]
  BY <1>1, PublishFacts
<1>2. << >> \in Seq(Tasks)
  OBVIOUS
<1>3. ASSUME NEW f \in Files, AddFile(p, f)
      PROVE  ListType'
  <2> DEFINE task == Task("send_addfiles", <<Item(counter[p], f)>>)
  <2>1. /\ task \in Tasks /\ rows' \in [Peers -> Seq(Row)]
        /\ counter' = [counter EXCEPT ![p] = NextId(p, 1)]
        /\ Publish(p, IF linked[p] THEN <<task>> ELSE << >>)
        /\ gestures' = gestures + 1
        /\ UNCHANGED <<names, begin, linked, asking, wire, engineVars, peerVars,
                       sessions, mishaps>>
    BY <1>3, AddFileFacts
  <2> HIDE DEF task
  <2>2. todo' \in [Peers -> Seq(Tasks)]
    <3>1. (IF linked[p] THEN <<task>> ELSE << >>) \in Seq(Tasks)
      BY <1>2, <2>1, OneTask
    <3> QED
      BY <1>1, <2>1, <3>1
  <2>3. counter' \in [Peers -> Int]
    BY <2>1, NextIdType DEF ListType
  <2> QED
    BY <2>1, <2>2, <2>3 DEF ListType, engineVars, peerVars
<1>4. ASSUME NEW i \in DOMAIN rows[p], DownloadFile(p, i)
      PROVE  ListType'
  <2>1. rows' \in [Peers -> Seq(Row)]
    BY <1>4, SetStatusFacts DEF DownloadFile, Statuses
  <2>2. rows[p][i].id \in Int /\ "send_get_file" \in Ops
    BY RowIs DEF Ops
  <2>3. <<About("send_get_file", rows[p][i].id)>> \in Seq(Tasks)
    BY <2>2, AboutIsTask
  <2>4. todo' \in [Peers -> Seq(Tasks)]
    BY <1>1, <1>4, <2>3 DEF DownloadFile
  <2> QED
    BY <1>4, <2>1, <2>4 DEF ListType, DownloadFile, Gesture, engineVars, peerVars
<1>5. ASSUME NEW i \in DOMAIN rows[p], CancelTransit(p, i)
      PROVE  ListType'
  <2>1. rows[p][i] \in Row
    BY DEF ListType
  <2>2. todo' \in [Peers -> Seq(Tasks)]
    BY <1>1, <1>5, <2>1, CancelTasksAre DEF CancelTransit
  <2>3. Canceled(rows[p][i]) \in Statuses
    BY DEF Canceled, Statuses
  <2>4. rows' \in [Peers -> Seq(Row)]
    <3>1. UNCHANGED rows \/ SetStatus(p, i, Canceled(rows[p][i]))
      BY <1>5 DEF CancelTransit
    <3> QED
      BY <2>3, <3>1, SetStatusFacts DEF ListType
  <2> QED
    BY <1>5, <2>2, <2>4 DEF ListType, CancelTransit, Gesture, engineVars, peerVars
<1>6. ASSUME NEW i \in DOMAIN rows[p], RemoveFile(p, i)
      PROVE  ListType'
  <2>1. rows' \in [Peers -> Seq(Row)] /\ todo' \in [Peers -> Seq(Tasks)]
    BY <1>1, <1>6, RemoveFileFacts
  <2>2. names' \in [Peers -> UNION {[ids -> Files \cup {NoFile}] : ids \in SUBSET Int}]
    BY <1>6, EraseType DEF RemoveFile
  <2> QED
    BY <1>6, <2>1, <2>2 DEF ListType, RemoveFile, Gesture, engineVars, peerVars
<1>7. CASE DownloadAll(p)
  <2>1. rows' \in [Peers -> Seq(Row)] /\ todo' \in [Peers -> Seq(Tasks)]
    <3>1. rows[p] \in Seq(Row)
      BY DEF ListType
    <3> QED
      BY <1>1, <1>7, <3>1, DownloadAllFacts, RequestsAre
  <2> QED
    BY <1>7, <2>1 DEF ListType, DownloadAll, Gesture, engineVars, peerVars
<1>8. CASE SyncCurrentFiles(p)
  <2>1. Renumbered(p) \in Seq(Row) /\ rows[p] \in Seq(Row)
    BY RenumberedFacts DEF ListType
  <2>2. rows' \in [Peers -> Seq(Row)]
    <3>1. rows' = [rows EXCEPT ![p] = Renumbered(p)] /\ rows \in [Peers -> Seq(Row)]
      BY <1>8, SyncFacts DEF ListType
    <3> QED
      BY <2>1, <3>1
  <2>3. NextId(p, Cardinality(Own(rows[p]))) \in Int
    <3>1. Cardinality(Own(rows[p])) \in Int
      BY <2>1, OwnFacts
    <3> QED
      BY <3>1, NextIdType
  <2>4. counter' \in [Peers -> Int]
    BY <1>8, <2>3, SyncFacts DEF ListType
  <2>5. asking' \in [Peers -> BOOLEAN]
    BY <1>8, SyncFacts DEF ListType
  <2>6. todo' \in [Peers -> Seq(Tasks)]
    BY <1>1, <1>2, <1>8, <2>1, SyncFacts, AnnouncedFacts, OneTask
  <2>7. UNCHANGED <<names, begin, linked, wire, engineVars, peerVars, bounds>>
    BY <1>8, SyncFacts
  <2> QED
    BY <2>2, <2>4, <2>5, <2>6, <2>7 DEF ListType, engineVars, peerVars, bounds
<1>9. CASE DeclineSync(p)
  BY <1>9 DEF DeclineSync, ListType, listVars, engineVars, peerVars, bounds
<1> QED
  BY <1>3, <1>4, <1>5, <1>6, <1>7, <1>8, <1>9 DEF Window

LEMMA ReceiveFacts ==
    ASSUME ListType, NEW p \in Peers, Receive(p)
    PROVE  /\ linked[p] /\ wire[p] \in Seq(Tasks) /\ wire[p] # << >>
           /\ Head(wire[p]) \in Tasks /\ <<Head(wire[p])>> \in Seq(Tasks)
           /\ Tail(wire[p]) \in Seq(Tasks)
           /\ wire' = [wire EXCEPT ![p] = Tail(wire[p])]
           /\ Publish(p, <<Head(wire[p])>>)
           /\ UNCHANGED <<listVars, linked, asking, engineVars, peerVars, bounds, mishaps>>
<1>1. wire[p] \in Seq(Tasks) /\ wire[p] # << >>
  BY DEF ListType, Receive
<1> QED
  BY <1>1 DEF Receive

LEMMA CloseRows ==
    ASSUME ListType, NEW p \in Peers, Close(p)
    PROVE  /\ rows' \in [Peers -> Seq(Row)]
           /\ \A q \in Peers : q # p => rows'[q] = rows[q]
<1> DEFINE own == Entries(rows[p], Own(rows[p]))
           new == [k \in DOMAIN own |-> [own[k] EXCEPT !.status = "LocalDefault"]]
<1>1. rows \in [Peers -> Seq(Row)] /\ rows[p] \in Seq(Row)
  BY RowIs
<1>2. own \in Seq(Row)
  BY <1>1, OwnFacts, EntriesOf
<1>3. rows' = [rows EXCEPT ![p] = new]
  BY DEF Close
<1> HIDE DEF own
<1>4. \A k \in DOMAIN own : new[k] = [own[k] EXCEPT !.status = "LocalDefault"]
  OBVIOUS
<1>5. "LocalDefault" \in Statuses /\ new = [k \in DOMAIN own |-> new[k]]
  BY DEF Statuses
<1> HIDE DEF new
<1>6. new \in Seq(Row)
  BY <1>2, <1>4, <1>5, StatusesSet
<1> QED
  BY <1>1, <1>3, <1>6

LEMMA TypeStep == ListType /\ [Next]_vars => ListType'
<1> SUFFICES ASSUME ListType, [Next]_vars PROVE ListType'
  OBVIOUS
<1>1. CASE Connect
  <2>1. /\ linked' \in [Peers -> BOOLEAN] /\ asking' \in [Peers -> BOOLEAN]
        /\ begin' \in [Peers -> {"Low", "High"}] /\ counter' \in [Peers -> Int]
        /\ sessions' \in 0..MaxSessions
    BY <1>1, ListAssumption DEF Connect, ListType
  <2> QED
    BY <1>1, <2>1 DEF Connect, ListType, engineVars, peerVars
<1>2. ASSUME NEW p \in Peers, NEW i \in DOMAIN todo[p], Steps(p, i)
      PROVE  ListType'
  BY <1>2, RunType
<1>3. ASSUME NEW p \in Peers, Receive(p)
      PROVE  ListType'
  <2>1. wire' \in [Peers -> Seq(Tasks)]
    <3>1. /\ wire' = [wire EXCEPT ![p] = Tail(wire[p])] /\ Tail(wire[p]) \in Seq(Tasks)
          /\ wire \in [Peers -> Seq(Tasks)]
      BY <1>3, ReceiveFacts DEF ListType
    <3> QED
      BY <3>1
  <2>2. todo' \in [Peers -> Seq(Tasks)]
    BY <1>3, ReceiveFacts, PublishFacts
  <2> QED
    BY <1>3, <2>1, <2>2, ReceiveFacts DEF ListType, listVars, engineVars, peerVars, bounds
<1>4. ASSUME NEW p \in Peers, Close(p)
      PROVE  ListType'
  <2>1. rows' \in [Peers -> Seq(Row)]
    BY <1>4, CloseRows
  <2>2. /\ linked' \in [Peers -> BOOLEAN] /\ asking' \in [Peers -> BOOLEAN]
        /\ deaf' \in [Peers -> BOOLEAN] /\ begin' \in [Peers -> {"Low", "High"}]
        /\ counter' \in [Peers -> Int]
    <3>1. /\ linked \in [Peers -> BOOLEAN] /\ asking \in [Peers -> BOOLEAN]
          /\ deaf \in [Peers -> BOOLEAN] /\ begin \in [Peers -> {"Low", "High"}]
          /\ counter \in [Peers -> Int]
      BY DEF ListType
    <3>2. /\ linked' = [linked EXCEPT ![p] = FALSE]
          /\ asking' = [asking EXCEPT ![p] = FALSE]
          /\ deaf' = [deaf EXCEPT ![p] = FALSE]
          /\ \/ UNCHANGED <<begin, counter>>
             \/ /\ begin' = [begin EXCEPT ![p] = "Low"]
                /\ counter' = [counter EXCEPT ![p] = 0]
      BY <1>4 DEF Close
    <3> QED
      BY <3>1, <3>2
  <2>3. wire' \in [Peers -> Seq(Tasks)] /\ data' \in [Peers -> Seq(Messages)]
    <3>1. wire \in [Peers -> Seq(Tasks)] /\ data \in [Peers -> Seq(Messages)]
      BY DEF ListType
    <3>2. /\ wire' = [wire EXCEPT ![p] = << >>] /\ data' = [data EXCEPT ![p] = << >>]
          /\ << >> \in Seq(Tasks) /\ << >> \in Seq(Messages)
      BY <1>4 DEF Close
    <3> QED
      BY <3>1, <3>2
  <2>4. parsing' \in [Peers -> Named]
    BY <1>4 DEF Close, ListType, Silent, Named
  <2> QED
    BY <1>4, <2>1, <2>2, <2>3, <2>4 DEF Close, ListType, engineVars, bounds
<1>5. CASE UNCHANGED vars
  BY <1>5 DEF vars, ListType, listVars, engineVars, peerVars, bounds
<1>6. ASSUME NEW p \in Peers, Run(p)
      PROVE  ListType'
  BY <1>2, <1>6 DEF Run, Steps
<1>7. ASSUME NEW p \in Peers, Sender(p) \/ Parse(p) \/ Window(p)
      PROVE  ListType'
  BY <1>7, SenderType, ParseType, WindowType
<1> QED
  BY <1>1, <1>3, <1>4, <1>5, <1>6, <1>7 DEF Next

\* The lists, the tasks, the messages and the transfers have their types, for
\* any peers, files and gestures (FileListModel, NetworkController).
THEOREM ListTypeCorrect == Spec => []ListType
  BY TypeInit, TypeStep, PTL DEF Spec

-----------------------------------------------------------------------------
(* The files that the ids of a peer stand for, wherever they are mentioned *)

Remote(list) == {i \in DOMAIN list : list[i].remote}

\* The peer's own rows, and those it shows of the other's files.
Listed(p) == {Pair(rows[p][i]) : i \in Own(rows[p])}
Shows(p) == {Pair(rows[p][i]) : i \in Remote(rows[p])}
NamedBy(p) == {Item(id, names[p][id]) : id \in DOMAIN names[p]}
Queued(p) == {queue[p][k] : k \in DOMAIN queue[p]}
AtSender(p) == IF sending[p] = NoTransfer THEN {} ELSE {Pair(sending[p])}
Streamed(p) == {Pair(data[p][k].of) : k \in DOMAIN data[p]}

Open == \A p \in Peers : linked[p]

\* What p's ids stand for at the other end, and with p itself: the own rows
\* are counted anew while the window asks.
Heard(p) == LET q == Other(p) IN
    NamedBy(q) \cup Mentioned(wire[q], "have_addfiles")
    \cup Mentioned(todo[q], "have_addfiles") \cup Streamed(q)
Told(p) ==
    (IF asking[p] THEN {} ELSE Listed(p)) \cup Shows(Other(p))
    \cup Mentioned(todo[p], "send_addfiles")
    \cup Mentioned(todo[p], "have_file_to_send") \cup Queued(p) \cup AtSender(p)
Known(p) == Heard(p) \cup (IF Open THEN Told(p) ELSE {})

IdsOf(items) == {x.id : x \in items}

\* The ids of p that the other end asks for.
Asked(p) == IdsOf(Mentioned(todo[Other(p)], "send_get_file")
                  \cup Mentioned(wire[p], "have_download_request")
                  \cup Mentioned(todo[p], "have_download_request"))

\* The ids that p has given out, from its end of the range.
Used(p) == IF p = Dialer THEN 0 .. (counter[p] - 1) ELSE (counter[p] + 1) .. Top
Count(p) == IF p = Dialer THEN counter[p] ELSE Top - counter[p]
Spent(p) == IF asking[p] THEN Cardinality(Own(rows[p])) ELSE Count(p)

Agree == \A p \in Peers : \A x, y \in Known(p) : x.id = y.id => x.file = y.file

Counted ==
    \A p \in Peers :
       /\ IdsOf(Known(p)) \subseteq Used(p) /\ Asked(p) \subseteq Used(p)
       /\ begin[p] = (IF p = Dialer THEN "Low" ELSE "High")
       /\ asking[p] => Count(p) = 0
       /\ Count(p) >= 0 /\ Spent(p) + Spent(Other(p)) <= gestures

\* Before the first session there are only the own files.
Pristine ==
    /\ \A p \in Peers :
          /\ ~linked[p] /\ ~asking[p] /\ sending[p] = NoTransfer
          /\ todo[p] = << >> /\ wire[p] = << >> /\ queue[p] = << >> /\ data[p] = << >>
          /\ DOMAIN names[p] = {}
          /\ \A i \in DOMAIN rows[p] :
                ~rows[p][i].remote /\ rows[p][i].status = "LocalDefault"
          /\ Cardinality(Own(rows[p])) + Cardinality(Own(rows[Other(p)])) <= gestures

\* The first session, both lists announced, and no more ids than there are.
First == sessions <= 1 /\ gestures <= Top /\ "unsynced" \notin mishaps

IdInv ==
    First => /\ sessions = 0 => Pristine
             /\ sessions = 1 => Agree /\ (Open => Counted)

\* Own rows do not have the statuses that are asked for, and what arrives is
\* what JsonParser publishes.
Fine(row) == row.remote \/ row.status \notin {"RemoteDefault", "DownloadCancel"}
Shape ==
    \A p \in Peers :
       /\ \A i \in DOMAIN rows[p] : Fine(rows[p][i])
       /\ \A k \in DOMAIN wire[p] : wire[p][k].op \in {Arrives[op] : op \in DOMAIN Arrives}

NamedRight == First => \A p \in Peers : parsing[p].name = parsing[p].file

-----------------------------------------------------------------------------
(* Most steps only say again what is said already *)

RowsMove ==
    \A r \in Peers :
       /\ Listed(r)' \subseteq Listed(r)
       /\ Shows(r)' \subseteq Shows(r) \cup Mentioned(todo[r], "have_addfiles")
       /\ Cardinality(Own(rows'[r])) <= Cardinality(Own(rows[r]))
NamesMove ==
    \A r \in Peers :
       NamedBy(r)' \subseteq NamedBy(r) \cup Mentioned(todo[r], "have_addfiles")
TodoMove ==
    \A r \in Peers :
       /\ Mentioned(todo'[r], "send_addfiles") \subseteq Mentioned(todo[r], "send_addfiles")
       /\ Mentioned(todo'[r], "have_addfiles") \subseteq
              Mentioned(todo[r], "have_addfiles") \cup Mentioned(wire[r], "have_addfiles")
       /\ Open => Mentioned(todo'[r], "have_file_to_send") \subseteq
                      Mentioned(todo[r], "have_file_to_send")
                      \cup (IF asking[r] THEN {} ELSE Listed(r))
       /\ IdsOf(Mentioned(todo'[r], "send_get_file")) \subseteq
              IdsOf(Mentioned(todo[r], "send_get_file") \cup Shows(r)
                    \cup Mentioned(todo[r], "have_addfiles"))
       /\ Mentioned(todo'[r], "have_download_request") \subseteq
              Mentioned(todo[r], "have_download_request")
              \cup Mentioned(wire[r], "have_download_request")
WireMove ==
    \A r \in Peers :
       /\ Mentioned(wire'[r], "have_addfiles") \subseteq
              Mentioned(wire[r], "have_addfiles")
              \cup (IF Open THEN Mentioned(todo[Other(r)], "send_addfiles") ELSE {})
       /\ Mentioned(wire'[r], "have_download_request") \subseteq
              Mentioned(wire[r], "have_download_request")
              \cup Mentioned(todo[Other(r)], "send_get_file")
QueueMove ==
    \A r \in Peers : Queued(r)' \subseteq Queued(r) \cup Mentioned(todo[r], "have_file_to_send")
SendingMove ==
    \A r \in Peers : AtSender(r)' \subseteq AtSender(r) \cup Queued(r)
DataMove ==
    \A r \in Peers :
       Streamed(r)' \subseteq Streamed(r) \cup (IF Open THEN AtSender(Other(r)) ELSE {})

Moves ==
    /\ RowsMove /\ NamesMove /\ TodoMove /\ WireMove
    /\ QueueMove /\ SendingMove /\ DataMove
    /\ UNCHANGED <<linked, asking, counter, begin, sessions>>
    /\ gestures' \in {gestures, gestures + 1} /\ mishaps \subseteq mishaps'

LEMMA SomePeer == \E p \in Peers : TRUE
  BY ListAssumption

LEMMA IdsOfIs == \A S, id : id \in IdsOf(S) <=> \E x \in S : x.id = id
  BY DEF IdsOf

LEMMA NothingNew ==
    ASSUME Moves, NEW p \in Peers
    PROVE  Known(p)' \subseteq Known(p)
<1> DEFINE q == Other(p)
<1>1. q \in Peers /\ Other(q) = p
  BY TwoPeers
<1>2. Open' = Open /\ asking' = asking
  BY DEF Moves, Open
<1>3. Heard(p)' \subseteq Known(p)
  <2>1. NamedBy(q)' \subseteq NamedBy(q) \cup Mentioned(todo[q], "have_addfiles")
    BY <1>1 DEF Moves, NamesMove
  <2>2. /\ Mentioned(wire'[q], "have_addfiles") \subseteq
               Mentioned(wire[q], "have_addfiles")
               \cup (IF Open THEN Mentioned(todo[p], "send_addfiles") ELSE {})
        /\ Mentioned(todo'[q], "have_addfiles") \subseteq
              Mentioned(todo[q], "have_addfiles") \cup Mentioned(wire[q], "have_addfiles")
        /\ Streamed(q)' \subseteq Streamed(q) \cup (IF Open THEN AtSender(p) ELSE {})
    BY <1>1 DEF Moves, WireMove, TodoMove, DataMove
  <2>3. Heard(p)' = NamedBy(q)' \cup Mentioned(wire'[q], "have_addfiles")
                    \cup Mentioned(todo'[q], "have_addfiles") \cup Streamed(q)'
    BY DEF Heard
  <2> QED
    BY <2>1, <2>2, <2>3 DEF Known, Heard, Told
<1>4. Told(p)' \subseteq Told(p) \cup Heard(p) \/ ~Open
  <2>1. /\ Listed(p)' \subseteq Listed(p)
        /\ Shows(q)' \subseteq Shows(q) \cup Mentioned(todo[q], "have_addfiles")
        /\ Mentioned(todo'[p], "send_addfiles") \subseteq Mentioned(todo[p], "send_addfiles")
        /\ Open => Mentioned(todo'[p], "have_file_to_send") \subseteq
                       Mentioned(todo[p], "have_file_to_send")
                       \cup (IF asking[p] THEN {} ELSE Listed(p))
        /\ Queued(p)' \subseteq Queued(p) \cup Mentioned(todo[p], "have_file_to_send")
        /\ AtSender(p)' \subseteq AtSender(p) \cup Queued(p)
    BY <1>1 DEF Moves, RowsMove, TodoMove, QueueMove, SendingMove
  <2>2. Told(p)' = (IF asking'[p] THEN {} ELSE Listed(p)') \cup Shows(q)'
                   \cup Mentioned(todo'[p], "send_addfiles")
                   \cup Mentioned(todo'[p], "have_file_to_send") \cup Queued(p)'
                   \cup AtSender(p)'
    BY DEF Told
  <2> QED
    BY <1>2, <2>1, <2>2 DEF Heard, Told
<1> QED
  BY <1>2, <1>3, <1>4 DEF Known

LEMMA NoneElseAsked ==
    ASSUME Moves, Open, NEW p \in Peers
    PROVE  Asked(p)' \subseteq Asked(p) \cup IdsOf(Known(p))
<1> DEFINE q == Other(p)
<1>1. q \in Peers /\ Other(q) = p
  BY TwoPeers
<1>2. /\ IdsOf(Mentioned(todo'[q], "send_get_file")) \subseteq
            IdsOf(Mentioned(todo[q], "send_get_file") \cup Shows(q)
                  \cup Mentioned(todo[q], "have_addfiles"))
      /\ Mentioned(wire'[p], "have_download_request") \subseteq
            Mentioned(wire[p], "have_download_request")
            \cup Mentioned(todo[q], "send_get_file")
      /\ Mentioned(todo'[p], "have_download_request") \subseteq
            Mentioned(todo[p], "have_download_request")
            \cup Mentioned(wire[p], "have_download_request")
  BY <1>1 DEF Moves, TodoMove, WireMove
<1>3. Shows(q) \cup Mentioned(todo[q], "have_addfiles") \subseteq Known(p)
  BY DEF Known, Told, Heard
<1> SUFFICES ASSUME NEW id \in Asked(p)'
             PROVE  id \in Asked(p) \cup IdsOf(Known(p))
  OBVIOUS
<1>4. PICK x \in Mentioned(todo'[q], "send_get_file")
                 \cup Mentioned(wire'[p], "have_download_request")
                 \cup Mentioned(todo'[p], "have_download_request") : x.id = id
  BY IdsOfIs DEF Asked
<1>5. CASE x \in Mentioned(todo'[q], "send_get_file")
  <2>1. id \in IdsOf(Mentioned(todo[q], "send_get_file") \cup Shows(q)
                     \cup Mentioned(todo[q], "have_addfiles"))
    BY <1>2, <1>4, <1>5, IdsOfIs
  <2>2. PICK y \in Mentioned(todo[q], "send_get_file") \cup Known(p) : y.id = id
    BY <1>3, <2>1, IdsOfIs
  <2> QED
    BY <2>2, IdsOfIs DEF Asked
<1>6. CASE x \notin Mentioned(todo'[q], "send_get_file")
  <2>1. x \in Mentioned(todo[q], "send_get_file")
              \cup Mentioned(wire[p], "have_download_request")
              \cup Mentioned(todo[p], "have_download_request")
    BY <1>2, <1>4, <1>6
  <2> QED
    BY <1>4, <2>1, IdsOfIs DEF Asked
<1> QED
  BY <1>5, <1>6

LEMMA CountType ==
    ASSUME ListType, NEW p \in Peers
    PROVE  /\ Count(p) \in Int /\ counter[p] \in Int /\ Top \in Nat
           /\ Cardinality(Own(rows[p])) \in Nat /\ Spent(p) \in Int
<1>1. counter[p] \in Int /\ rows[p] \in Seq(Row)
  BY DEF ListType
<1>2. Top \in Nat
  BY ListAssumption
<1>3. Cardinality(Own(rows[p])) \in Nat
  BY <1>1, OwnFacts
<1>4. Count(p) \in Int
  BY <1>1, <1>2 DEF Count
<1> QED
  BY <1>1, <1>2, <1>3, <1>4 DEF Spent

LEMMA MovesKeep ==
    ASSUME ListType, ListType', IdInv, sessions = 1, Moves
    PROVE  IdInv'
<1> SUFFICES ASSUME First'
             PROVE  (sessions = 1 => Agree /\ (Open => Counted))'
  BY DEF Moves, IdInv
<1>1. gestures \in Nat /\ gestures' \in Nat /\ gestures <= gestures' /\ Top \in Nat
  BY ListAssumption DEF Moves, ListType
<1>2. First
  BY <1>1 DEF First, Moves
<1>3. Agree /\ (Open => Counted)
  BY <1>2 DEF IdInv
<1>4. Agree'
  <2> SUFFICES ASSUME NEW p \in Peers, NEW x \in Known(p)', NEW y \in Known(p)', x.id = y.id
               PROVE  x.file = y.file
    BY DEF Agree
  <2> QED
    BY <1>3, NothingNew DEF Agree
<1>5. ASSUME Open'
      PROVE  Counted'
  <2>1. Open /\ Counted
    BY <1>3, <1>5 DEF Open, Moves
  <2>2. counter' = counter /\ begin' = begin /\ asking' = asking
    BY DEF Moves
  <2>3. ASSUME NEW p \in Peers
        PROVE  /\ IdsOf(Known(p)') \subseteq Used(p)' /\ Asked(p)' \subseteq Used(p)'
               /\ begin'[p] = (IF p = Dialer THEN "Low" ELSE "High")
               /\ asking'[p] => Count(p)' = 0
               /\ Count(p)' >= 0
    <3>1. IdsOf(Known(p)) \subseteq Used(p) /\ Asked(p) \subseteq Used(p)
      BY <2>1 DEF Counted
    <3>2. Used(p)' = Used(p) /\ Count(p)' = Count(p)
      BY <2>2 DEF Used, Count
    <3>3. IdsOf(Known(p)') \subseteq IdsOf(Known(p))
      BY NothingNew, IdsOfIs
    <3>4. Asked(p)' \subseteq Asked(p) \cup IdsOf(Known(p))
      BY <2>1, NoneElseAsked
    <3> QED
      BY <2>1, <2>2, <3>1, <3>2, <3>3, <3>4 DEF Counted
  <2>4. ASSUME NEW p \in Peers
        PROVE  Spent(p)' <= Spent(p) /\ Spent(p)' \in Int /\ Spent(p) \in Int
    <3>1. /\ Cardinality(Own(rows'[p])) <= Cardinality(Own(rows[p]))
          /\ Cardinality(Own(rows'[p])) \in Nat /\ Cardinality(Own(rows[p])) \in Nat
      <4>1. rows[p] \in Seq(Row) /\ rows'[p] \in Seq(Row)
        BY DEF ListType
      <4> QED
        BY <4>1, OwnFacts DEF Moves, RowsMove
    <3>2. Count(p)' = Count(p) /\ Count(p) \in Int
      BY <2>2, CountType DEF Count
    <3> QED
      BY <2>2, <3>1, <3>2 DEF Spent
  <2>5. ASSUME NEW p \in Peers
        PROVE  Spent(p)' + Spent(Other(p))' <= gestures'
    <3>1. Other(p) \in Peers
      BY TwoPeers
    <3>2. Spent(p) + Spent(Other(p)) <= gestures
      BY <2>1 DEF Counted
    <3> QED
      BY <1>1, <2>4, <3>1, <3>2
  <2> QED
    BY <2>3, <2>5 DEF Counted
<1> QED
  BY <1>4, <1>5

\* Between the first and the second peer's ids there is a gap.
LEMMA Apart ==
    ASSUME ListType, First, Counted, NEW p \in Peers
    PROVE  /\ Used(p) \cap Used(Other(p)) = {}
           /\ asking[p] => Used(p) = {}
           /\ counter[p] \notin Used(p)
<1> DEFINE q == Other(p)
<1>1. q \in Peers /\ q # p /\ Other(q) = p /\ \A r \in Peers : r = p \/ r = q
  BY TwoPeers
<1>2. /\ Count(p) \in Int /\ Count(q) \in Int /\ counter[p] \in Int /\ counter[q] \in Int
      /\ Top \in Nat /\ Spent(p) \in Int /\ Spent(q) \in Int
  BY <1>1, CountType
<1>3. /\ asking[p] => Count(p) = 0
      /\ asking[q] => Count(q) = 0
      /\ Count(p) >= 0 /\ Count(q) >= 0 /\ Spent(p) + Spent(q) <= gestures
  BY <1>1 DEF Counted
<1>4. gestures <= Top /\ gestures \in Nat
  BY DEF First, ListType
<1>5. Spent(p) >= Count(p) /\ Spent(q) >= Count(q)
  <2>1. Cardinality(Own(rows[p])) \in Nat /\ Cardinality(Own(rows[q])) \in Nat
    BY <1>1, CountType
  <2> QED
    BY <1>2, <1>3, <2>1 DEF Spent
<1>6. Count(p) + Count(q) <= Top
  BY <1>2, <1>3, <1>4, <1>5
<1>7. p = Dialer \/ q = Dialer
  BY <1>1, ListAssumption
<1>8. Used(p) \cap Used(q) = {}
  <2>1. CASE p = Dialer
    <3>1. Used(p) = 0 .. (counter[p] - 1) /\ Count(p) = counter[p]
      BY <2>1 DEF Used, Count
    <3>2. Used(q) = (counter[q] + 1) .. Top /\ Count(q) = Top - counter[q]
      BY <1>1, <2>1 DEF Used, Count
    <3> QED
      BY <1>2, <1>6, <3>1, <3>2
  <2>2. CASE q = Dialer
    <3>1. Used(q) = 0 .. (counter[q] - 1) /\ Count(q) = counter[q]
      BY <2>2 DEF Used, Count
    <3>2. Used(p) = (counter[p] + 1) .. Top /\ Count(p) = Top - counter[p]
      BY <1>1, <2>2 DEF Used, Count
    <3> QED
      BY <1>2, <1>6, <3>1, <3>2
  <2> QED
    BY <1>7, <2>1, <2>2
<1>9. asking[p] => Used(p) = {}
  BY <1>2, <1>3 DEF Used, Count
<1>10. counter[p] \notin Used(p)
  BY <1>2 DEF Used
<1> QED
  BY <1>8, <1>9, <1>10

-----------------------------------------------------------------------------
(* What a step does, variable by variable *)

LEMMA Unmoved ==
    ASSUME ListType
    PROVE  /\ rows' = rows => RowsMove
           /\ names' = names => NamesMove
           /\ todo' = todo => TodoMove
           /\ wire' = wire => WireMove
           /\ queue' = queue => QueueMove
           /\ sending' = sending => SendingMove
           /\ data' = data => DataMove
<1>1. ASSUME NEW r \in Peers
      PROVE  Cardinality(Own(rows[r])) <= Cardinality(Own(rows[r]))
  <2>1. rows[r] \in Seq(Row)
    BY DEF ListType
  <2>2. Cardinality(Own(rows[r])) \in Nat
    BY <2>1, OwnFacts
  <2> QED
    BY <2>2
<1>2. rows' = rows => RowsMove
  BY <1>1 DEF RowsMove, Listed, Shows
<1>3. names' = names => NamesMove
  BY DEF NamesMove, NamedBy
<1>4. todo' = todo => TodoMove
  BY IdsOfIs DEF TodoMove
<1>5. wire' = wire => WireMove
  BY DEF WireMove
<1>6. queue' = queue => QueueMove
  BY DEF QueueMove, Queued
<1>7. sending' = sending => SendingMove
  BY DEF SendingMove, AtSender
<1>8. data' = data => DataMove
  BY DEF DataMove, Streamed
<1> QED
  BY <1>2, <1>3, <1>4, <1>5, <1>6, <1>7, <1>8

LEMMA SameListMoves ==
    ASSUME ListType, \A r \in Peers : SameList(rows'[r], rows[r])
    PROVE  RowsMove
<1> SUFFICES ASSUME NEW r \in Peers
             PROVE  /\ Listed(r)' = Listed(r) /\ Shows(r)' = Shows(r)
                    /\ Cardinality(Own(rows'[r])) <= Cardinality(Own(rows[r]))
  BY DEF RowsMove
<1> DEFINE new == rows'[r]
           old == rows[r]
<1>1. old \in Seq(Row) /\ SameList(new, old)
  BY DEF ListType
<1>2. Own(new) = Own(old) /\ Remote(new) = Remote(old)
  BY <1>1 DEF SameList, Own, Remote
<1>3. \A k \in DOMAIN old : Pair(new[k]) = Pair(old[k])
  BY <1>1 DEF SameList, Pair
<1>4. Own(old) \subseteq DOMAIN old /\ Remote(old) \subseteq DOMAIN old
  BY DEF Own, Remote
<1>5. Cardinality(Own(old)) \in Nat
  BY <1>1, OwnFacts
<1>6. Listed(r)' = {Pair(new[k]) : k \in Own(new)} /\ Listed(r) = {Pair(old[k]) : k \in Own(old)}
  BY DEF Listed
<1>7. Shows(r)' = {Pair(new[k]) : k \in Remote(new)} /\ Shows(r) = {Pair(old[k]) : k \in Remote(old)}
  BY DEF Shows
<1> HIDE DEF new, old
<1>8. Listed(r)' = Listed(r)
  BY <1>2, <1>3, <1>4, <1>6
<1>9. Shows(r)' = Shows(r)
  BY <1>2, <1>3, <1>4, <1>7
<1>10. Cardinality(Own(new)) <= Cardinality(Own(old))
  BY <1>2, <1>5
<1> QED
  BY <1>8, <1>9, <1>10 DEF new, old

\* A list has no more own rows when one is taken off.
LEMMA FewerOwn ==
    ASSUME NEW list \in Seq(Row), NEW at \in DOMAIN list
    PROVE  LET new == RemoveAt(list, at)
           IN  /\ Cardinality(Own(new)) <= Cardinality(Own(list))
               /\ new \in Seq(Row)
<1> DEFINE new == RemoveAt(list, at)
           place == [k \in Own(new) |-> IF k < at THEN k ELSE k + 1]
<1>1. /\ new \in Seq(Row) /\ Len(new) = Len(list) - 1
      /\ \A k \in 1..(Len(list) - 1) : new[k] = IF k < at THEN list[k] ELSE list[k + 1]
  BY RemoveAtSeq
<1> HIDE DEF new
<1>2. DOMAIN new = 1..(Len(list) - 1) /\ DOMAIN list = 1..Len(list) /\ Len(list) \in Nat
  BY <1>1
<1>3. Own(new) \subseteq 1..(Len(list) - 1) /\ at \in Int
  BY <1>2 DEF Own
<1>4. ASSUME NEW k \in Own(new)
      PROVE  place[k] \in Own(list)
  <2>1. k \in 1..(Len(list) - 1) /\ ~new[k].remote
    BY <1>2 DEF Own
  <2>2. CASE k < at
    BY <1>1, <1>2, <2>1, <2>2 DEF Own
  <2>3. CASE ~(k < at)
    <3>1. k + 1 \in DOMAIN list /\ new[k] = list[k + 1]
      BY <1>1, <1>2, <2>1, <2>3
    <3> QED
      BY <2>1, <2>3, <3>1 DEF Own
  <2> QED
    BY <2>2, <2>3
<1>5. ASSUME NEW j \in Own(new), NEW k \in Own(new), place[j] = place[k]
      PROVE  j = k
  <2>1. j \in Int /\ k \in Int
    BY <1>3
  <2> QED
    BY <1>3, <1>5, <2>1
<1>6. place \in Injection(Own(new), Own(list))
  <2>1. place \in [Own(new) -> Own(list)]
    BY <1>4
  <2> QED
    BY <1>5, <2>1 DEF Injection, IsInjective
<1>7. IsFiniteSet(Own(list))
  BY OwnFacts
<1>8. Cardinality(Own(new)) <= Cardinality(Own(list))
  <2> HIDE DEF place
  <2> QED
    BY <1>6, <1>7, FS_Injection
<1> QED
  BY <1>1, <1>8 DEF new

LEMMA RemovedMoves ==
    ASSUME ListType, NEW p \in Peers, NEW at \in DOMAIN rows[p],
           rows' = [rows EXCEPT ![p] = RemoveAt(@, at)]
    PROVE  RowsMove
<1>1. rows[p] \in Seq(Row)
  BY DEF ListType
<1>2. /\ rows'[p] = RemoveAt(rows[p], at)
      /\ \A q \in Peers : q # p => rows'[q] = rows[q]
      /\ \A k \in DOMAIN rows'[p] : \E j \in DOMAIN rows[p] : rows'[p][k] = rows[p][j]
  BY RemoveRow
<1>3. ASSUME NEW r \in Peers
      PROVE  /\ Listed(r)' \subseteq Listed(r) /\ Shows(r)' \subseteq Shows(r)
             /\ Cardinality(Own(rows'[r])) <= Cardinality(Own(rows[r]))
  <2>1. CASE r = p
    <3>1. Listed(p)' \subseteq Listed(p)
      BY <1>2 DEF Listed, Own
    <3>2. Shows(p)' \subseteq Shows(p)
      BY <1>2 DEF Shows, Remote
    <3>3. Cardinality(Own(rows'[p])) <= Cardinality(Own(rows[p]))
      BY <1>1, <1>2, FewerOwn
    <3> QED
      BY <2>1, <3>1, <3>2, <3>3
  <2>2. CASE r # p
    <3>1. rows'[r] = rows[r] /\ rows[r] \in Seq(Row)
      BY <1>2, <2>2 DEF ListType
    <3>2. Cardinality(Own(rows[r])) \in Nat
      BY <3>1, OwnFacts
    <3>3. Cardinality(Own(rows'[r])) <= Cardinality(Own(rows[r]))
      BY <3>1, <3>2
    <3> QED
      BY <3>1, <3>3 DEF Listed, Shows
  <2> QED
    BY <2>1, <2>2
<1> QED
  BY <1>3 DEF RowsMove

LEMMA ErasedMoves ==
    ASSUME ListType, NEW p \in Peers, NEW id, names' = [names EXCEPT ![p] = Erase(@, id)]
    PROVE  NamesMove
<1>1. /\ names'[p] = Erase(names[p], id)
      /\ \A q \in Peers : q # p => names'[q] = names[q]
  BY EraseType
<1>2. NamedBy(p)' \subseteq NamedBy(p)
  BY <1>1 DEF NamedBy, Erase
<1>3. \A q \in Peers : q # p => NamedBy(q)' = NamedBy(q)
  BY <1>1 DEF NamedBy
<1> QED
  BY <1>2, <1>3 DEF NamesMove

\* The tasks of a peer after a step that adds some to them.
Adds(p, new) ==
    /\ \A q \in Peers : q # p => todo'[q] = todo[q]
    /\ \A op : Mentioned(todo'[p], op) \subseteq Mentioned(todo[p], op) \cup Mentioned(new, op)

LEMMA AddsMoves ==
    ASSUME NEW p \in Peers, NEW new, Adds(p, new),
           Mentioned(new, "send_addfiles") = {},
           Mentioned(new, "have_addfiles") \subseteq Mentioned(wire[p], "have_addfiles"),
           Open => Mentioned(new, "have_file_to_send") \subseteq
                       (IF asking[p] THEN {} ELSE Listed(p)),
           IdsOf(Mentioned(new, "send_get_file")) \subseteq
               IdsOf(Shows(p) \cup Mentioned(todo[p], "have_addfiles")),
           Mentioned(new, "have_download_request") \subseteq
               Mentioned(wire[p], "have_download_request")
    PROVE  TodoMove
<1>1. \A q \in Peers : q # p => todo'[q] = todo[q]
  BY DEF Adds
<1>2. \A op : Mentioned(todo'[p], op) \subseteq Mentioned(todo[p], op) \cup Mentioned(new, op)
  BY DEF Adds
<1>3. IdsOf(Mentioned(todo'[p], "send_get_file")) \subseteq
          IdsOf(Mentioned(todo[p], "send_get_file") \cup Shows(p)
                \cup Mentioned(todo[p], "have_addfiles"))
  <2> SUFFICES ASSUME NEW x \in Mentioned(todo'[p], "send_get_file")
               PROVE  \E y \in Mentioned(todo[p], "send_get_file") \cup Shows(p)
                                \cup Mentioned(todo[p], "have_addfiles") : y.id = x.id
    BY IdsOfIs
  <2>1. CASE x \in Mentioned(todo[p], "send_get_file")
    BY <2>1
  <2>2. CASE x \in Mentioned(new, "send_get_file")
    <3>1. x.id \in IdsOf(Shows(p) \cup Mentioned(todo[p], "have_addfiles"))
      BY <2>2, IdsOfIs
    <3> QED
      BY <3>1, IdsOfIs
  <2> QED
    BY <1>2, <2>1, <2>2
<1>4. \A q \in Peers : q # p =>
         IdsOf(Mentioned(todo[q], "send_get_file")) \subseteq
          IdsOf(Mentioned(todo[q], "send_get_file") \cup Shows(q)
                \cup Mentioned(todo[q], "have_addfiles"))
  BY IdsOfIs
<1> QED
  BY <1>1, <1>2, <1>3, <1>4 DEF TodoMove

Watched == {"send_addfiles", "have_addfiles", "have_file_to_send", "send_get_file",
            "have_download_request"}

LEMMA QuietMoves ==
    ASSUME NEW p \in Peers, NEW new, Adds(p, new),
           \A op \in Watched : Mentioned(new, op) = {}
    PROVE  TodoMove
<1>1. IdsOf({}) = {}
  BY IdsOfIs
<1>2. /\ Mentioned(new, "send_addfiles") = {} /\ Mentioned(new, "have_addfiles") = {}
      /\ Mentioned(new, "have_file_to_send") = {} /\ Mentioned(new, "send_get_file") = {}
      /\ Mentioned(new, "have_download_request") = {}
  BY DEF Watched
<1> QED
  BY <1>1, <1>2, AddsMoves

LEMMA DoneAdds ==
    ASSUME ListType, NEW p \in Peers, NEW i \in DOMAIN todo[p],
           NEW new \in Seq(Tasks), Done(p, i, new)
    PROVE  Adds(p, new)
  BY DoneFacts DEF Adds

LEMMA PublishAdds ==
    ASSUME ListType, NEW p \in Peers, NEW new \in Seq(Tasks), Publish(p, new)
    PROVE  Adds(p, new)
  BY PublishFacts DEF Adds

\* A task done, with nothing or with one task about a file that names none.
LEMMA DoneMoves ==
    ASSUME ListType, NEW p \in Peers, NEW i \in DOMAIN todo[p], Done(p, i, << >>)
    PROVE  TodoMove
<1>1. Adds(p, << >>)
  BY EmptyTasks, DoneAdds
<1> QED
  BY <1>1, EmptyTasks, QuietMoves

LEMMA QuietAbout ==
    ASSUME NEW op \in Ops \ Watched, NEW id \in Int
    PROVE  /\ <<About(op, id)>> \in Seq(Tasks)
           /\ \A o \in Watched : Mentioned(<<About(op, id)>>, o) = {}
<1>1. About(op, id) \in Tasks /\ About(op, id).op = op /\ <<About(op, id)>> \in Seq(Tasks)
  BY AboutIsTask
<1> QED
  BY <1>1, MentionedOne

LEMMA QuietTasks ==
    ASSUME NEW new, \A k \in DOMAIN new : new[k].op \in Cancels
    PROVE  \A op \in Watched : Mentioned(new, op) = {}
<1>1. Cancels \cap Watched = {}
  BY DEF Cancels, Watched
<1> QED
  BY <1>1, MentionedOther

-----------------------------------------------------------------------------
(* What the tasks of the pool do *)

\* A task becomes a message to the peer.
LEMMA SendMoves ==
    ASSUME ListType, NEW p \in Peers, NEW i \in DOMAIN todo[p], Send(p, i)
    PROVE  WireMove
<1> DEFINE t == todo[p][i]
           q == Other(p)
           sent == Task(Arrives[t.op], t.of)
<1>1. /\ q \in Peers /\ q # p /\ Other(q) = p /\ \A r \in Peers : r = p \/ r = q
  BY TwoPeers
<1>2. /\ t.op \in DOMAIN Arrives /\ sent \in Tasks
      /\ wire' = IF linked[p] /\ linked[q] THEN [wire EXCEPT ![q] = Append(@, sent)]
                 ELSE wire
  BY SendFacts
<1>3. sent.op = Arrives[t.op] /\ sent.of = t.of
  BY DEF Task
<1>4. wire[q] \in Seq(Tasks) /\ wire \in [Peers -> Seq(Tasks)]
  BY <1>1 DEF ListType
<1>5. {t.of[m] : m \in DOMAIN t.of} \subseteq Mentioned(todo[p], t.op)
  BY MentionedIs
<1> HIDE DEF t, sent
<1>6. CASE linked[p] /\ linked[q]
  <2>1. Open
    BY <1>1, <1>6 DEF Open
  <2>2. wire'[q] = Append(wire[q], sent) /\ wire'[p] = wire[p]
    BY <1>1, <1>2, <1>4, <1>6
  <2>3. ASSUME NEW op
        PROVE  /\ sent.op # op => Mentioned(wire'[q], op) = Mentioned(wire[q], op)
               /\ sent.op = op => Mentioned(wire'[q], op) \subseteq
                                      Mentioned(wire[q], op) \cup Mentioned(todo[p], t.op)
    <3>1. /\ sent.op # op => Mentioned(Append(wire[q], sent), op) = Mentioned(wire[q], op)
          /\ sent.op = op => Mentioned(Append(wire[q], sent), op) =
                                 Mentioned(wire[q], op) \cup {sent.of[m] : m \in DOMAIN sent.of}
      BY <1>2, <1>4, MentionedAppend
    <3> QED
      BY <1>3, <1>5, <2>2, <3>1
  <2>4. /\ sent.op = "have_addfiles" => t.op = "send_addfiles"
        /\ sent.op = "have_download_request" => t.op = "send_get_file"
    BY <1>2, <1>3 DEF Arrives
  <2>5. Mentioned(wire'[q], "have_addfiles") \subseteq
            Mentioned(wire[q], "have_addfiles") \cup Mentioned(todo[p], "send_addfiles")
    BY <2>3, <2>4
  <2>6. Mentioned(wire'[q], "have_download_request") \subseteq
            Mentioned(wire[q], "have_download_request") \cup Mentioned(todo[p], "send_get_file")
    BY <2>3, <2>4
  <2> QED
    BY <1>1, <2>1, <2>2, <2>5, <2>6 DEF WireMove
<1>7. CASE ~(linked[p] /\ linked[q])
  BY <1>2, <1>7 DEF WireMove
<1> QED
  BY <1>6, <1>7

\* The peer's files come onto the list, and some are asked for.
LEMMA AddRemoteMoves ==
    ASSUME ListType, Shape, NEW p \in Peers, NEW i \in DOMAIN todo[p], AddRemoteFiles(p, i)
    PROVE  RowsMove /\ NamesMove /\ TodoMove
<1> DEFINE t == todo[p][i]
           long == Longer(p, t)
           told == Mentioned(todo[p], "have_addfiles")
           auto == Automated(p, t)
<1>1. /\ t \in Tasks /\ t.op = "have_addfiles"
      /\ names' = [names EXCEPT ![p] = Insert(@, t.of)]
      /\ rows' = [rows EXCEPT ![p] = Requested(long, auto)]
      /\ SameList(rows'[p], long)
      /\ Done(p, i, Requests(long, auto))
  BY AddRemoteFacts
<1>2. {t.of[m] : m \in DOMAIN t.of} \subseteq told
  BY <1>1, MentionedIs
<1>3. rows \in [Peers -> Seq(Row)] /\ rows[p] \in Seq(Row)
  BY DEF ListType
<1> HIDE DEF t
<1>4. /\ long \in Seq(Row) /\ auto \subseteq DOMAIN long
      /\ \A k \in DOMAIN rows[p] : k \in DOMAIN long /\ long[k] = rows[p][k]
      /\ \A k \in DOMAIN long :
            \/ k \in DOMAIN rows[p] /\ long[k] = rows[p][k]
            \/ \E m \in DOMAIN t.of : long[k] = Added(t)[m]
      /\ \A m \in DOMAIN t.of : Added(t)[m].remote /\ Pair(Added(t)[m]) = t.of[m]
  <2>1. t \in Tasks
    BY <1>1
  <2>2. /\ long \in Seq(Row) /\ auto \subseteq DOMAIN long
        /\ \A k \in DOMAIN rows[p] : k \in DOMAIN long /\ long[k] = rows[p][k]
    BY <2>1, LongerFacts
  <2>3. \A m \in DOMAIN t.of : Added(t)[m].remote /\ Pair(Added(t)[m]) = t.of[m]
    BY <2>1, LongerFacts
  <2>4. \A k \in DOMAIN long :
           \/ k \in DOMAIN rows[p] /\ long[k] = rows[p][k]
           \/ \E m \in DOMAIN t.of : long[k] = Added(t)[m] /\ k = Len(rows[p]) + m
    BY <2>1, LongerFacts
  <2>5. \A k \in DOMAIN long :
           \/ k \in DOMAIN rows[p] /\ long[k] = rows[p][k]
           \/ \E m \in DOMAIN t.of : long[k] = Added(t)[m]
    BY <2>4
  <2> QED
    BY <2>2, <2>3, <2>5
<1>5. \A k \in auto : long[k].status = "RemoteDefault"
  BY DEF Automated, Wanted
<1> HIDE DEF long, auto
<1>6. \A k \in DOMAIN long :
         \/ k \in DOMAIN rows[p] /\ long[k] = rows[p][k]
         \/ long[k].remote /\ Pair(long[k]) \in told
  BY <1>2, <1>4
<1>7. /\ DOMAIN rows'[p] = DOMAIN long
      /\ \A k \in DOMAIN long : /\ rows'[p][k].remote = long[k].remote
                                /\ Pair(rows'[p][k]) = Pair(long[k])
  BY <1>1 DEF SameList, Pair
<1>8. Own(rows'[p]) = Own(rows[p])
  BY <1>4, <1>6, <1>7 DEF Own
<1>9. Listed(p)' \subseteq Listed(p)
  <2>1. \A k \in Own(rows[p]) : Pair(rows'[p][k]) = Pair(rows[p][k])
    BY <1>4, <1>7 DEF Own
  <2>2. Listed(p)' = {Pair(rows'[p][k]) : k \in Own(rows'[p])}
    BY DEF Listed
  <2> QED
    BY <1>8, <2>1, <2>2 DEF Listed
<1>10. Shows(p)' \subseteq Shows(p) \cup told
  <2>1. ASSUME NEW k \in Remote(rows'[p])
        PROVE  Pair(rows'[p][k]) \in Shows(p) \cup told
    <3>1. k \in DOMAIN long /\ long[k].remote /\ Pair(rows'[p][k]) = Pair(long[k])
      BY <1>7 DEF Remote
    <3> QED
      BY <1>6, <3>1 DEF Shows, Remote
  <2>2. Shows(p)' = {Pair(rows'[p][k]) : k \in Remote(rows'[p])}
    BY DEF Shows
  <2> QED
    BY <2>1, <2>2
<1>11. \A r \in Peers : r # p => rows'[r] = rows[r]
  BY <1>1, <1>3
<1>12. RowsMove
  <2> SUFFICES ASSUME NEW r \in Peers
               PROVE  /\ Listed(r)' \subseteq Listed(r)
                      /\ Shows(r)' \subseteq Shows(r) \cup Mentioned(todo[r], "have_addfiles")
                      /\ Cardinality(Own(rows'[r])) <= Cardinality(Own(rows[r]))
    BY DEF RowsMove
  <2>1. Own(rows'[r]) = Own(rows[r]) /\ Cardinality(Own(rows[r])) \in Nat
    BY <1>8, <1>11, OwnFacts DEF ListType
  <2>2. Cardinality(Own(rows'[r])) <= Cardinality(Own(rows[r]))
    BY <2>1
  <2>3. CASE r = p
    BY <1>9, <1>10, <2>2, <2>3
  <2>4. CASE r # p
    BY <1>11, <2>2, <2>4 DEF Listed, Shows
  <2> QED
    BY <2>3, <2>4
<1>13. NamesMove
  <2>1. names[p] \in UNION {[ids -> Files \cup {NoFile}] : ids \in SUBSET Int}
    BY DEF ListType
  <2>2. PICK ids \in SUBSET Int : names[p] \in [ids -> Files \cup {NoFile}]
    BY <2>1
  <2>3. t.of \in Seq(Items)
    BY <1>1 DEF Tasks
  <2>4. \A id \in DOMAIN Insert(names[p], t.of) :
           \/ id \in DOMAIN names[p] /\ Insert(names[p], t.of)[id] = names[p][id]
           \/ \E k \in DOMAIN t.of : Item(id, Insert(names[p], t.of)[id]) = t.of[k]
    BY <2>2, <2>3, InsertFacts
  <2>5. /\ names'[p] = Insert(names[p], t.of)
        /\ \A r \in Peers : r # p => names'[r] = names[r]
    BY <1>1 DEF ListType
  <2>6. NamedBy(p)' \subseteq NamedBy(p) \cup told
    <3>1. ASSUME NEW id \in DOMAIN names'[p]
          PROVE  Item(id, names'[p][id]) \in NamedBy(p) \cup told
      BY <1>2, <2>4, <2>5 DEF NamedBy
    <3>2. NamedBy(p)' = {Item(id, names'[p][id]) : id \in DOMAIN names'[p]}
      BY DEF NamedBy
    <3> QED
      BY <3>1, <3>2
  <2>7. \A r \in Peers : r # p => NamedBy(r)' = NamedBy(r)
    BY <2>5 DEF NamedBy
  <2> QED
    BY <2>6, <2>7 DEF NamesMove
<1>14. TodoMove
  <2> DEFINE new == Requests(long, auto)
  <2>1. /\ new \in Seq(Tasks)
        /\ \A op : op # "send_get_file" => Mentioned(new, op) = {}
        /\ \A x \in Mentioned(new, "send_get_file") : \E k \in auto : x.id = long[k].id
    BY <1>4, RequestsAre
  <2>2. Adds(p, new)
    BY <1>1, <2>1, DoneAdds
  <2> HIDE DEF new
  <2>3. ASSUME NEW k \in auto
        PROVE  Pair(long[k]) \in Shows(p) \cup told
    <3>1. k \in DOMAIN long /\ long[k].status = "RemoteDefault"
      BY <1>4, <1>5
    <3>2. CASE k \in DOMAIN rows[p] /\ long[k] = rows[p][k]
      BY <3>1, <3>2 DEF Shape, Fine, Remote, Shows
    <3>3. CASE Pair(long[k]) \in told
      BY <3>3
    <3> QED
      BY <1>6, <3>1, <3>2, <3>3
  <2>4. \A k \in auto : Pair(long[k]).id = long[k].id
    BY DEF Pair, Item
  <2>5. IdsOf(Mentioned(new, "send_get_file")) \subseteq IdsOf(Shows(p) \cup told)
    BY <2>1, <2>3, <2>4, IdsOfIs
  <2>6. /\ Mentioned(new, "send_addfiles") = {} /\ Mentioned(new, "have_addfiles") = {}
        /\ Mentioned(new, "have_file_to_send") = {}
        /\ Mentioned(new, "have_download_request") = {}
    BY <2>1
  <2> QED
    BY <2>2, <2>5, <2>6, AddsMoves
<1> QED
  BY <1>12, <1>13, <1>14

\* The row that a request is about is the one of the owner's file: the ids of
\* the peer's files are others.
LEMMA RequestMoves ==
    ASSUME ListType, First, Open => Counted,
           NEW p \in Peers, NEW i \in DOMAIN todo[p], HaveDownLoadRequest(p, i)
    PROVE  RowsMove /\ TodoMove
<1> DEFINE t == todo[p][i]
           id == t.of[1].id
<1>1. t.op = "have_download_request"
  BY DEF HaveDownLoadRequest
<1>2. PICK at \in Find(p, id) :
         \/ /\ SetStatus(p, at, "Pending")
            /\ Done(p, i, <<Task("have_file_to_send", <<Item(id, rows[p][at].file)>>)>>)
         \/ /\ SetStatus(p, at, "Error")
            /\ Done(p, i, <<About("send_expired_file", id)>>)
  BY DEF HaveDownLoadRequest
<1>3. RowsMove
  BY <1>2, FindStatus, SameListMoves DEF Statuses
<1>4. id \in Int /\ t.of[1] \in Mentioned(todo[p], "have_download_request")
  <2>1. todo[p] \in Seq(Tasks)
    BY DEF ListType
  <2> QED
    BY <1>1, <2>1, FirstItem
<1>5. at \in DOMAIN rows[p] /\ rows[p][at].id = id /\ rows[p][at] \in Row
  BY <1>2, FindRow, RowIs
<1> DEFINE item == Item(id, rows[p][at].file)
<1>6. item \in Items /\ item = Pair(rows[p][at]) /\ item.id = id
  BY <1>4, <1>5 DEF Item, Items, Row, Pair
<1>7. CASE Done(p, i, <<Task("have_file_to_send", <<item>>)>>)
  <2> DEFINE task == Task("have_file_to_send", <<item>>)
  <2>1. /\ task \in Tasks /\ <<task>> \in Seq(Tasks)
        /\ task.op = "have_file_to_send" /\ task.of = <<item>>
    BY <1>6, TaskIsTask DEF Ops
  <2> HIDE DEF item
  <2>2. /\ \A op : op # "have_file_to_send" => Mentioned(<<task>>, op) = {}
        /\ Mentioned(<<task>>, "have_file_to_send") \subseteq {item}
    <3>1. {<<item>>[m] : m \in DOMAIN <<item>>} = {item}
      OBVIOUS
    <3> HIDE DEF task
    <3> QED
      BY <2>1, <3>1, MentionedOne
  <2>3. ASSUME Open
        PROVE  ~asking[p] /\ item \in Listed(p)
    <3>1. First /\ Counted /\ Other(p) \in Peers /\ Other(Other(p)) = p
      BY <2>3, TwoPeers
    <3>2. id \in Used(p)
      <4>1. id \in Asked(p)
        BY <1>4, IdsOfIs DEF Asked
      <4> QED
        BY <3>1, <4>1 DEF Counted
    <3>3. ~asking[p] /\ id \notin Used(Other(p))
      BY <3>1, <3>2, Apart
    <3>4. IdsOf(Known(Other(p))) \subseteq Used(Other(p))
      BY <3>1 DEF Counted
    <3>5. at \notin Remote(rows[p])
      <4> SUFFICES ASSUME at \in Remote(rows[p]) PROVE FALSE
        OBVIOUS
      <4>1. item \in Shows(p)
        BY <1>6 DEF Shows
      <4>2. item \in Known(Other(p))
        BY <2>3, <3>1, <4>1 DEF Known, Told
      <4> QED
        BY <1>6, <3>3, <3>4, <4>2, IdsOfIs
    <3> QED
      BY <1>5, <1>6, <3>3, <3>5 DEF Remote, Own, Listed
  <2>4. Adds(p, <<task>>)
    BY <1>7, <2>1, DoneAdds
  <2>5. IdsOf({}) = {}
    BY IdsOfIs
  <2> HIDE DEF task
  <2>6. /\ Mentioned(<<task>>, "send_addfiles") = {} /\ Mentioned(<<task>>, "have_addfiles") = {}
        /\ Mentioned(<<task>>, "send_get_file") = {}
        /\ Mentioned(<<task>>, "have_download_request") = {}
    BY <2>2
  <2>7. TodoMove
    BY <2>2, <2>3, <2>4, <2>5, <2>6, AddsMoves
  <2> QED
    BY <1>3, <2>7
<1>8. CASE Done(p, i, <<About("send_expired_file", id)>>)
  <2>1. "send_expired_file" \in Ops \ Watched
    BY DEF Ops, Watched
  <2>2. TodoMove
    BY <1>4, <1>8, <2>1, QuietAbout, DoneAdds, QuietMoves
  <2> QED
    BY <1>3, <2>2
<1> QED
  BY <1>2, <1>7, <1>8

LEMMA RunMoves ==
    ASSUME ListType, Shape, First, Open => Counted,
           NEW p \in Peers, NEW i \in DOMAIN todo[p], Steps(p, i)
    PROVE  Moves
<1> DEFINE t == todo[p][i]
           id == t.of[1].id
<1>1. todo[p] \in Seq(Tasks)
  BY DEF ListType
<1>2. id \in Int /\ t.of[1] \in Mentioned(todo[p], t.op)
  BY <1>1, FirstItem
<1>3. Done(p, i, << >>) => TodoMove
  BY DoneMoves
<1>4. ASSUME NEW op \in Ops \ Watched, Done(p, i, <<About(op, id)>>)
      PROVE  TodoMove
  BY <1>2, <1>4, QuietAbout, DoneAdds, QuietMoves
<1>5. ASSUME NEW at \in Find(p, id), NEW status \in Statuses, SetStatus(p, at, status)
      PROVE  RowsMove
  BY <1>5, FindStatus, SameListMoves
<1> HIDE DEF id
<1>6. mishaps \subseteq mishaps'
  BY DEF Steps, Send, AddRemoteFiles, NotFound, HaveDownLoadRequest, OnHaveExpiredFile,
         RemoveFileById, OnUploadFileProgress, OnDownLoadProgress, OnHaveCancelFile,
         OnHaveFileToSend, OnCancelSendFile, OnCancelUploadFile, Mishap
<1>7. /\ UNCHANGED <<linked, asking, counter, begin, sessions, gestures>>
      /\ data' = data
  BY DEF Steps, Send, AddRemoteFiles, NotFound, HaveDownLoadRequest, OnHaveExpiredFile,
         RemoveFileById, OnUploadFileProgress, OnDownLoadProgress, OnHaveCancelFile,
         OnHaveFileToSend, OnCancelSendFile, OnCancelUploadFile, bounds, listVars,
         peerVars
<1>8. CASE Send(p, i)
  <2>1. TodoMove
    BY <1>3, <1>8, SendFacts
  <2>2. UNCHANGED <<rows, names, queue, sending>>
    BY <1>8 DEF Send, listVars, engineVars
  <2> QED
    BY <1>6, <1>7, <1>8, <2>1, <2>2, SendMoves, Unmoved DEF Moves
<1>9. CASE AddRemoteFiles(p, i)
  <2>1. UNCHANGED <<wire, queue, sending>>
    BY <1>9 DEF AddRemoteFiles, engineVars
  <2> QED
    BY <1>6, <1>7, <1>9, <2>1, AddRemoteMoves, Unmoved DEF Moves
<1>10. CASE NotFound(p, i)
  <2>1. UNCHANGED <<rows, names, wire, queue, sending>> /\ TodoMove
    BY <1>3, <1>10 DEF NotFound, listVars, engineVars
  <2> QED
    BY <1>6, <1>7, <2>1, Unmoved DEF Moves
<1>11. CASE HaveDownLoadRequest(p, i)
  <2>1. UNCHANGED <<names, wire, queue, sending>>
    BY <1>11 DEF HaveDownLoadRequest, engineVars
  <2>2. RowsMove /\ TodoMove
    BY <1>11, RequestMoves
  <2> QED
    BY <1>6, <1>7, <2>1, <2>2, Unmoved DEF Moves
<1>12. CASE OnHaveExpiredFile(p, i)
  <2>1. UNCHANGED <<names, wire, queue, sending>> /\ TodoMove
    BY <1>3, <1>12 DEF OnHaveExpiredFile, engineVars
  <2>2. RowsMove
    BY <1>5, <1>12 DEF OnHaveExpiredFile, Statuses, id
  <2> QED
    BY <1>6, <1>7, <2>1, <2>2, Unmoved DEF Moves
<1>13. CASE RemoveFileById(p, i)
  <2>1. UNCHANGED <<wire, queue, sending>>
    BY <1>13 DEF RemoveFileById, engineVars
  <2>2. PICK at \in Find(p, id) :
           /\ rows' = [rows EXCEPT ![p] = RemoveAt(@, at)]
           /\ Done(p, i, <<About("cancel_file_send", id)>>) \/ Done(p, i, << >>)
    BY <1>13 DEF RemoveFileById, id
  <2>3. RowsMove
    BY <2>2, FindRow, RemovedMoves
  <2>4. TodoMove
    BY <1>3, <1>4, <2>2 DEF Ops, Watched
  <2>5. NamesMove
    BY <1>13, ErasedMoves DEF RemoveFileById
  <2> QED
    BY <1>6, <1>7, <2>1, <2>3, <2>4, <2>5, Unmoved DEF Moves
<1>14. CASE OnUploadFileProgress(p, i)
  <2>1. UNCHANGED <<names, wire, queue, sending>> /\ TodoMove
    BY <1>3, <1>14 DEF OnUploadFileProgress, engineVars
  <2>2. PICK at \in Find(p, id) :
           \/ UNCHANGED rows \/ SetStatus(p, at, "UploadCompleted")
           \/ SetStatus(p, at, "Uploading")
    BY <1>14 DEF OnUploadFileProgress, id
  <2>3. RowsMove
    BY <1>5, <2>2, Unmoved DEF Statuses
  <2> QED
    BY <1>6, <1>7, <2>1, <2>3, Unmoved DEF Moves
<1>15. CASE OnDownLoadProgress(p, i)
  <2>1. UNCHANGED <<names, wire, queue, sending>> /\ TodoMove
    BY <1>3, <1>15 DEF OnDownLoadProgress, engineVars
  <2>2. PICK at \in Find(p, id) :
           \/ UNCHANGED rows \/ SetStatus(p, at, "DownloadCompleted")
           \/ SetStatus(p, at, "Downloading")
    BY <1>15 DEF OnDownLoadProgress, id
  <2>3. RowsMove
    BY <1>5, <2>2, Unmoved DEF Statuses
  <2> QED
    BY <1>6, <1>7, <2>1, <2>3, Unmoved DEF Moves
<1>16. CASE OnHaveCancelFile(p, i)
  <2>1. UNCHANGED <<names, wire, queue, sending>>
    BY <1>16 DEF OnHaveCancelFile, engineVars
  <2>2. PICK new \in Seq(Tasks) : /\ \A k \in DOMAIN new : new[k].op \in Cancels
                                  /\ Done(p, i, new)
    BY <1>16, CancelFacts
  <2>3. TodoMove
    BY <2>2, QuietTasks, DoneAdds, QuietMoves
  <2>4. RowsMove
    BY <1>16, CancelFacts, SameListMoves
  <2> QED
    BY <1>6, <1>7, <2>1, <2>3, <2>4, Unmoved DEF Moves
<1>17. CASE OnHaveFileToSend(p, i)
  <2>1. UNCHANGED <<rows, names, wire, sending>> /\ TodoMove
    BY <1>3, <1>17 DEF OnHaveFileToSend, listVars
  <2>2. t.op = "have_file_to_send" /\ queue' = [queue EXCEPT ![p] = Append(queue[p], t.of[1])]
    BY <1>17 DEF OnHaveFileToSend
  <2>3. queue \in [Peers -> Seq(Items)] /\ t.of[1] \in Items
    BY <1>1, FirstItem DEF ListType
  <2> DEFINE old == queue[p]
             item == t.of[1]
  <2>4. \A k \in DOMAIN Append(old, item) :
           (k \in DOMAIN old /\ Append(old, item)[k] = old[k]) \/ Append(old, item)[k] = item
    <3>1. old \in Seq(Items) /\ item \in Items
      BY <2>3
    <3> HIDE DEF old, item
    <3> QED
      BY <3>1
  <2>5. queue'[p] = Append(old, item) /\ \A r \in Peers : r # p => queue'[r] = queue[r]
    BY <2>2, <2>3
  <2>6. item \in Mentioned(todo[p], "have_file_to_send")
    BY <1>2, <2>2
  <2> HIDE DEF item
  <2>7. Queued(p)' \subseteq Queued(p) \cup Mentioned(todo[p], "have_file_to_send")
    BY <2>4, <2>5, <2>6 DEF Queued
  <2>8. \A r \in Peers : r # p => Queued(r)' = Queued(r)
    BY <2>5 DEF Queued
  <2>9. QueueMove
    BY <2>7, <2>8 DEF QueueMove
  <2> QED
    BY <1>6, <1>7, <2>1, <2>9, Unmoved DEF Moves
<1>18. CASE OnCancelSendFile(p, i)
  <2>1. UNCHANGED <<rows, names, wire, sending>> /\ TodoMove
    BY <1>3, <1>18 DEF OnCancelSendFile, listVars
  <2>2. /\ \A q \in Peers : q # p => queue'[q] = queue[q]
        /\ \A k \in DOMAIN queue'[p] : \E j \in DOMAIN queue[p] : queue'[p][k] = queue[p][j]
    BY <1>18, CancelSendFacts
  <2>3. Queued(p)' \subseteq Queued(p) /\ \A r \in Peers : r # p => Queued(r)' = Queued(r)
    BY <2>2 DEF Queued
  <2>4. QueueMove
    BY <2>3 DEF QueueMove
  <2> QED
    BY <1>6, <1>7, <2>1, <2>4, Unmoved DEF Moves
<1>19. CASE OnCancelUploadFile(p, i)
  <2>1. UNCHANGED <<rows, names, wire, queue>> /\ TodoMove
    BY <1>3, <1>19 DEF OnCancelUploadFile, listVars
  <2>2. \/ sending' = sending
        \/ sending[p] # NoTransfer /\ sending' = [sending EXCEPT ![p].cancel = TRUE]
    BY <1>19 DEF OnCancelUploadFile, Sends
  <2>3. SendingMove
    <3>1. CASE sending[p] # NoTransfer /\ sending' = [sending EXCEPT ![p].cancel = TRUE]
      <4>1. /\ sending'[p].id = sending[p].id /\ sending'[p].file = sending[p].file
            /\ \A r \in Peers : r # p => sending'[r] = sending[r]
        <5>1. sending[p] \in Transfer /\ sending \in [Peers -> Transfer \cup {NoTransfer}]
          BY <3>1 DEF ListType
        <5>2. sending'[p] = [sending[p] EXCEPT !.cancel = TRUE]
          BY <3>1, <5>1
        <5> QED
          BY <3>1, <5>1, <5>2 DEF Transfer
      <4>2. AtSender(p)' \subseteq AtSender(p)
        BY <3>1, <4>1 DEF AtSender, Pair
      <4>3. \A r \in Peers : r # p => AtSender(r)' = AtSender(r)
        BY <4>1 DEF AtSender
      <4> QED
        BY <4>2, <4>3 DEF SendingMove
    <3> QED
      BY <2>2, <3>1, Unmoved
  <2> QED
    BY <1>6, <1>7, <2>1, <2>3, Unmoved DEF Moves
<1> QED
  BY <1>8, <1>9, <1>10, <1>11, <1>12, <1>13, <1>14, <1>15, <1>16, <1>17, <1>18, <1>19
  DEF Steps

LEMMA ReceiveMoves ==
    ASSUME ListType, Shape, NEW p \in Peers, Receive(p)
    PROVE  Moves
<1> DEFINE h == Head(wire[p])
           rest == Tail(wire[p])
<1>1. /\ wire[p] \in Seq(Tasks) /\ wire[p] # << >> /\ h \in Tasks /\ <<h>> \in Seq(Tasks)
      /\ wire' = [wire EXCEPT ![p] = rest] /\ Publish(p, <<h>>)
      /\ UNCHANGED <<listVars, linked, asking, engineVars, peerVars, bounds, mishaps>>
  BY ReceiveFacts
<1>2. \A op : Mentioned(wire[p], op) = Mentioned(<<h>>, op) \cup Mentioned(rest, op)
  BY <1>1, MentionedTail
<1>3. h.op \in {Arrives[op] : op \in DOMAIN Arrives}
  <2>1. 1 \in DOMAIN wire[p] /\ h = wire[p][1]
    BY <1>1
  <2> QED
    BY <2>1 DEF Shape
<1> HIDE DEF h, rest
<1>4. h.op \notin {"send_addfiles", "send_get_file", "have_file_to_send"}
  BY <1>3 DEF Arrives
<1>5. /\ Mentioned(<<h>>, "send_addfiles") = {} /\ Mentioned(<<h>>, "send_get_file") = {}
      /\ Mentioned(<<h>>, "have_file_to_send") = {}
  BY <1>1, <1>4, MentionedOne
<1>6. IdsOf({}) = {}
  BY IdsOfIs
<1>7. Adds(p, <<h>>)
  BY <1>1, PublishAdds
<1>8. TodoMove
  BY <1>2, <1>5, <1>6, <1>7, AddsMoves
<1>9. WireMove
  <2>1. wire'[p] = rest /\ \A r \in Peers : r # p => wire'[r] = wire[r]
    BY <1>1 DEF ListType
  <2>2. \A r \in Peers : \A op : Mentioned(wire'[r], op) \subseteq Mentioned(wire[r], op)
    BY <1>2, <2>1
  <2> QED
    BY <2>2 DEF WireMove
<1> QED
  BY <1>1, <1>8, <1>9, Unmoved DEF Moves, listVars, engineVars, peerVars, bounds

-----------------------------------------------------------------------------
(* What the sender and the parser do *)

LEMMA StreamMoves ==
    ASSUME ListType, NEW p \in Peers, sending[p] # NoTransfer,
           NEW kind \in {"header", "block", "end", "cancel"}, Stream(p, kind)
    PROVE  DataMove
<1> DEFINE q == Other(p)
<1>1. /\ q \in Peers /\ q # p /\ Other(q) = p /\ \A r \in Peers : r = p \/ r = q
  BY TwoPeers
<1>2. /\ data'[p] = data[p]
      /\ \A k \in DOMAIN data'[q] :
            \/ k \in DOMAIN data[q] /\ data'[q][k] = data[q][k]
            \/ linked[p] /\ linked[q] /\ data'[q][k].of = sending[p]
  BY StreamFacts
<1>3. linked[p] /\ linked[q] => Open
  BY <1>1 DEF Open
<1>4. Streamed(p)' = Streamed(p)
  BY <1>2 DEF Streamed
<1>5. Streamed(q)' \subseteq Streamed(q) \cup (IF Open THEN AtSender(p) ELSE {})
  <2>1. ASSUME NEW k \in DOMAIN data'[q]
        PROVE  Pair(data'[q][k].of) \in Streamed(q) \cup (IF Open THEN AtSender(p) ELSE {})
    BY <1>2, <1>3 DEF Streamed, AtSender
  <2>2. Streamed(q)' = {Pair(data'[q][k].of) : k \in DOMAIN data'[q]}
    BY DEF Streamed
  <2> QED
    BY <2>1, <2>2
<1> QED
  BY <1>1, <1>4, <1>5 DEF DataMove

LEMMA SenderMoves ==
    ASSUME ListType, NEW p \in Peers, Sender(p)
    PROVE  Moves
<1>1. sending[p] # NoTransfer => sending[p] \in Transfer /\ sending[p].id \in Int
  BY DEF ListType, Transfer
<1>2. sending \in [Peers -> Transfer \cup {NoTransfer}] /\ queue \in [Peers -> Seq(Items)]
  BY DEF ListType
<1>3. ASSUME NEW at, sending[p] # NoTransfer, sending' = [sending EXCEPT ![p].at = at]
      PROVE  SendingMove
  <2>1. sending'[p] = [sending[p] EXCEPT !.at = at]
    BY <1>2, <1>3
  <2>2. /\ sending'[p].id = sending[p].id /\ sending'[p].file = sending[p].file
        /\ \A r \in Peers : r # p => sending'[r] = sending[r]
    BY <1>1, <1>2, <1>3, <2>1 DEF Transfer
  <2>3. AtSender(p)' \subseteq AtSender(p)
    BY <1>3, <2>2 DEF AtSender, Pair
  <2>4. \A r \in Peers : r # p => AtSender(r)' = AtSender(r)
    BY <2>2 DEF AtSender
  <2> QED
    BY <2>3, <2>4 DEF SendingMove
<1>4. ASSUME NEW op \in Ops \ Watched, NEW id \in Int,
             todo' \in {todo, [todo EXCEPT ![p] = Append(@, About(op, id))]}
      PROVE  TodoMove
  <2>1. /\ \A q \in Peers : q # p => todo'[q] = todo[q]
        /\ \A o : o # op => Mentioned(todo'[p], o) = Mentioned(todo[p], o)
    BY <1>4, AfterReport
  <2> DEFINE told == <<About(op, id)>>
  <2>2. /\ \A o \in Watched : Mentioned(told, o) = {}
        /\ About(op, id) \in Tasks /\ About(op, id).op = op
    BY <1>4, QuietAbout, AboutIsTask
  <2>3. todo' = todo \/ Publish(p, told)
    <3>1. Append(todo[p], About(op, id)) = todo[p] \o told
      BY <2>2 DEF ListType
    <3>2. todo \in [Peers -> Seq(Tasks)]
      BY DEF ListType
    <3> QED
      BY <1>4, <3>1, <3>2 DEF Publish
  <2> QED
    BY <1>4, <2>2, <2>3, QuietAbout, PublishAdds, QuietMoves, Unmoved
<1>5. CASE TakeTask(p)
  <2>1. /\ sending[p] = NoTransfer /\ queue[p] \in Seq(Items) /\ queue[p] # << >>
        /\ sending' = [sending EXCEPT ![p] =
               [id |-> Head(queue[p]).id, file |-> Head(queue[p]).file,
                at |-> "header", cancel |-> FALSE]]
        /\ queue' = [queue EXCEPT ![p] = Tail(queue[p])]
    BY <1>2, <1>5 DEF TakeTask
  <2>2. /\ 1 \in DOMAIN queue[p] /\ queue[p][1] = Head(queue[p])
        /\ \A k \in DOMAIN Tail(queue[p]) :
              k + 1 \in DOMAIN queue[p] /\ Tail(queue[p])[k] = queue[p][k + 1]
    BY <2>1
  <2>3. queue[p][1] \in Items
    BY <2>1, <2>2
  <2>4. Item(queue[p][1].id, queue[p][1].file) = queue[p][1]
    BY <2>3 DEF Item, Items
  <2>5. /\ sending'[p].id = queue[p][1].id /\ sending'[p].file = queue[p][1].file
        /\ queue'[p] = Tail(queue[p])
        /\ \A r \in Peers : r # p => sending'[r] = sending[r] /\ queue'[r] = queue[r]
    BY <1>2, <2>1, <2>2
  <2>6. AtSender(p)' \subseteq Queued(p)
    BY <2>2, <2>4, <2>5 DEF AtSender, Pair, Queued
  <2>7. Queued(p)' \subseteq Queued(p)
    BY <2>2, <2>5 DEF Queued
  <2>8. \A r \in Peers : r # p => AtSender(r)' = AtSender(r) /\ Queued(r)' = Queued(r)
    BY <2>5 DEF AtSender, Queued
  <2>9. SendingMove /\ QueueMove
    BY <2>6, <2>7, <2>8 DEF SendingMove, QueueMove
  <2> QED
    BY <1>5, <2>9, Unmoved DEF TakeTask, Moves, listVars, peerVars, bounds
<1>6. CASE SendHeader(p)
  <2>1. SendingMove /\ DataMove
    BY <1>3, <1>6, StreamMoves DEF SendHeader
  <2> QED
    BY <1>6, <2>1, Unmoved DEF SendHeader, Moves, listVars, bounds
<1>7. CASE SendBlock(p)
  <2>1. SendingMove /\ DataMove
    BY <1>3, <1>7, StreamMoves DEF SendBlock
  <2>2. "upload_progress" \in Ops \ Watched
    BY DEF Ops, Watched
  <2>3. TodoMove
    BY <1>1, <1>4, <1>7, <2>2 DEF SendBlock
  <2> QED
    BY <1>7, <2>1, <2>3, Unmoved DEF SendBlock, Moves, listVars, bounds
<1>8. CASE SendEnd(p)
  <2>1. SendingMove /\ DataMove
    BY <1>3, <1>8, StreamMoves DEF SendEnd
  <2> QED
    BY <1>8, <2>1, Unmoved DEF SendEnd, Moves, listVars, bounds
<1>9. CASE ReportEnd(p)
  <2>1. sending[p] # NoTransfer /\ sending' = [sending EXCEPT ![p] = NoTransfer]
    BY <1>9 DEF ReportEnd
  <2>2. SendingMove
    <3>1. sending'[p] = NoTransfer /\ \A r \in Peers : r # p => sending'[r] = sending[r]
      BY <1>2, <2>1
    <3>2. AtSender(p)' = {} /\ \A r \in Peers : r # p => AtSender(r)' = AtSender(r)
      BY <3>1 DEF AtSender
    <3> QED
      BY <3>2 DEF SendingMove
  <2>3. "upload_end" \in Ops \ Watched
    BY DEF Ops, Watched
  <2>4. TodoMove
    BY <1>1, <1>9, <2>1, <2>3, QuietAbout, PublishAdds, QuietMoves, Unmoved DEF ReportEnd
  <2> QED
    BY <1>9, <2>2, <2>4, Unmoved DEF ReportEnd, Moves, listVars, peerVars, bounds
<1> QED
  BY <1>5, <1>6, <1>7, <1>8, <1>9 DEF Sender

LEMMA ParseMoves ==
    ASSUME ListType, NEW p \in Peers, Parse(p)
    PROVE  Moves
<1> DEFINE m == Head(data[p])
           rest == Tail(data[p])
<1>1. data \in [Peers -> Seq(Messages)] /\ data[p] \in Seq(Messages) /\ data[p] # << >>
  BY DEF Parse, ListType
<1>2. /\ ParseHeader(p, m) \/ ParseBlock(p, m) \/ ParseEnd(p, m)
      /\ UNCHANGED <<listVars, linked, asking, wire, engineVars, bounds>>
  BY DEF Parse
<1>3. parsing[p].id \in Int
  BY DEF ListType, Named
<1>4. \A k \in DOMAIN rest : k + 1 \in DOMAIN data[p] /\ rest[k] = data[p][k + 1]
  BY <1>1
<1> HIDE DEF m
<1>5. \/ data' = [data EXCEPT ![p] = rest] \/ data' = [data EXCEPT ![p] = << >>]
  BY <1>2 DEF ParseHeader, ParseBlock, ParseEnd
<1> HIDE DEF rest
<1>6. DataMove
  <2>1. \A r \in Peers : r # p => data'[r] = data[r]
    BY <1>1, <1>5
  <2>2. data'[p] = rest \/ data'[p] = << >>
    BY <1>1, <1>5
  <2>3. Streamed(p)' \subseteq Streamed(p)
    BY <1>4, <2>2 DEF Streamed
  <2>4. \A r \in Peers : r # p => Streamed(r)' = Streamed(r)
    BY <2>1 DEF Streamed
  <2> QED
    BY <2>3, <2>4 DEF DataMove
<1>7. ASSUME NEW op \in Ops \ Watched
      PROVE  /\ <<About(op, parsing[p].id)>> \in Seq(Tasks)
             /\ About(op, parsing[p].id) \in Tasks
             /\ \A o \in Watched : Mentioned(<<About(op, parsing[p].id)>>, o) = {}
  BY <1>3, QuietAbout, AboutIsTask
<1>8. ASSUME NEW op \in Ops \ Watched, Publish(p, <<About(op, parsing[p].id)>>)
      PROVE  TodoMove
  BY <1>7, <1>8, PublishAdds, QuietMoves
<1>9. TodoMove
  <2>1. {"download_progress", "download_end", "have_cancel_transit"} \subseteq Ops \ Watched
    BY DEF Ops, Watched
  <2>2. CASE ParseHeader(p, m)
    BY <2>2, Unmoved DEF ParseHeader
  <2>3. CASE ParseBlock(p, m)
    <3> DEFINE told == About("download_progress", parsing[p].id)
    <3>1. todo' = todo \/ todo' = [todo EXCEPT ![p] = Append(todo[p], told)]
      BY <2>3 DEF ParseBlock
    <3>2. told \in Tasks /\ todo \in [Peers -> Seq(Tasks)] /\ todo[p] \in Seq(Tasks)
      BY <1>7, <2>1 DEF ListType
    <3>3. Append(todo[p], told) = todo[p] \o <<told>>
      <4> HIDE DEF told
      <4> QED
        BY <3>2
    <3>4. todo' = todo \/ Publish(p, <<told>>)
      BY <3>1, <3>3 DEF Publish
    <3> QED
      BY <1>8, <2>1, <3>4, Unmoved
  <2>4. CASE ParseEnd(p, m)
    BY <1>8, <2>1, <2>4 DEF ParseEnd
  <2> QED
    BY <1>2, <2>2, <2>3, <2>4
<1>10. mishaps \subseteq mishaps'
  BY <1>2 DEF ParseHeader, ParseBlock, ParseEnd
<1> QED
  BY <1>2, <1>6, <1>9, <1>10, Unmoved DEF Moves, listVars, engineVars, bounds

-----------------------------------------------------------------------------
(* What the window does *)

LEMMA WindowMoves ==
    ASSUME ListType, Shape, NEW p \in Peers,
           \/ DownloadAll(p)
           \/ \E i \in DOMAIN rows[p] :
                 DownloadFile(p, i) \/ CancelTransit(p, i) \/ RemoveFile(p, i)
    PROVE  Moves
<1>1. /\ UNCHANGED <<counter, begin, linked, asking, wire, queue, sending, data, sessions,
                     mishaps>>
      /\ gestures' = gestures + 1
  BY DEF DownloadAll, DownloadFile, CancelTransit, RemoveFile, Gesture, engineVars, peerVars
<1> SUFFICES RowsMove /\ NamesMove /\ TodoMove
  BY <1>1, Unmoved DEF Moves
<1>2. rows[p] \in Seq(Row)
  BY DEF ListType
<1>3. ASSUME NEW new, Adds(p, new), \A op : op # "send_get_file" => Mentioned(new, op) = {},
             IdsOf(Mentioned(new, "send_get_file")) \subseteq IdsOf(Shows(p))
      PROVE  TodoMove
  <2>1. /\ Mentioned(new, "send_addfiles") = {} /\ Mentioned(new, "have_addfiles") = {}
        /\ Mentioned(new, "have_file_to_send") = {}
        /\ Mentioned(new, "have_download_request") = {}
    BY <1>3
  <2>2. IdsOf(Shows(p)) \subseteq IdsOf(Shows(p) \cup Mentioned(todo[p], "have_addfiles"))
    BY IdsOfIs
  <2> QED
    BY <1>3, <2>1, <2>2, AddsMoves
<1>4. ASSUME NEW i \in DOMAIN rows[p], rows[p][i].remote
      PROVE  rows[p][i].id \in IdsOf(Shows(p))
  <2>1. Pair(rows[p][i]) \in Shows(p) /\ Pair(rows[p][i]).id = rows[p][i].id
    BY <1>4 DEF Shows, Remote, Pair, Item
  <2> QED
    BY <2>1, IdsOfIs
<1>5. CASE DownloadAll(p)
  <2>1. PICK wanted \in SUBSET DOMAIN rows[p] :
           /\ \A k \in wanted : rows[p][k].status \in {"RemoteDefault", "DownloadCancel"}
           /\ Publish(p, Requests(rows[p], wanted))
    BY <1>5, DownloadAllFacts
  <2>2. \A k \in wanted : rows[p][k].remote
    BY <1>2, <2>1 DEF Shape, Fine
  <2> DEFINE new == Requests(rows[p], wanted)
  <2>3. /\ new \in Seq(Tasks) /\ \A op : op # "send_get_file" => Mentioned(new, op) = {}
        /\ \A x \in Mentioned(new, "send_get_file") : \E k \in wanted : x.id = rows[p][k].id
    BY <1>2, RequestsAre
  <2>4. Adds(p, new)
    BY <2>1, <2>3, PublishAdds
  <2> HIDE DEF new
  <2>5. IdsOf(Mentioned(new, "send_get_file")) \subseteq IdsOf(Shows(p))
    <3>1. \A x \in Mentioned(new, "send_get_file") : x.id \in IdsOf(Shows(p))
      BY <1>4, <2>2, <2>3
    <3> QED
      BY <3>1, IdsOfIs
  <2>6. TodoMove
    BY <1>3, <2>3, <2>4, <2>5
  <2>7. RowsMove
    BY <1>5, DownloadAllFacts, SameListMoves
  <2> QED
    BY <1>5, <2>6, <2>7, Unmoved DEF DownloadAll
<1>6. ASSUME NEW i \in DOMAIN rows[p], DownloadFile(p, i)
      PROVE  RowsMove /\ NamesMove /\ TodoMove
  <2>1. /\ rows[p][i].remote /\ SetStatus(p, i, "Pending") /\ names' = names
        /\ Publish(p, <<About("send_get_file", rows[p][i].id)>>)
    BY <1>6 DEF DownloadFile
  <2>2. RowsMove
    BY <2>1, SetStatusFacts, SameListMoves DEF Statuses
  <2> DEFINE task == About("send_get_file", rows[p][i].id)
  <2>3. /\ task \in Tasks /\ task.op = "send_get_file" /\ <<task>> \in Seq(Tasks)
        /\ task.of = <<Item(rows[p][i].id, NoFile)>>
    <3>1. rows[p][i].id \in Int
      BY RowIs
    <3> QED
      BY <3>1, AboutIsTask DEF Ops
  <2>4. Adds(p, <<task>>)
    BY <2>1, <2>3, PublishAdds
  <2> HIDE DEF task
  <2>5. /\ \A op : op # "send_get_file" => Mentioned(<<task>>, op) = {}
        /\ Mentioned(<<task>>, "send_get_file") = {task.of[m] : m \in DOMAIN task.of}
    BY <2>3, MentionedOne
  <2>6. \A x \in Mentioned(<<task>>, "send_get_file") : x.id = rows[p][i].id
    BY <2>3, <2>5 DEF Item
  <2>7. IdsOf(Mentioned(<<task>>, "send_get_file")) \subseteq IdsOf(Shows(p))
    BY <1>4, <2>1, <2>6, IdsOfIs
  <2>8. TodoMove
    BY <1>3, <2>4, <2>5, <2>7
  <2> QED
    BY <2>1, <2>2, <2>8, Unmoved
<1>7. ASSUME NEW i \in DOMAIN rows[p], CancelTransit(p, i)
      PROVE  RowsMove /\ NamesMove /\ TodoMove
  <2>1. /\ UNCHANGED rows \/ SetStatus(p, i, Canceled(rows[p][i]))
        /\ names' = names /\ Publish(p, CancelTasks(rows[p][i]))
    BY <1>7 DEF CancelTransit
  <2>2. Canceled(rows[p][i]) \in Statuses
    BY DEF Canceled, Statuses
  <2>3. RowsMove
    BY <2>1, <2>2, SetStatusFacts, SameListMoves, Unmoved
  <2>4. rows[p][i] \in Row
    BY <1>2
  <2>5. TodoMove
    BY <2>1, <2>4, CancelTasksAre, QuietTasks, PublishAdds, QuietMoves
  <2> QED
    BY <2>1, <2>3, <2>5, Unmoved
<1>8. ASSUME NEW i \in DOMAIN rows[p], RemoveFile(p, i)
      PROVE  RowsMove /\ NamesMove /\ TodoMove
  <2>1. RowsMove /\ NamesMove
    BY <1>8, RemovedMoves, ErasedMoves DEF RemoveFile
  <2>2. PICK new \in Seq(Tasks) : /\ Publish(p, new)
                                  /\ \A op \in Watched : Mentioned(new, op) = {}
    <3> DEFINE told == IF linked[p]
                       THEN <<About("send_deletefiles", rows[p][i].id)>> ELSE << >>
               new == CancelTasks(rows[p][i]) \o told
    <3>1. /\ new \in Seq(Tasks) /\ Publish(p, new)
          /\ \A op : op \notin Cancels => Mentioned(new, op) = Mentioned(told, op)
          /\ \A op : op # "send_deletefiles" => Mentioned(told, op) = {}
      BY <1>8, RemoveFileFacts
    <3> HIDE DEF new, told
    <3>2. \A op \in Watched : op \notin Cancels /\ op # "send_deletefiles"
      BY DEF Watched, Cancels
    <3> QED
      BY <3>1, <3>2
  <2>3. TodoMove
    BY <2>2, PublishAdds, QuietMoves
  <2> QED
    BY <2>1, <2>3
<1> QED
  BY <1>5, <1>6, <1>7, <1>8

-----------------------------------------------------------------------------
(* The steps that give out ids, and those that begin and end a session *)

LEMMA AddFileKeeps ==
    ASSUME ListType, ListType', IdInv, sessions = 1,
           NEW p \in Peers, NEW f \in Files, AddFile(p, f)
    PROVE  IdInv'
<1> DEFINE q == Other(p)
           id == counter[p]
           item == Item(id, f)
           task == Task("send_addfiles", <<item>>)
           new == [file |-> f, remote |-> FALSE, id |-> id, status |-> "LocalDefault"]
<1> SUFFICES ASSUME First'
             PROVE  (Agree /\ (Open => Counted))'
  BY DEF AddFile, IdInv
<1>1. /\ task \in Tasks /\ rows' = [rows EXCEPT ![p] = Append(@, new)] /\ new \in Row
      /\ counter' = [counter EXCEPT ![p] = NextId(p, 1)]
      /\ Publish(p, IF linked[p] THEN <<task>> ELSE << >>)
      /\ ~asking[p] /\ gestures' = gestures + 1
      /\ UNCHANGED <<names, begin, linked, asking, wire, engineVars, peerVars, sessions,
                     mishaps>>
  BY AddFileFacts
<1>2. gestures \in Nat /\ gestures' \in Nat /\ Top \in Nat
  BY ListAssumption DEF ListType
<1>3. First
  BY <1>1, <1>2 DEF First
<1>4. Agree /\ (Open => Counted)
  BY <1>3 DEF IdInv
<1>5. /\ q \in Peers /\ q # p /\ Other(q) = p /\ \A r \in Peers : r = p \/ r = q
  BY TwoPeers
<1>6. item.id = id /\ item.file = f /\ Pair(new) = item /\ ~new.remote
  BY DEF Item, Pair
<1>7. /\ todo'[q] = todo[q]
      /\ \A op : op # "send_addfiles" => Mentioned(todo'[p], op) = Mentioned(todo[p], op)
      /\ Mentioned(todo'[p], "send_addfiles") \subseteq
             Mentioned(todo[p], "send_addfiles") \cup {item}
  <2>1. task.op = "send_addfiles" /\ task.of = <<item>>
    BY DEF Task
  <2>2. {<<item>>[m] : m \in DOMAIN <<item>>} = {item}
    OBVIOUS
  <2> HIDE DEF task, item
  <2>3. CASE linked[p]
    <3>1. Publish(p, <<task>>) /\ <<task>> \in Seq(Tasks)
      BY <1>1, <2>3
    <3>2. /\ todo'[q] = todo[q]
          /\ \A op : Mentioned(todo'[p], op) = Mentioned(todo[p], op) \cup Mentioned(<<task>>, op)
      BY <1>5, <3>1, PublishFacts
    <3>3. /\ \A op : op # "send_addfiles" => Mentioned(<<task>>, op) = {}
          /\ Mentioned(<<task>>, "send_addfiles") = {item}
      <4>1. task \in Tasks
        BY <1>1
      <4>2. /\ \A op : op # task.op => Mentioned(<<task>>, op) = {}
            /\ Mentioned(<<task>>, task.op) = {task.of[m] : m \in DOMAIN task.of}
        BY <4>1, MentionedOne
      <4> QED
        BY <2>1, <2>2, <4>2
    <3> QED
      BY <3>2, <3>3
  <2>4. CASE ~linked[p]
    <3>1. Publish(p, << >>)
      BY <1>1, <2>4
    <3>2. /\ todo'[q] = todo[q]
          /\ \A op : Mentioned(todo'[p], op) = Mentioned(todo[p], op) \cup Mentioned(<< >>, op)
      BY <1>5, <3>1, EmptyTasks, PublishFacts
    <3> QED
      BY <3>2, EmptyTasks
  <2> QED
    BY <2>3, <2>4
<1> HIDE DEF item, task, new
<1>8. rows[p] \in Seq(Row) /\ rows \in [Peers -> Seq(Row)]
  BY DEF ListType
<1>9. /\ rows'[p] = Append(rows[p], new) /\ rows'[q] = rows[q]
  BY <1>1, <1>5, <1>8
<1>10. \A k \in DOMAIN rows'[p] :
          \/ k \in DOMAIN rows[p] /\ rows'[p][k] = rows[p][k]
          \/ rows'[p][k] = new
  BY <1>1, <1>8, <1>9
<1>11. Listed(p)' \subseteq Listed(p) \cup {item} /\ Shows(p)' \subseteq Shows(p)
  <2>1. \A k \in Own(rows'[p]) : Pair(rows'[p][k]) \in Listed(p) \cup {item}
    BY <1>6, <1>10 DEF Own, Listed
  <2>2. \A k \in Remote(rows'[p]) : Pair(rows'[p][k]) \in Shows(p)
    BY <1>6, <1>10 DEF Remote, Shows
  <2>3. /\ Listed(p)' = {Pair(rows'[p][k]) : k \in Own(rows'[p])}
        /\ Shows(p)' = {Pair(rows'[p][k]) : k \in Remote(rows'[p])}
    BY DEF Listed, Shows
  <2> QED
    BY <2>1, <2>2, <2>3
<1>12. Listed(q)' = Listed(q) /\ Shows(q)' = Shows(q)
  BY <1>9 DEF Listed, Shows
<1>13. /\ \A r \in Peers : /\ NamedBy(r)' = NamedBy(r) /\ Streamed(r)' = Streamed(r)
                           /\ Queued(r)' = Queued(r) /\ AtSender(r)' = AtSender(r)
       /\ Open' = Open /\ asking' = asking /\ wire' = wire
  BY <1>1 DEF NamedBy, Streamed, Queued, AtSender, Open, engineVars, peerVars
<1>14. \A r \in Peers : Heard(r)' = Heard(r)
  BY <1>5, <1>7, <1>13 DEF Heard
<1>15. Told(q)' \subseteq Told(q)
  BY <1>5, <1>7, <1>11, <1>12, <1>13 DEF Told
<1>16. Told(p)' \subseteq Told(p) \cup {item}
  BY <1>1, <1>5, <1>7, <1>11, <1>12, <1>13 DEF Told
<1>17. \A r \in Peers : Asked(r)' = Asked(r)
  BY <1>5, <1>7, <1>13 DEF Asked
<1>18. CASE ~Open
  <2>1. \A r \in Peers : Known(r)' \subseteq Known(r)
    BY <1>13, <1>14, <1>18 DEF Known
  <2>2. ~Open'
    BY <1>13, <1>18
  <2>3. Agree'
    BY <1>4, <2>1 DEF Agree
  <2> QED
    BY <2>2, <2>3
<1>19. CASE Open
  <2>1. Counted /\ Open' /\ ~asking[p]
    BY <1>1, <1>4, <1>13, <1>19
  <2>2. Known(q)' \subseteq Known(q) /\ Known(p)' \subseteq Known(p) \cup {item}
    BY <1>5, <1>14, <1>15, <1>16, <1>19, <2>1 DEF Known
  <2>3. id \notin Used(p) /\ IdsOf(Known(p)) \subseteq Used(p)
    BY <1>3, <2>1, Apart DEF Counted
  <2>4. \A x \in Known(p) : x.id # item.id
    BY <1>6, <2>3, IdsOfIs
  <2>5. Agree'
    <3>1. \A x, y \in Known(p)' : x.id = y.id => x.file = y.file
      BY <1>4, <2>2, <2>4 DEF Agree
    <3>2. \A x, y \in Known(q)' : x.id = y.id => x.file = y.file
      BY <1>4, <1>5, <2>2 DEF Agree
    <3> QED
      BY <1>5, <3>1, <3>2 DEF Agree
  <2>6. /\ Count(p) \in Int /\ Count(q) \in Int /\ counter[p] \in Int /\ counter[q] \in Int
        /\ Spent(q) \in Int
    BY <1>5, CountType
  <2>7. /\ Count(p) >= 0 /\ Count(q) >= 0 /\ Spent(p) + Spent(q) <= gestures
        /\ begin[p] = (IF p = Dialer THEN "Low" ELSE "High")
        /\ begin[q] = (IF q = Dialer THEN "Low" ELSE "High")
        /\ asking[q] => Count(q) = 0
    BY <1>5, <2>1 DEF Counted
  <2>8. /\ counter'[p] = (IF p = Dialer THEN id + 1 ELSE id - 1)
        /\ counter'[q] = counter[q] /\ begin' = begin
    <3>1. counter'[p] = NextId(p, 1) /\ counter'[q] = counter[q] /\ begin' = begin
      BY <1>1, <1>5 DEF ListType
    <3> QED
      BY <2>7, <3>1 DEF NextId
  <2>9. /\ Used(q)' = Used(q) /\ Count(q)' = Count(q)
        /\ Count(p)' = Count(p) + 1
    BY <1>2, <2>6, <2>8 DEF Used, Count
  <2>10. id \in Used(p)' /\ Used(p) \subseteq Used(p)'
    BY <1>2, <2>6, <2>7, <2>8 DEF Used, Count
  <2>11. Spent(p)' = Spent(p) + 1 /\ Spent(q)' = Spent(q)
    BY <1>9, <1>13, <2>1, <2>9 DEF Spent
  <2>12. IdsOf(Known(p)') \subseteq Used(p)' /\ IdsOf(Known(q)') \subseteq Used(q)'
    <3>1. \A x \in Known(p)' : x.id \in Used(p)'
      BY <1>6, <2>2, <2>3, <2>10, IdsOfIs
    <3>2. IdsOf(Known(q)) \subseteq Used(q)
      BY <1>5, <2>1 DEF Counted
    <3>3. \A x \in Known(q)' : x.id \in Used(q)'
      BY <2>2, <2>9, <3>2, IdsOfIs
    <3> QED
      BY <3>1, <3>3, IdsOfIs
  <2>13. Asked(p)' \subseteq Used(p)' /\ Asked(q)' \subseteq Used(q)'
    <3>1. Asked(p) \subseteq Used(p) /\ Asked(q) \subseteq Used(q)
      BY <1>5, <2>1 DEF Counted
    <3> QED
      BY <1>5, <1>17, <2>9, <2>10, <3>1
  <2>14. Spent(p)' + Spent(q)' <= gestures' /\ Spent(q)' + Spent(p)' <= gestures'
         /\ Count(p)' >= 0 /\ Count(q)' >= 0
    <3>1. Spent(p) \in Int
      BY CountType
    <3> QED
      BY <1>1, <1>2, <2>6, <2>7, <2>9, <2>11, <3>1
  <2>15. Counted'
    <3>1. ASSUME NEW r \in Peers
          PROVE  /\ IdsOf(Known(r)') \subseteq Used(r)' /\ Asked(r)' \subseteq Used(r)'
                 /\ begin'[r] = (IF r = Dialer THEN "Low" ELSE "High")
                 /\ asking'[r] => Count(r)' = 0
                 /\ Count(r)' >= 0 /\ Spent(r)' + Spent(Other(r))' <= gestures'
      <4>1. CASE r = p
        BY <1>13, <2>1, <2>7, <2>8, <2>12, <2>13, <2>14, <4>1
      <4>2. CASE r = q
        BY <1>5, <1>13, <2>1, <2>7, <2>8, <2>9, <2>12, <2>13, <2>14, <4>2
      <4> QED
        BY <1>5, <4>1, <4>2
    <3> QED
      BY <3>1 DEF Counted
  <2> QED
    BY <2>5, <2>15
<1> QED
  BY <1>18, <1>19

LEMMA SyncKeeps ==
    ASSUME ListType, ListType', IdInv, sessions = 1,
           NEW p \in Peers, SyncCurrentFiles(p)
    PROVE  IdInv'
<1> DEFINE q == Other(p)
           list == Renumbered(p)
           n == Cardinality(Own(rows[p]))
           own == Entries(list, Own(list))
<1>1. /\ asking[p] /\ asking' = [asking EXCEPT ![p] = FALSE]
      /\ rows' = [rows EXCEPT ![p] = list]
      /\ counter' = [counter EXCEPT ![p] = NextId(p, n)]
      /\ UNCHANGED <<names, begin, linked, wire, engineVars, peerVars, bounds, mishaps>>
  BY SyncFacts
<1>2. Publish(p, IF linked[p] /\ own # << >>
                 THEN <<Task("send_addfiles", [k \in DOMAIN own |->
                                Item(own[k].id, own[k].file)])>>
                 ELSE << >>)
  BY SyncFacts
<1> SUFFICES ASSUME First'
             PROVE  (Agree /\ (Open => Counted))'
  BY <1>1 DEF IdInv, bounds
<1>3. First
  BY <1>1 DEF First, bounds
<1>4. Agree /\ (Open => Counted)
  BY <1>3 DEF IdInv
<1>5. /\ q \in Peers /\ q # p /\ Other(q) = p /\ \A r \in Peers : r = p \/ r = q
  BY TwoPeers
<1>6. /\ list \in Seq(Row) /\ DOMAIN list = DOMAIN rows[p] /\ Own(list) = Own(rows[p])
      /\ \A i \in DOMAIN rows[p] :
            /\ list[i].remote = rows[p][i].remote /\ list[i].file = rows[p][i].file
            /\ IF rows[p][i].remote THEN list[i] = rows[p][i]
               ELSE list[i].id = NextId(p, Before(rows[p], i))
  BY RenumberedFacts
<1>7. rows[p] \in Seq(Row) /\ rows \in [Peers -> Seq(Row)] /\ n \in Nat
  BY OwnFacts DEF ListType
<1> DEFINE announced == {Pair(list[i]) : i \in Own(list)}
<1>8. /\ todo'[q] = todo[q]
      /\ \A op : op # "send_addfiles" => Mentioned(todo'[p], op) = Mentioned(todo[p], op)
      /\ Mentioned(todo'[p], "send_addfiles") \subseteq
             Mentioned(todo[p], "send_addfiles") \cup announced
  <2> DEFINE task == Task("send_addfiles", [k \in DOMAIN own |->
                              Item(own[k].id, own[k].file)])
  <2>1. CASE linked[p] /\ own # << >>
    <3>1. /\ task \in Tasks /\ task.op = "send_addfiles"
          /\ {task.of[m] : m \in DOMAIN task.of} = announced
      BY <1>6, <2>1, AnnouncedFacts
    <3>2. Publish(p, <<task>>)
      BY <1>2, <2>1
    <3> HIDE DEF task
    <3>3. <<task>> \in Seq(Tasks)
      BY <3>1
    <3>4. /\ todo'[q] = todo[q]
          /\ \A op : Mentioned(todo'[p], op) = Mentioned(todo[p], op) \cup Mentioned(<<task>>, op)
      BY <1>5, <3>2, <3>3, PublishFacts
    <3>5. /\ \A op : op # task.op => Mentioned(<<task>>, op) = {}
          /\ Mentioned(<<task>>, task.op) = {task.of[m] : m \in DOMAIN task.of}
      BY <3>1, MentionedOne
    <3> QED
      BY <3>1, <3>4, <3>5
  <2>2. CASE ~(linked[p] /\ own # << >>)
    <3>1. Publish(p, << >>)
      BY <1>2, <2>2
    <3>2. /\ todo'[q] = todo[q]
          /\ \A op : Mentioned(todo'[p], op) = Mentioned(todo[p], op) \cup Mentioned(<< >>, op)
      BY <1>5, <3>1, EmptyTasks, PublishFacts
    <3> QED
      BY <3>2, EmptyTasks
  <2> QED
    BY <2>1, <2>2
<1> HIDE DEF list, n, own
<1>9. rows'[p] = list /\ rows'[q] = rows[q]
  BY <1>1, <1>5, <1>7
<1>10. Listed(p)' = announced /\ Listed(q)' = Listed(q) /\ Shows(q)' = Shows(q)
  BY <1>9 DEF Listed, Shows
<1>11. Shows(p)' = Shows(p)
  <2>1. Remote(list) = Remote(rows[p]) /\ \A i \in Remote(rows[p]) : list[i] = rows[p][i]
    BY <1>6 DEF Remote
  <2> QED
    BY <1>9, <2>1 DEF Shows
<1>12. /\ \A r \in Peers : /\ NamedBy(r)' = NamedBy(r) /\ Streamed(r)' = Streamed(r)
                           /\ Queued(r)' = Queued(r) /\ AtSender(r)' = AtSender(r)
       /\ Open' = Open /\ wire' = wire /\ asking'[q] = asking[q] /\ ~asking'[p]
  BY <1>1, <1>5 DEF NamedBy, Streamed, Queued, AtSender, Open, engineVars, peerVars, ListType
<1>13. \A r \in Peers : Heard(r)' = Heard(r)
  BY <1>5, <1>8, <1>12 DEF Heard
<1>14. Told(q)' = Told(q)
  BY <1>5, <1>8, <1>10, <1>11, <1>12 DEF Told
<1>15. Told(p)' \subseteq Told(p) \cup announced
  BY <1>5, <1>8, <1>10, <1>12 DEF Told
<1>16. \A r \in Peers : Asked(r)' = Asked(r)
  BY <1>5, <1>8, <1>12 DEF Asked
<1>17. CASE ~Open
  <2>1. \A r \in Peers : Known(r)' \subseteq Known(r)
    BY <1>12, <1>13, <1>17 DEF Known
  <2>2. ~Open'
    BY <1>12, <1>17
  <2>3. Agree'
    BY <1>4, <2>1 DEF Agree
  <2> QED
    BY <2>2, <2>3
<1>18. CASE Open
  <2>1. Counted /\ Open'
    BY <1>4, <1>12, <1>18
  <2>2. Used(p) = {} /\ Count(p) = 0
    BY <1>1, <1>3, <2>1, Apart DEF Counted
  <2>3. Known(p) = {} /\ Asked(p) = {}
    <3>1. IdsOf(Known(p)) \subseteq {} /\ Asked(p) \subseteq {}
      BY <2>1, <2>2 DEF Counted
    <3>2. \A x \in Known(p) : x.id \in IdsOf(Known(p))
      BY IdsOfIs
    <3> QED
      BY <3>1, <3>2
  <2>4. Known(q)' = Known(q) /\ Known(p)' \subseteq announced
    BY <1>5, <1>13, <1>14, <1>15, <1>18, <2>1, <2>3 DEF Known
  <2>5. /\ Count(q) \in Int /\ counter[p] \in Int /\ counter[q] \in Int /\ Top \in Nat
        /\ Spent(q) \in Int
    BY <1>5, CountType
  <2>6. /\ Count(q) >= 0 /\ Spent(p) + Spent(q) <= gestures
        /\ begin[p] = (IF p = Dialer THEN "Low" ELSE "High")
        /\ begin[q] = (IF q = Dialer THEN "Low" ELSE "High")
        /\ asking[q] => Count(q) = 0
    BY <1>5, <2>1 DEF Counted
  <2>7. counter[p] = IF p = Dialer THEN 0 ELSE Top
    BY <2>2, <2>5 DEF Count
  <2>8. \A m \in Int : NextId(p, m) = IF p = Dialer THEN m ELSE Top - m
    BY <2>6, <2>7 DEF NextId
  <2>9. ASSUME NEW i \in Own(list)
        PROVE  /\ Pair(list[i]).file = list[i].file
               /\ Pair(list[i]).id = IF p = Dialer THEN Before(rows[p], i)
                                     ELSE Top - Before(rows[p], i)
               /\ Before(rows[p], i) \in 0..(n - 1)
               /\ \A j \in Own(list) : j # i => Before(rows[p], i) # Before(rows[p], j)
    <3>1. i \in Own(rows[p]) /\ i \in DOMAIN rows[p] /\ ~rows[p][i].remote
      BY <1>6 DEF Own
    <3>2. /\ Before(rows[p], i) \in 0..(n - 1)
          /\ \A j \in Own(list) : j # i => Before(rows[p], i) # Before(rows[p], j)
      BY <1>6, <1>7, <3>1, BeforeFacts DEF n
    <3>3. list[i].id = NextId(p, Before(rows[p], i)) /\ Before(rows[p], i) \in Int
      BY <1>6, <3>1, <3>2
    <3> QED
      BY <2>8, <3>2, <3>3 DEF Pair, Item
  <2>10. Agree'
    <3>1. ASSUME NEW x \in announced, NEW y \in announced, x.id = y.id
          PROVE  x.file = y.file
      <4>1. PICK i \in Own(list) : x = Pair(list[i])
        OBVIOUS
      <4>2. PICK j \in Own(list) : y = Pair(list[j])
        OBVIOUS
      <4>3. Before(rows[p], i) \in Int /\ Before(rows[p], j) \in Int
        BY <2>9
      <4>4. Before(rows[p], i) = Before(rows[p], j)
        BY <2>5, <2>9, <3>1, <4>1, <4>2, <4>3
      <4>5. i = j
        BY <2>9, <4>4
      <4> QED
        BY <4>1, <4>2, <4>5
    <3>2. \A x, y \in Known(p)' : x.id = y.id => x.file = y.file
      BY <2>4, <3>1
    <3>3. \A x, y \in Known(q)' : x.id = y.id => x.file = y.file
      BY <1>4, <1>5, <2>4 DEF Agree
    <3> QED
      BY <1>5, <3>2, <3>3 DEF Agree
  <2>11. counter'[p] = (IF p = Dialer THEN n ELSE Top - n) /\ counter'[q] = counter[q]
         /\ begin' = begin
    <3>1. counter'[p] = NextId(p, n) /\ counter'[q] = counter[q] /\ begin' = begin
      BY <1>1, <1>5 DEF ListType
    <3> QED
      BY <1>7, <2>8, <3>1
  <2>12. Used(q)' = Used(q) /\ Count(q)' = Count(q) /\ Count(p)' = n
    BY <1>7, <2>5, <2>11 DEF Used, Count
  <2>13. Spent(p)' = Spent(p) /\ Spent(q)' = Spent(q)
    <3>1. Spent(p) = n
      BY <1>1 DEF Spent, n
    <3> QED
      BY <1>9, <1>12, <2>12, <3>1 DEF Spent
  <2>14. IdsOf(Known(p)') \subseteq Used(p)' /\ IdsOf(Known(q)') \subseteq Used(q)'
    <3>1. ASSUME NEW i \in Own(list)
          PROVE  Pair(list[i]).id \in Used(p)'
      BY <1>7, <2>5, <2>9, <2>11 DEF Used
    <3>2. \A x \in Known(p)' : x.id \in Used(p)'
      BY <2>4, <3>1
    <3>3. IdsOf(Known(q)) \subseteq Used(q)
      BY <1>5, <2>1 DEF Counted
    <3> QED
      BY <2>4, <2>12, <3>2, <3>3, IdsOfIs
  <2>15. Asked(p)' \subseteq Used(p)' /\ Asked(q)' \subseteq Used(q)'
    <3>1. Asked(q) \subseteq Used(q)
      BY <1>5, <2>1 DEF Counted
    <3> QED
      BY <1>5, <1>16, <2>3, <2>12, <3>1
  <2>16. /\ Spent(p)' + Spent(q)' <= gestures' /\ Spent(q)' + Spent(p)' <= gestures'
    <3>1. Spent(p) \in Int /\ gestures' = gestures
      BY <1>1, CountType DEF bounds
    <3> QED
      BY <2>5, <2>6, <2>13, <3>1
  <2>17. Counted'
    <3>1. ASSUME NEW r \in Peers
          PROVE  /\ IdsOf(Known(r)') \subseteq Used(r)' /\ Asked(r)' \subseteq Used(r)'
                 /\ begin'[r] = (IF r = Dialer THEN "Low" ELSE "High")
                 /\ asking'[r] => Count(r)' = 0
                 /\ Count(r)' >= 0 /\ Spent(r)' + Spent(Other(r))' <= gestures'
      <4>1. CASE r = p
        BY <1>7, <1>12, <2>6, <2>11, <2>12, <2>14, <2>15, <2>16, <4>1
      <4>2. CASE r = q
        BY <1>5, <1>12, <2>6, <2>11, <2>12, <2>14, <2>15, <2>16, <4>2
      <4> QED
        BY <1>5, <4>1, <4>2
    <3> QED
      BY <3>1 DEF Counted
  <2> QED
    BY <2>10, <2>17
<1> QED
  BY <1>17, <1>18

LEMMA CloseKeeps ==
    ASSUME ListType, IdInv, sessions = 1, NEW p \in Peers, Close(p)
    PROVE  IdInv'
<1> SUFFICES ASSUME First'
             PROVE  (Agree /\ (Open => Counted))'
  BY DEF Close, IdInv, bounds
<1>1. First
  BY DEF First, Close, bounds
<1>2. Agree
  BY <1>1 DEF IdInv
<1>3. ~Open'
  BY DEF Open, Close, ListType
<1>4. ASSUME NEW r \in Peers
      PROVE  Heard(r)' \subseteq Heard(r)
  <2> DEFINE q == Other(r)
  <2>1. q \in Peers
    BY TwoPeers
  <2>2. /\ names' = names /\ todo' = todo
        /\ wire' = [wire EXCEPT ![p] = << >>] /\ data' = [data EXCEPT ![p] = << >>]
    BY DEF Close
  <2>3. wire'[q] = wire[q] \/ wire'[q] = << >>
    BY <2>1, <2>2 DEF ListType
  <2>4. data'[q] = data[q] \/ data'[q] = << >>
    BY <2>1, <2>2 DEF ListType
  <2>5. Mentioned(wire'[q], "have_addfiles") \subseteq Mentioned(wire[q], "have_addfiles")
    BY <2>3, MentionedNone
  <2>6. Streamed(q)' \subseteq Streamed(q) /\ NamedBy(q)' = NamedBy(q)
    BY <2>2, <2>4 DEF Streamed, NamedBy
  <2> QED
    BY <2>2, <2>5, <2>6 DEF Heard
<1>5. \A r \in Peers : Known(r)' \subseteq Known(r)
  BY <1>3, <1>4 DEF Known
<1> QED
  BY <1>2, <1>3, <1>5 DEF Agree

LEMMA ConnectKeeps ==
    ASSUME ListType, ListType', IdInv, sessions = 0, First, Connect
    PROVE  IdInv'
<1>1. Pristine
  BY DEF IdInv
<1>2. /\ sessions' = 1 /\ linked' = [p \in Peers |-> TRUE]
      /\ begin' = [p \in Peers |-> IF p = Dialer THEN "Low" ELSE "High"]
      /\ counter' = [p \in Peers |-> IF p = Dialer THEN 0 ELSE Top]
      /\ asking' = [p \in Peers |-> rows[p] # << >>]
      /\ UNCHANGED <<rows, names, todo, wire, queue, sending, data, gestures, mishaps>>
  BY DEF Connect, engineVars, peerVars
<1>3. ASSUME NEW p \in Peers
      PROVE  Known(p)' = {} /\ Asked(p)' = {}
  <2> DEFINE q == Other(p)
  <2>1. q \in Peers
    BY TwoPeers
  <2>2. /\ todo'[p] = << >> /\ wire'[p] = << >> /\ queue'[p] = << >>
        /\ sending'[p] = NoTransfer
        /\ todo'[q] = << >> /\ wire'[q] = << >> /\ data'[q] = << >> /\ DOMAIN names'[q] = {}
        /\ \A i \in DOMAIN rows'[q] : ~rows'[q][i].remote
    BY <1>1, <1>2, <2>1 DEF Pristine
  <2>3. \A op : /\ Mentioned(todo'[p], op) = {} /\ Mentioned(todo'[q], op) = {}
                /\ Mentioned(wire'[p], op) = {} /\ Mentioned(wire'[q], op) = {}
    BY <2>2, MentionedNone
  <2>4. NamedBy(q)' = {} /\ Streamed(q)' = {} /\ Queued(p)' = {} /\ AtSender(p)' = {}
        /\ Shows(q)' = {}
    BY <2>2 DEF NamedBy, Streamed, Queued, AtSender, Shows, Remote
  <2>5. asking'[p] \/ Listed(p)' = {}
    <3>1. asking'[p] \/ rows'[p] = << >>
      BY <1>2
    <3> QED
      BY <3>1 DEF Listed, Own
  <2>6. Heard(p)' = {} /\ Told(p)' = {}
    BY <2>3, <2>4, <2>5 DEF Heard, Told
  <2>7. IdsOf({}) = {}
    BY IdsOfIs
  <2> QED
    BY <2>3, <2>6, <2>7 DEF Known, Asked
<1>4. Agree'
  BY <1>3 DEF Agree
<1>5. Counted'
  <2> SUFFICES ASSUME NEW p \in Peers
               PROVE  /\ IdsOf(Known(p)') \subseteq Used(p)' /\ Asked(p)' \subseteq Used(p)'
                      /\ begin'[p] = (IF p = Dialer THEN "Low" ELSE "High")
                      /\ asking'[p] => Count(p)' = 0
                      /\ Count(p)' >= 0 /\ Spent(p)' + Spent(Other(p))' <= gestures'
    BY DEF Counted
  <2>1. Other(p) \in Peers /\ Top \in Nat
    BY TwoPeers, ListAssumption
  <2>2. \A r \in Peers : Count(r)' = 0
    BY <1>2, <2>1 DEF Count
  <2>3. \A r \in Peers : /\ Cardinality(Own(rows[r])) \in Nat
                         /\ Spent(r)' = IF asking'[r] THEN Cardinality(Own(rows[r])) ELSE 0
    BY <1>2, <2>2, CountType DEF Spent
  <2>4. /\ Cardinality(Own(rows[p])) + Cardinality(Own(rows[Other(p)])) <= gestures
        /\ gestures' = gestures /\ gestures \in Nat
    BY <1>1, <1>2 DEF Pristine, ListType
  <2>5. Spent(p)' + Spent(Other(p))' <= gestures'
    BY <2>1, <2>3, <2>4
  <2>6. IdsOf({}) = {}
    BY IdsOfIs
  <2>7. IdsOf(Known(p)') \subseteq Used(p)' /\ Asked(p)' \subseteq Used(p)'
    <3>1. Known(p)' = {} /\ Asked(p)' = {}
      BY <1>3
    <3> QED
      BY <2>6, <3>1
  <2>8. begin'[p] = (IF p = Dialer THEN "Low" ELSE "High")
    BY <1>2
  <2>9. Count(p)' = 0 /\ 0 >= 0
    BY <2>2
  <2> QED
    BY <2>5, <2>7, <2>8, <2>9
<1> QED
  BY <1>2, <1>4, <1>5 DEF IdInv

\* Before the first session the users add and remove files.
LEMMA PristineKeeps ==
    ASSUME ListType, ListType', IdInv, sessions = 0, First, Next, ~Connect
    PROVE  IdInv'
<1>1. Pristine
  BY DEF IdInv
<1>2. PICK p \in Peers : Run(p) \/ Receive(p) \/ Sender(p) \/ Parse(p) \/ Window(p) \/ Close(p)
  BY DEF Next
<1> DEFINE q == Other(p)
<1>3. /\ q \in Peers /\ q # p /\ Other(q) = p /\ \A r \in Peers : r = p \/ r = q
  BY TwoPeers
<1>4. /\ ~linked[p] /\ ~asking[p] /\ sending[p] = NoTransfer /\ todo[p] = << >>
      /\ \A i \in DOMAIN rows[p] : ~rows[p][i].remote /\ rows[p][i].status = "LocalDefault"
  BY <1>1 DEF Pristine
<1>5. ~Run(p) /\ ~Receive(p) /\ ~Sender(p) /\ ~Parse(p) /\ ~Close(p)
  BY <1>4 DEF Run, Receive, Sender, TakeTask, SendHeader, SendBlock, SendEnd, ReportEnd,
              Parse, Close
<1>6. \/ \E f \in Files : AddFile(p, f)
      \/ \E i \in DOMAIN rows[p] : RemoveFile(p, i)
      \/ DownloadAll(p)
  BY <1>2, <1>4, <1>5 DEF Window, SyncCurrentFiles, DeclineSync, DownloadFile, CancelTransit,
                          Busy
<1>7. rows \in [Peers -> Seq(Row)] /\ rows[p] \in Seq(Row) /\ todo \in [Peers -> Seq(Tasks)]
  BY DEF ListType
<1>8. /\ Cardinality(Own(rows[p])) \in Nat /\ Cardinality(Own(rows[q])) \in Nat
      /\ Cardinality(Own(rows[p])) + Cardinality(Own(rows[q])) <= gestures
      /\ gestures \in Nat /\ gestures' \in Nat
  BY <1>1, <1>3, CountType DEF Pristine, ListType
<1>9. ASSUME todo' = todo, gestures' = gestures + 1, DOMAIN names'[p] = {},
             names'[q] = names[q], rows'[q] = rows[q],
             UNCHANGED <<linked, asking, wire, queue, sending, data, sessions>>,
             \A i \in DOMAIN rows'[p] : ~rows'[p][i].remote /\ rows'[p][i].status = "LocalDefault",
             Cardinality(Own(rows'[p])) \in Nat,
             Cardinality(Own(rows'[p])) <= Cardinality(Own(rows[p])) + 1
      PROVE  IdInv'
  <2>1. /\ Cardinality(Own(rows'[p])) + Cardinality(Own(rows'[q])) <= gestures'
        /\ Cardinality(Own(rows'[q])) + Cardinality(Own(rows'[p])) <= gestures'
    BY <1>8, <1>9
  <2>2. ASSUME NEW r \in Peers
        PROVE  /\ ~linked'[r] /\ ~asking'[r] /\ sending'[r] = NoTransfer
               /\ todo'[r] = << >> /\ wire'[r] = << >> /\ queue'[r] = << >>
               /\ data'[r] = << >> /\ DOMAIN names'[r] = {}
               /\ \A i \in DOMAIN rows'[r] :
                     ~rows'[r][i].remote /\ rows'[r][i].status = "LocalDefault"
               /\ Cardinality(Own(rows'[r])) + Cardinality(Own(rows'[Other(r)])) <= gestures'
    <3>1. /\ ~linked[r] /\ ~asking[r] /\ sending[r] = NoTransfer
          /\ todo[r] = << >> /\ wire[r] = << >> /\ queue[r] = << >>
          /\ data[r] = << >> /\ DOMAIN names[r] = {}
          /\ \A i \in DOMAIN rows[r] :
                ~rows[r][i].remote /\ rows[r][i].status = "LocalDefault"
      BY <1>1 DEF Pristine
    <3>2. CASE r = p
      BY <1>9, <2>1, <3>1, <3>2
    <3>3. CASE r = q
      BY <1>3, <1>9, <2>1, <3>1, <3>3
    <3> QED
      BY <1>3, <3>2, <3>3
  <2>3. Pristine'
    BY <2>2 DEF Pristine
  <2> QED
    BY <1>9, <2>3 DEF IdInv
<1>10. Publish(p, << >>) => todo' = todo
  <2>1. todo[p] \o << >> = todo[p]
    BY <1>4
  <2> QED
    BY <1>7, <2>1 DEF Publish
<1>11. DOMAIN names[p] = {}
       /\ names \in [Peers -> UNION {[ids -> Files \cup {NoFile}] : ids \in SUBSET Int}]
  BY <1>1 DEF Pristine, ListType
<1>12. ASSUME NEW f \in Files, AddFile(p, f)
       PROVE  IdInv'
  <2> DEFINE new == [file |-> f, remote |-> FALSE, id |-> counter[p],
                     status |-> "LocalDefault"]
  <2>1. /\ new \in Row /\ rows' = [rows EXCEPT ![p] = Append(@, new)]
        /\ Publish(p, << >>) /\ gestures' = gestures + 1
        /\ UNCHANGED <<names, linked, asking, wire, engineVars, peerVars, sessions>>
    BY <1>4, <1>12, AddFileFacts
  <2>2. ~new.remote /\ new.status = "LocalDefault"
    OBVIOUS
  <2> HIDE DEF new
  <2> DEFINE old == rows[p]
  <2>3. rows'[p] = Append(old, new) /\ rows'[q] = rows[q] /\ old \in Seq(Row)
    BY <1>3, <1>7, <2>1
  <2> HIDE DEF old
  <2>4. /\ DOMAIN Append(old, new) = DOMAIN old \cup {Len(old) + 1}
        /\ \A i \in DOMAIN old : Append(old, new)[i] = old[i]
        /\ Append(old, new)[Len(old) + 1] = new /\ Len(old) + 1 \notin DOMAIN old
    BY <2>1, <2>3
  <2>5. \A i \in DOMAIN rows'[p] : ~rows'[p][i].remote /\ rows'[p][i].status = "LocalDefault"
    BY <1>4, <2>2, <2>3, <2>4 DEF old
  <2>6. Own(rows'[p]) = Own(old) \cup {Len(old) + 1} /\ Len(old) + 1 \notin Own(old)
    BY <2>2, <2>3, <2>4 DEF Own
  <2>7. IsFiniteSet(Own(old)) /\ Cardinality(Own(old)) \in Nat
    BY <2>3, OwnFacts
  <2>8. Cardinality(Own(rows'[p])) = Cardinality(Own(old)) + 1
    BY <2>6, <2>7, FS_AddElement
  <2> QED
    BY <1>9, <1>10, <1>11, <2>1, <2>3, <2>5, <2>7, <2>8 DEF old, engineVars, peerVars
<1>13. ASSUME NEW i \in DOMAIN rows[p], RemoveFile(p, i)
       PROVE  IdInv'
  <2>1. /\ rows' = [rows EXCEPT ![p] = RemoveAt(@, i)]
        /\ names' = [names EXCEPT ![p] = Erase(@, rows[p][i].id)]
        /\ Publish(p, CancelTasks(rows[p][i]) \o << >>)
        /\ gestures' = gestures + 1
        /\ UNCHANGED <<linked, asking, wire, engineVars, peerVars, sessions>>
    BY <1>4, <1>13 DEF RemoveFile, Gesture
  <2>2. CancelTasks(rows[p][i]) = << >>
    BY <1>4 DEF CancelTasks
  <2>3. << >> \o << >> = << >>
    OBVIOUS
  <2>4. todo' = todo
    BY <1>10, <2>1, <2>2, <2>3
  <2>5. /\ rows'[p] = RemoveAt(rows[p], i) /\ rows'[q] = rows[q]
        /\ \A k \in DOMAIN rows'[p] : \E j \in DOMAIN rows[p] : rows'[p][k] = rows[p][j]
    BY <1>3, <2>1, RemoveRow
  <2>6. \A k \in DOMAIN rows'[p] : ~rows'[p][k].remote /\ rows'[p][k].status = "LocalDefault"
    BY <1>4, <2>5
  <2>7. Cardinality(Own(rows'[p])) <= Cardinality(Own(rows[p])) /\ rows'[p] \in Seq(Row)
    BY <1>7, <2>5, FewerOwn
  <2>8. Cardinality(Own(rows'[p])) \in Nat
    BY <2>7, OwnFacts
  <2>9. DOMAIN names'[p] = {} /\ names'[q] = names[q]
    BY <1>3, <1>11, <2>1 DEF Erase
  <2> QED
    BY <1>8, <1>9, <2>1, <2>4, <2>5, <2>6, <2>7, <2>8, <2>9 DEF engineVars, peerVars
<1>14. CASE DownloadAll(p)
  <2>1. /\ Publish(p, Requests(rows[p], {}))
        /\ rows' = [rows EXCEPT ![p] = Requested(@, {})]
        /\ gestures' = gestures + 1
        /\ UNCHANGED <<names, linked, asking, wire, engineVars, peerVars, sessions>>
    <3>1. Wanted(rows[p], {"RemoteDefault", "DownloadCancel"}, Files) = {}
      BY <1>4 DEF Wanted
    <3> QED
      BY <1>14, <3>1 DEF DownloadAll, Gesture
  <2>2. Requests(rows[p], {}) = << >>
    <3>1. Entries(rows[p], {}) \in Seq(Row) /\ Len(Entries(rows[p], {})) = 0
      BY <1>7, EntriesOf, FS_EmptySet
    <3>2. DOMAIN Entries(rows[p], {}) = {}
      BY <3>1
    <3>3. DOMAIN Requests(rows[p], {}) = {}
      BY <3>2 DEF Requests
    <3>4. Requests(rows[p], {}) \in Seq(Tasks)
      BY <1>7, RequestsAre
    <3> QED
      BY <3>3, <3>4
  <2>3. todo' = todo
    BY <1>10, <2>1, <2>2
  <2>4. Requested(rows[p], {}) = rows[p]
    BY <1>7 DEF Requested
  <2>5. rows' = rows
    BY <1>7, <2>1, <2>4
  <2> QED
    BY <1>4, <1>8, <1>9, <1>11, <2>1, <2>3, <2>5 DEF engineVars, peerVars
<1> QED
  BY <1>6, <1>12, <1>13, <1>14

-----------------------------------------------------------------------------
(* What holds in every state *)

LEMMA StatusFine ==
    ASSUME ListType, Shape, NEW p \in Peers, NEW at \in DOMAIN rows[p], NEW status,
           SetStatus(p, at, status),
           rows[p][at].remote \/ status \notin {"RemoteDefault", "DownloadCancel"}
    PROVE  \A q \in Peers : \A i \in DOMAIN rows'[q] : Fine(rows'[q][i])
<1>1. rows \in [Peers -> Seq(Row)] /\ rows[p] \in Seq(Row)
  BY DEF ListType
<1> DEFINE new == [rows[p] EXCEPT ![at].status = status]
<1>2. rows' = [rows EXCEPT ![p] = new]
  BY DEF SetStatus
<1>3. rows'[p] = new /\ \A q \in Peers : q # p => rows'[q] = rows[q]
  BY <1>1, <1>2
<1>4. ASSUME NEW i \in DOMAIN new
      PROVE  Fine(new[i])
  <2>1. i \in DOMAIN rows[p] /\ rows[p][i] \in Row
    BY <1>1
  <2>2. CASE i = at
    <3>1. new[i] = [rows[p][i] EXCEPT !.status = status]
      BY <2>1, <2>2
    <3> QED
      BY <2>1, <2>2, <3>1 DEF Fine, Row
  <2>3. CASE i # at
    <3>1. new[i] = rows[p][i]
      BY <2>1, <2>3
    <3> QED
      BY <2>1, <3>1 DEF Shape
  <2> QED
    BY <2>2, <2>3
<1> HIDE DEF new
<1> QED
  BY <1>3, <1>4 DEF Shape

LEMMA RequestedFine ==
    ASSUME NEW list \in Seq(Row), NEW wanted, \A k \in DOMAIN list : Fine(list[k])
    PROVE  \A k \in DOMAIN Requested(list, wanted) : Fine(Requested(list, wanted)[k])
<1> SUFFICES ASSUME NEW k \in DOMAIN list
             PROVE  Fine(IF k \in wanted THEN [list[k] EXCEPT !.status = "Pending"] ELSE list[k])
  BY DEF Requested
<1>1. list[k] \in Row
  OBVIOUS
<1> QED
  BY <1>1 DEF Fine, Row

LEMMA RowsFine ==
    ASSUME ListType, Shape, [Next]_vars
    PROVE  \A q \in Peers : \A i \in DOMAIN rows'[q] : Fine(rows'[q][i])
<1> DEFINE Goal == \A q \in Peers : \A i \in DOMAIN rows'[q] : Fine(rows'[q][i])
<1> SUFFICES Goal
  OBVIOUS
<1>1. rows \in [Peers -> Seq(Row)]
  BY DEF ListType
<1>2. ASSUME rows' = rows
      PROVE  Goal
  BY <1>2 DEF Shape
<1>3. ASSUME NEW p \in Peers, NEW new, rows' = [rows EXCEPT ![p] = new],
             \A i \in DOMAIN new : Fine(new[i])
      PROVE  Goal
  BY <1>1, <1>3 DEF Shape
<1>4. ASSUME NEW p \in Peers, NEW at \in DOMAIN rows[p],
             rows' = [rows EXCEPT ![p] = RemoveAt(@, at)]
      PROVE  Goal
  <2>1. /\ rows'[p] = RemoveAt(rows[p], at) /\ \A q \in Peers : q # p => rows'[q] = rows[q]
        /\ \A k \in DOMAIN rows'[p] : \E j \in DOMAIN rows[p] : rows'[p][k] = rows[p][j]
    BY <1>4, RemoveRow
  <2> QED
    BY <2>1 DEF Shape
<1> HIDE DEF Goal
<1>5. ASSUME NEW p \in Peers, NEW i \in DOMAIN todo[p], Steps(p, i)
      PROVE  Goal
  <2> DEFINE t == todo[p][i]
             id == t.of[1].id
  <2> HIDE DEF id
  <2>1. CASE AddRemoteFiles(p, i)
    <3> DEFINE long == Longer(p, t)
    <3>1. t \in Tasks /\ rows' = [rows EXCEPT ![p] = Requested(long, Automated(p, t))]
      BY <2>1, AddRemoteFacts
    <3> HIDE DEF t
    <3>2. /\ long \in Seq(Row)
          /\ \A k \in DOMAIN long :
                \/ k \in DOMAIN rows[p] /\ long[k] = rows[p][k]
                \/ \E m \in DOMAIN t.of : /\ long[k] = Added(t)[m]
                                          /\ k = Len(rows[p]) + m
      BY <3>1, LongerFacts
    <3>3. \A m \in DOMAIN t.of : Added(t)[m].remote
      BY <3>1, LongerFacts
    <3> HIDE DEF long
    <3>4. \A k \in DOMAIN long : Fine(long[k])
      BY <3>2, <3>3 DEF Shape, Fine
    <3>5. \A k \in DOMAIN Requested(long, Automated(p, t)) :
             Fine(Requested(long, Automated(p, t))[k])
      BY <3>2, <3>4, RequestedFine
    <3> QED
      BY <1>3, <3>1, <3>5
  <2>2. CASE \/ HaveDownLoadRequest(p, i) \/ OnHaveExpiredFile(p, i)
             \/ OnUploadFileProgress(p, i) \/ OnDownLoadProgress(p, i)
    <3>1. \E at \in Find(p, id) :
             \/ rows' = rows
             \/ \E status \in {"Pending", "Error", "UploadCompleted", "Uploading",
                               "DownloadCompleted", "Downloading"} :
                   SetStatus(p, at, status)
      <4>1. HaveDownLoadRequest(p, i) =>
               \E at \in Find(p, id) : SetStatus(p, at, "Pending") \/ SetStatus(p, at, "Error")
        BY DEF HaveDownLoadRequest, id
      <4>2. OnHaveExpiredFile(p, i) => \E at \in Find(p, id) : SetStatus(p, at, "Error")
        BY DEF OnHaveExpiredFile, id
      <4>3. OnUploadFileProgress(p, i) =>
               \E at \in Find(p, id) : \/ rows' = rows
                                       \/ SetStatus(p, at, "UploadCompleted")
                                       \/ SetStatus(p, at, "Uploading")
        BY SMT DEF OnUploadFileProgress, id
      <4>4. OnDownLoadProgress(p, i) =>
               \E at \in Find(p, id) : \/ rows' = rows
                                       \/ SetStatus(p, at, "DownloadCompleted")
                                       \/ SetStatus(p, at, "Downloading")
        BY SMT DEF OnDownLoadProgress, id
      <4> QED
        BY ONLY <2>2, <4>1, <4>2, <4>3, <4>4, Zenon
    <3>2. PICK at \in Find(p, id) :
             \/ rows' = rows
             \/ \E status \in {"Pending", "Error", "UploadCompleted", "Uploading",
                               "DownloadCompleted", "Downloading"} :
                   SetStatus(p, at, status)
      BY <3>1
    <3>3. at \in DOMAIN rows[p]
      BY FindRow
    <3> QED
      BY <1>2, <3>2, <3>3, StatusFine DEF Goal
  <2>3. CASE RemoveFileById(p, i)
    <3>1. PICK at \in Find(p, id) : rows' = [rows EXCEPT ![p] = RemoveAt(@, at)]
      BY <2>3 DEF RemoveFileById, id
    <3> QED
      BY <1>4, <3>1, FindRow
  <2>4. CASE OnHaveCancelFile(p, i)
    <3> DEFINE hit == {k \in DOMAIN rows[p] : rows[p][k].id = id}
               new == [k \in DOMAIN rows[p] |->
                          LET row == rows[p][k] IN
                          IF k \in hit THEN [row EXCEPT !.status = Canceled(row)] ELSE row]
    <3>1. rows' = [rows EXCEPT ![p] = new]
      BY <2>4 DEF OnHaveCancelFile, id
    <3>2. ASSUME NEW k \in DOMAIN rows[p]
          PROVE  Fine(new[k])
      <4>1. rows[p][k] \in Row /\ Fine(rows[p][k])
        BY <1>1 DEF Shape
      <4>2. Fine([rows[p][k] EXCEPT !.status = Canceled(rows[p][k])])
        BY <4>1 DEF Fine, Canceled, Row
      <4> QED
        BY <4>1, <4>2
    <3>3. DOMAIN new = DOMAIN rows[p]
      OBVIOUS
    <3> HIDE DEF new
    <3> QED
      BY <1>3, <3>1, <3>2, <3>3
  <2>5. CASE \/ Send(p, i) \/ NotFound(p, i) \/ OnHaveFileToSend(p, i)
             \/ OnCancelSendFile(p, i) \/ OnCancelUploadFile(p, i)
    BY <1>2, <2>5 DEF Send, NotFound, OnHaveFileToSend, OnCancelSendFile,
                      OnCancelUploadFile, listVars
  <2> QED
    BY <1>5, <2>1, <2>2, <2>3, <2>4, <2>5 DEF Steps
<1>6. ASSUME NEW p \in Peers, Window(p)
      PROVE  Goal
  <2>1. ASSUME NEW f \in Files, AddFile(p, f)
        PROVE  Goal
    <3> DEFINE new == [file |-> f, remote |-> FALSE, id |-> counter[p],
                       status |-> "LocalDefault"]
               old == rows[p]
    <3>1. new \in Row /\ rows' = [rows EXCEPT ![p] = Append(old, new)] /\ old \in Seq(Row)
      BY <1>1, <2>1, AddFileFacts
    <3>2. Fine(new) /\ \A k \in DOMAIN old : Fine(old[k])
      BY DEF Fine, Shape
    <3> HIDE DEF new, old
    <3>3. \A k \in DOMAIN Append(old, new) :
             (k \in DOMAIN old /\ Append(old, new)[k] = old[k]) \/ Append(old, new)[k] = new
      BY <3>1
    <3> QED
      BY <1>3, <3>1, <3>2, <3>3
  <2>2. ASSUME NEW k \in DOMAIN rows[p], DownloadFile(p, k)
        PROVE  Goal
    BY <2>2, StatusFine DEF DownloadFile, Goal
  <2>3. ASSUME NEW k \in DOMAIN rows[p], CancelTransit(p, k)
        PROVE  Goal
    <3>1. rows' = rows \/ SetStatus(p, k, Canceled(rows[p][k]))
      BY <2>3 DEF CancelTransit
    <3>2. rows[p][k].remote \/ Canceled(rows[p][k]) \notin {"RemoteDefault", "DownloadCancel"}
      BY DEF Canceled
    <3> QED
      BY <1>2, <3>1, <3>2, StatusFine DEF Goal
  <2>4. ASSUME NEW k \in DOMAIN rows[p], RemoveFile(p, k)
        PROVE  Goal
    BY <1>4, <2>4 DEF RemoveFile
  <2>5. CASE DownloadAll(p)
    <3> DEFINE wanted == Wanted(rows[p], {"RemoteDefault", "DownloadCancel"}, Files)
    <3>1. rows' = [rows EXCEPT ![p] = Requested(rows[p], wanted)]
      BY <2>5 DEF DownloadAll
    <3> HIDE DEF wanted
    <3>2. \A k \in DOMAIN Requested(rows[p], wanted) : Fine(Requested(rows[p], wanted)[k])
      BY <1>1, RequestedFine DEF Shape
    <3> QED
      BY <1>3, <3>1, <3>2
  <2>6. CASE SyncCurrentFiles(p)
    <3>1. rows' = [rows EXCEPT ![p] = Renumbered(p)]
      BY <2>6, SyncFacts
    <3>2. \A k \in DOMAIN Renumbered(p) : Fine(Renumbered(p)[k])
      <4> SUFFICES ASSUME NEW k \in DOMAIN rows[p]
                   PROVE  Fine(Renumbered(p)[k])
        BY RenumberedFacts
      <4>1. rows[p][k] \in Row /\ Fine(rows[p][k])
        BY <1>1 DEF Shape
      <4> QED
        BY <4>1 DEF Fine, Renumbered, Row
    <3> QED
      BY <1>3, <3>1, <3>2
  <2>7. CASE DeclineSync(p)
    BY <1>2, <2>7 DEF DeclineSync, listVars
  <2> QED
    BY <1>6, <2>1, <2>2, <2>3, <2>4, <2>5, <2>6, <2>7 DEF Window
<1>7. ASSUME NEW p \in Peers, Close(p)
      PROVE  Goal
  <2> DEFINE own == Entries(rows[p], Own(rows[p]))
             new == [k \in DOMAIN own |-> [own[k] EXCEPT !.status = "LocalDefault"]]
  <2>1. rows' = [rows EXCEPT ![p] = new]
    BY <1>7 DEF Close
  <2>2. own \in Seq(Row)
    <3>1. rows[p] \in Seq(Row)
      BY <1>1
    <3> QED
      BY <3>1, OwnFacts, EntriesOf
  <2> HIDE DEF own
  <2>3. ASSUME NEW k \in DOMAIN own
        PROVE  Fine(new[k])
    <3>1. own[k] \in Row
      BY <2>2
    <3> QED
      BY <3>1 DEF Fine, Row
  <2>4. DOMAIN new = DOMAIN own
    OBVIOUS
  <2> HIDE DEF new
  <2> QED
    BY <1>3, <2>1, <2>3, <2>4
<1>8. ASSUME NEW p \in Peers, Receive(p) \/ Sender(p) \/ Parse(p)
      PROVE  Goal
  BY <1>2, <1>8 DEF Receive, Sender, TakeTask, SendHeader, SendBlock, SendEnd, ReportEnd,
                    Parse, listVars
<1>9. Connect \/ UNCHANGED vars => Goal
  BY <1>2 DEF Connect, vars, listVars
<1>10. ASSUME NEW p \in Peers, Run(p)
       PROVE  Goal
  BY <1>5, <1>10 DEF Run, Steps
<1> QED
  BY <1>6, <1>7, <1>8, <1>9, <1>10 DEF Next

LEMMA WireFine ==
    ASSUME ListType, Shape, [Next]_vars
    PROVE  \A p \in Peers : \A k \in DOMAIN wire'[p] :
              wire'[p][k].op \in {Arrives[op] : op \in DOMAIN Arrives}
<1> DEFINE Goal == \A p \in Peers : \A k \in DOMAIN wire'[p] :
                      wire'[p][k].op \in {Arrives[op] : op \in DOMAIN Arrives}
<1> SUFFICES Goal
  OBVIOUS
<1>1. wire \in [Peers -> Seq(Tasks)]
  BY DEF ListType
<1>2. wire' = wire => Goal
  BY DEF Shape
<1>3. ASSUME NEW p \in Peers, NEW i \in DOMAIN todo[p], Send(p, i)
      PROVE  Goal
  <2> DEFINE q == Other(p)
             sent == Task(Arrives[todo[p][i].op], todo[p][i].of)
  <2>1. /\ todo[p][i].op \in DOMAIN Arrives /\ sent \in Tasks
        /\ wire' = wire \/ wire' = [wire EXCEPT ![q] = Append(@, sent)]
    BY <1>3, SendFacts
  <2>2. sent.op \in {Arrives[op] : op \in DOMAIN Arrives}
    BY <2>1 DEF Task
  <2> HIDE DEF sent
  <2>3. q \in Peers /\ wire[q] \in Seq(Tasks)
    BY <1>1, TwoPeers
  <2>4. \A k \in DOMAIN Append(wire[q], sent) :
           \/ k \in DOMAIN wire[q] /\ Append(wire[q], sent)[k] = wire[q][k]
           \/ Append(wire[q], sent)[k] = sent
    BY <2>1, <2>3
  <2>5. CASE wire' = [wire EXCEPT ![q] = Append(@, sent)]
    <3>1. wire'[q] = Append(wire[q], sent) /\ \A r \in Peers : r # q => wire'[r] = wire[r]
      BY <1>1, <2>3, <2>5
    <3> QED
      BY <2>2, <2>3, <2>4, <3>1 DEF Shape
  <2> QED
    BY <1>2, <2>1, <2>5
<1>4. ASSUME NEW p \in Peers, Receive(p)
      PROVE  Goal
  <2>1. /\ wire' = [wire EXCEPT ![p] = Tail(wire[p])] /\ wire[p] \in Seq(Tasks)
        /\ wire[p] # << >>
    BY <1>4, ReceiveFacts
  <2>2. \A k \in DOMAIN Tail(wire[p]) :
           k + 1 \in DOMAIN wire[p] /\ Tail(wire[p])[k] = wire[p][k + 1]
    BY <2>1
  <2>3. wire'[p] = Tail(wire[p]) /\ \A r \in Peers : r # p => wire'[r] = wire[r]
    BY <1>1, <2>1
  <2>4. \A k \in DOMAIN wire'[p] :
           wire'[p][k].op \in {Arrives[op] : op \in DOMAIN Arrives}
    <3> SUFFICES ASSUME NEW k \in DOMAIN Tail(wire[p])
                 PROVE  Tail(wire[p])[k].op \in {Arrives[op] : op \in DOMAIN Arrives}
      BY <2>3
    <3>1. k + 1 \in DOMAIN wire[p] /\ Tail(wire[p])[k] = wire[p][k + 1]
      BY <2>2
    <3> QED
      BY <3>1 DEF Shape
  <2> QED
    BY <2>3, <2>4 DEF Shape
<1>5. ASSUME NEW p \in Peers, Close(p)
      PROVE  Goal
  <2>1. wire' = [wire EXCEPT ![p] = << >>]
    BY <1>5 DEF Close
  <2> QED
    BY <1>1, <2>1 DEF Shape
<1>6. ASSUME NEW p \in Peers, Run(p)
      PROVE  wire' = wire \/ \E i \in DOMAIN todo[p] : Send(p, i)
  BY <1>6 DEF Run, AddRemoteFiles, NotFound, HaveDownLoadRequest, OnHaveExpiredFile,
         RemoveFileById, OnUploadFileProgress, OnDownLoadProgress, OnHaveCancelFile,
         OnHaveFileToSend, OnCancelSendFile, OnCancelUploadFile
<1>7. ASSUME NEW p \in Peers, Sender(p) \/ Parse(p) \/ Window(p)
      PROVE  wire' = wire
  BY <1>7 DEF Sender, TakeTask, SendHeader, SendBlock, SendEnd, ReportEnd, Parse, Window,
              AddFile, DownloadFile, CancelTransit, RemoveFile, DownloadAll,
              SyncCurrentFiles, DeclineSync
<1>8. Connect \/ UNCHANGED vars => wire' = wire
  BY DEF Connect, vars
<1> HIDE DEF Goal
<1> QED
  BY <1>2, <1>3, <1>4, <1>5, <1>6, <1>7, <1>8 DEF Next

LEMMA ShapeStep == ListType /\ Shape /\ [Next]_vars => Shape'
  BY RowsFine, WireFine DEF Shape

-----------------------------------------------------------------------------
(* What is stored is what its name says *)

LEMMA FirstBack ==
    ASSUME ListType, [Next]_vars, First'
    PROVE  First
<1>1. sessions \in Nat /\ gestures \in Nat
  BY ListAssumption DEF ListType
<1>2. sessions <= sessions' /\ gestures <= gestures' /\ mishaps \subseteq mishaps'
  <2>1. ASSUME NEW p \in Peers, Run(p)
        PROVE  UNCHANGED bounds /\ mishaps \subseteq mishaps'
    BY <2>1 DEF Run, Send, AddRemoteFiles, NotFound, HaveDownLoadRequest,
           OnHaveExpiredFile, RemoveFileById, OnUploadFileProgress, OnDownLoadProgress,
           OnHaveCancelFile, OnHaveFileToSend, OnCancelSendFile, OnCancelUploadFile, Mishap
  <2>2. ASSUME NEW p \in Peers, Receive(p) \/ Sender(p) \/ Parse(p) \/ Close(p)
        PROVE  UNCHANGED bounds /\ mishaps \subseteq mishaps'
    BY <2>2 DEF Receive, Sender, TakeTask, SendHeader, SendBlock, SendEnd, ReportEnd,
           Parse, ParseHeader, ParseBlock, ParseEnd, Close
  <2>3. ASSUME NEW p \in Peers, Window(p)
        PROVE  /\ sessions' = sessions /\ gestures' \in {gestures, gestures + 1}
               /\ mishaps \subseteq mishaps'
    BY <2>3 DEF Window, AddFile, DownloadFile, CancelTransit, RemoveFile, DownloadAll,
           SyncCurrentFiles, DeclineSync, Gesture, bounds
  <2>4. Connect => sessions' = sessions + 1 /\ UNCHANGED <<gestures, mishaps>>
    BY DEF Connect
  <2>5. UNCHANGED vars => UNCHANGED <<bounds, mishaps>>
    BY DEF vars
  <2> QED
    BY <1>1, <2>1, <2>2, <2>3, <2>4, <2>5 DEF Next, bounds
<1>3. sessions' \in Nat /\ gestures' \in Nat
  BY TypeStep, ListAssumption DEF ListType
<1> QED
  BY <1>1, <1>2, <1>3, ListAssumption DEF First

LEMMA IdStep ==
    ASSUME ListType, ListType', Shape, IdInv, [Next]_vars
    PROVE  IdInv'
<1> SUFFICES ASSUME First'
             PROVE  IdInv'
  BY DEF IdInv
<1>1. First /\ sessions \in {0, 1} /\ sessions' <= 1
  <2>1. First
    BY FirstBack
  <2>2. sessions \in Nat
    BY ListAssumption DEF ListType
  <2>3. sessions' <= 1
    BY DEF First
  <2> QED
    BY <2>1, <2>2, <2>3 DEF First
<1>2. CASE UNCHANGED vars
  <2>1. UNCHANGED <<rows, names, todo, wire, queue, sending, data>>
    BY <1>2 DEF vars, listVars, engineVars, peerVars
  <2>2. UNCHANGED <<linked, asking, counter, begin, sessions, gestures, mishaps>>
    BY <1>2 DEF vars, listVars, bounds
  <2>3. Moves
    BY <2>1, <2>2, Unmoved DEF Moves
  <2>4. CASE sessions = 1
    BY <2>3, <2>4, MovesKeep
  <2>5. CASE sessions = 0
    <3>1. Pristine
      BY <1>1, <2>5 DEF IdInv
    <3>2. Pristine'
      BY <2>1, <2>2, <3>1 DEF Pristine
    <3> QED
      BY <2>2, <2>5, <3>2 DEF IdInv
  <2> QED
    BY <1>1, <2>4, <2>5
<1>3. CASE sessions = 0 /\ Connect
  BY <1>1, <1>3, ConnectKeeps
<1>4. CASE sessions = 0 /\ Next /\ ~Connect
  BY <1>1, <1>4, PristineKeeps
<1>5. CASE sessions = 1 /\ Next
  <2>1. Open => Counted
    BY <1>1, <1>5 DEF IdInv
  <2>2. ~Connect
    BY <1>1, <1>5 DEF Connect
  <2>3. Moves => IdInv'
    BY <1>5, MovesKeep
  <2>4. ASSUME NEW p \in Peers, Run(p)
        PROVE  IdInv'
    BY <1>1, <2>1, <2>3, <2>4, RunMoves DEF Run, Steps
  <2>5. ASSUME NEW p \in Peers, Receive(p) \/ Sender(p) \/ Parse(p)
        PROVE  IdInv'
    BY <2>3, <2>5, ReceiveMoves, SenderMoves, ParseMoves
  <2>6. ASSUME NEW p \in Peers, Window(p)
        PROVE  IdInv'
    <3>1. ~DeclineSync(p)
      BY DEF DeclineSync, First
    <3> QED
      BY <1>5, <2>3, <2>6, <3>1, WindowMoves, AddFileKeeps, SyncKeeps DEF Window
  <2>7. ASSUME NEW p \in Peers, Close(p)
        PROVE  IdInv'
    BY <1>5, <2>7, CloseKeeps
  <2> QED
    BY <1>5, <2>2, <2>4, <2>5, <2>6, <2>7 DEF Next
<1> QED
  BY <1>1, <1>2, <1>3, <1>4, <1>5

\* A header is read under the name that its id has at this end: id and name
\* came with the owner's announcement, id and file with the owner's transfer.
LEMMA HeaderRight ==
    ASSUME ListType, IdInv, First, NEW p \in Peers, linked[p], data[p] # << >>,
           Head(data[p]).of.id \in DOMAIN names[p]
    PROVE  names[p][Head(data[p]).of.id] = Head(data[p]).of.file
<1> DEFINE q == Other(p)
           of == Head(data[p]).of
<1>1. q \in Peers /\ Other(q) = p
  BY TwoPeers
<1>2. sessions = 1
  BY ListAssumption DEF IdInv, Pristine, First, ListType
<1>3. 1 \in DOMAIN data[p] /\ of = data[p][1].of
  BY DEF ListType
<1>4. Pair(of) \in Known(q)
  BY <1>1, <1>3 DEF Streamed, Heard, Known
<1>5. Item(of.id, names[p][of.id]) \in Known(q)
  BY <1>1 DEF NamedBy, Heard, Known
<1>6. Agree
  BY <1>2 DEF IdInv
<1> QED
  BY <1>1, <1>4, <1>5, <1>6 DEF Agree, Pair, Item

LEMMA NamedStep ==
    ASSUME ListType, IdInv, NamedRight, [Next]_vars
    PROVE  NamedRight'
<1> SUFFICES ASSUME First', NEW q \in Peers
             PROVE  parsing'[q].name = parsing'[q].file
  BY DEF NamedRight
<1>1. First /\ \A r \in Peers : parsing[r].name = parsing[r].file
  BY FirstBack DEF NamedRight
<1>2. parsing \in [Peers -> Named]
  BY DEF ListType
<1>3. CASE parsing' = parsing
  BY <1>1, <1>3
<1>4. ASSUME NEW p \in Peers, Close(p)
      PROVE  parsing'[q].name = parsing'[q].file
  BY <1>1, <1>2, <1>4 DEF Close, Silent
<1>5. ASSUME NEW p \in Peers, Parse(p)
      PROVE  parsing'[q].name = parsing'[q].file
  <2> DEFINE of == Head(data[p]).of
             new == [id |-> of.id, name |-> names[p][of.id], file |-> of.file]
  <2>1. CASE parsing' = parsing
    BY <1>3, <2>1
  <2>2. CASE of.id \in DOMAIN names[p] /\ parsing' = [parsing EXCEPT ![p] = new]
    <3>1. names[p][of.id] = of.file
      BY <1>1, <1>5, <2>2, HeaderRight DEF Parse
    <3> QED
      BY <1>1, <1>2, <2>2, <3>1
  <2> QED
    BY <1>5, <2>1, <2>2 DEF Parse, ParseHeader, ParseBlock, ParseEnd
<1>6. ASSUME NEW p \in Peers, Run(p) \/ Receive(p) \/ Sender(p) \/ Window(p)
      PROVE  parsing' = parsing
  <2>1. Run(p) => parsing' = parsing
    BY DEF Run, Send, AddRemoteFiles, NotFound, HaveDownLoadRequest, OnHaveExpiredFile,
       RemoveFileById, OnUploadFileProgress, OnDownLoadProgress, OnHaveCancelFile,
       OnHaveFileToSend, OnCancelSendFile, OnCancelUploadFile, peerVars
  <2>2. Receive(p) \/ Sender(p) => parsing' = parsing
    BY DEF Receive, Sender, TakeTask, SendHeader, SendBlock, SendEnd, ReportEnd, peerVars
  <2>3. Window(p) => parsing' = parsing
    BY DEF Window, AddFile, DownloadFile, CancelTransit, RemoveFile, DownloadAll,
       SyncCurrentFiles, DeclineSync, peerVars
  <2> QED
    BY <1>6, <2>1, <2>2, <2>3
<1>7. Connect \/ UNCHANGED vars => parsing' = parsing
  BY DEF Connect, vars, peerVars
<1> QED
  BY <1>3, <1>4, <1>5, <1>6, <1>7 DEF Next

LEMMA StoredStep ==
    ASSUME ListType, NamedRight, First => RightFile, [Next]_vars, First'
    PROVE  RightFile'
<1>1. First /\ RightFile /\ \A r \in Peers : parsing[r].name = parsing[r].file
  BY FirstBack DEF NamedRight
<1>2. stored' = stored => RightFile'
  BY <1>1 DEF RightFile
<1>3. ASSUME NEW p \in Peers, Parse(p)
      PROVE  RightFile'
  <2> DEFINE new == [name |-> parsing[p].name, content |-> parsing[p].file]
  <2>1. stored' = stored \/ stored' = [stored EXCEPT ![p] = @ \cup {new}]
    BY <1>3 DEF Parse, ParseHeader, ParseBlock, ParseEnd
  <2>2. DOMAIN stored = Peers
    BY DEF ListType
  <2>3. new.name = new.content
    BY <1>1
  <2> HIDE DEF new
  <2> QED
    BY <1>1, <1>2, <2>1, <2>2, <2>3 DEF RightFile
<1>4. ASSUME NEW p \in Peers, Run(p) \/ Receive(p) \/ Sender(p) \/ Window(p) \/ Close(p)
      PROVE  stored' = stored
  <2>1. Run(p) => stored' = stored
    BY DEF Run, Send, AddRemoteFiles, NotFound, HaveDownLoadRequest, OnHaveExpiredFile,
       RemoveFileById, OnUploadFileProgress, OnDownLoadProgress, OnHaveCancelFile,
       OnHaveFileToSend, OnCancelSendFile, OnCancelUploadFile, peerVars
  <2>2. Receive(p) \/ Sender(p) \/ Close(p) => stored' = stored
    BY DEF Receive, Sender, TakeTask, SendHeader, SendBlock, SendEnd, ReportEnd, Close,
       peerVars
  <2>3. Window(p) => stored' = stored
    BY DEF Window, AddFile, DownloadFile, CancelTransit, RemoveFile, DownloadAll,
       SyncCurrentFiles, DeclineSync, peerVars
  <2> QED
    BY <1>4, <2>1, <2>2, <2>3
<1>5. Connect \/ UNCHANGED vars => stored' = stored
  BY DEF Connect, vars, peerVars
<1> QED
  BY <1>2, <1>3, <1>4, <1>5 DEF Next

LEMMA IdInit == Init => Shape /\ IdInv /\ NamedRight /\ RightFile
<1> SUFFICES ASSUME Init
             PROVE  Shape /\ IdInv /\ NamedRight /\ RightFile
  OBVIOUS
<1>1. Shape /\ NamedRight /\ RightFile
  BY DEF Init, Shape, NamedRight, RightFile, Silent
<1>2. Pristine
  <2>1. \A p \in Peers : Cardinality(Own(rows[p])) = 0
    <3>1. \A p \in Peers : Own(rows[p]) = {}
      BY DEF Init, Own
    <3> QED
      BY <3>1, FS_EmptySet
  <2>2. \A p \in Peers : Other(p) \in Peers
    BY TwoPeers
  <2>3. ASSUME NEW p \in Peers
        PROVE  /\ ~linked[p] /\ ~asking[p] /\ sending[p] = NoTransfer
               /\ todo[p] = << >> /\ wire[p] = << >> /\ queue[p] = << >>
               /\ data[p] = << >> /\ DOMAIN names[p] = {} /\ DOMAIN rows[p] = {}
    BY DEF Init
  <2>4. \A p \in Peers :
           Cardinality(Own(rows[p])) + Cardinality(Own(rows[Other(p)])) <= gestures
    <3>1. gestures = 0
      BY DEF Init
    <3>2. \A p \in Peers : Cardinality(Own(rows[Other(p)])) = 0
      BY <2>1, <2>2
    <3> QED
      BY <2>1, <3>1, <3>2
  <2> QED
    BY <2>3, <2>4 DEF Pristine
<1>3. sessions = 0
  BY DEF Init
<1> QED
  BY <1>1, <1>2, <1>3 DEF IdInv

\* While the peers are in their first session, and until a user declines to
\* sync the files that were there before it, whatever is stored under a file's
\* name is that file: the id in a request, the path that the owner finds for
\* it, the id in the header and the name that the receiver finds for it belong
\* together (getFileId, haveDownLoadRequest, insertFile, getFileName).  It
\* takes fewer gestures than there are ids, for the ends of the range not to
\* meet.  In a later session the ids are counted anew from the same ends while
\* id_filename still holds those of the last.
THEOREM RightFileAlways == Spec => [](First => RightFile)
<1> DEFINE IInv == /\ ListType /\ Shape /\ IdInv /\ NamedRight
                   /\ First => RightFile
<1>1. Init => IInv
  BY TypeInit, IdInit
<1>2. IInv /\ [Next]_vars => IInv'
  BY TypeStep, ShapeStep, IdStep, NamedStep, StoredStep
<1>3. IInv => (First => RightFile)
  OBVIOUS
<1> QED
  BY <1>1, <1>2, <1>3, PTL DEF Spec

-----------------------------------------------------------------------------
(* Files that come onto the lists and go again: what a sequence of tasks   *)
(* or of messages says of them                                             *)

\* The ids that the tasks of one kind are about.
IdsIn(tasks, op) == IdsOf(Mentioned(tasks, op))

\* A file is added once, before it is deleted, and deleted by itself.
InStep(tasks, add, del) ==
    /\ \A i, j \in DOMAIN tasks :
          tasks[i].op = add /\ tasks[j].op \in {add, del}
          /\ Ids(tasks[i]) \cap Ids(tasks[j]) # {}
          => i = j \/ (i < j /\ tasks[j].op = del)
    /\ \A i \in DOMAIN tasks : tasks[i].op = add =>
          \A k, m \in DOMAIN tasks[i].of :
             tasks[i].of[k].id = tasks[i].of[m].id => k = m
    /\ \A i \in DOMAIN tasks : tasks[i].op = del => DOMAIN tasks[i].of = {1}

LEMMA IdsInIs ==
    ASSUME NEW tasks, NEW op, NEW id
    PROVE  id \in IdsIn(tasks, op) <=>
               \E k \in DOMAIN tasks : tasks[k].op = op /\ id \in Ids(tasks[k])
<1>1. id \in IdsIn(tasks, op) <=> \E x \in Mentioned(tasks, op) : x.id = id
  BY IdsOfIs DEF IdsIn
<1>2. ASSUME NEW x \in Mentioned(tasks, op), x.id = id
      PROVE  \E k \in DOMAIN tasks : tasks[k].op = op /\ id \in Ids(tasks[k])
  <2>1. PICK k \in DOMAIN tasks : /\ tasks[k].op = op
                                  /\ \E m \in DOMAIN tasks[k].of : tasks[k].of[m] = x
    BY MentionedIs
  <2> QED
    BY <1>2, <2>1 DEF Ids
<1>3. ASSUME NEW k \in DOMAIN tasks, tasks[k].op = op, id \in Ids(tasks[k])
      PROVE  \E x \in Mentioned(tasks, op) : x.id = id
  <2>1. PICK m \in DOMAIN tasks[k].of : tasks[k].of[m].id = id
    BY <1>3 DEF Ids
  <2>2. tasks[k].of[m] \in Mentioned(tasks, op)
    BY <1>3, MentionedIs
  <2> QED
    BY <2>1, <2>2
<1> QED
  BY <1>1, <1>2, <1>3

\* The tasks of u are tasks of s, in their order.
Picked(u, s, at) ==
    /\ \A k \in DOMAIN u : at[k] \in DOMAIN s /\ u[k] = s[at[k]]
    /\ \A j, k \in DOMAIN u : at[j] = at[k] => j = k
    /\ \A j, k \in DOMAIN u : at[j] < at[k] => j < k

LEMMA PickedInStep ==
    ASSUME NEW u, NEW s, NEW at, Picked(u, s, at), NEW add, NEW del,
           InStep(s, add, del)
    PROVE  InStep(u, add, del)
<1>1. ASSUME NEW i \in DOMAIN u, NEW j \in DOMAIN u,
             u[i].op = add, u[j].op \in {add, del}, Ids(u[i]) \cap Ids(u[j]) # {}
      PROVE  i = j \/ (i < j /\ u[j].op = del)
  <2>1. at[i] \in DOMAIN s /\ at[j] \in DOMAIN s /\ u[i] = s[at[i]] /\ u[j] = s[at[j]]
    BY DEF Picked
  <2>2. at[i] = at[j] \/ (at[i] < at[j] /\ s[at[j]].op = del)
    BY <1>1, <2>1 DEF InStep
  <2> QED
    BY <2>1, <2>2 DEF Picked
<1>2. ASSUME NEW i \in DOMAIN u
      PROVE  /\ u[i].op = add =>
                   \A k, m \in DOMAIN u[i].of : u[i].of[k].id = u[i].of[m].id => k = m
             /\ u[i].op = del => DOMAIN u[i].of = {1}
  BY DEF Picked, InStep
<1> QED
  BY <1>1, <1>2 DEF InStep

\* Task i is taken away.
LEMMA WithoutTask ==
    ASSUME NEW s \in Seq(Tasks), NEW i \in DOMAIN s
    PROVE  LET u == RemoveAt(s, i) IN
           /\ u \in Seq(Tasks)
           /\ \A add, del : InStep(s, add, del) => InStep(u, add, del)
           /\ \A k \in DOMAIN u : \E j \in DOMAIN s : j # i /\ u[k] = s[j]
           /\ \A j \in DOMAIN s : j # i => \E k \in DOMAIN u : u[k] = s[j]
<1> DEFINE u == RemoveAt(s, i)
           at == [k \in DOMAIN u |-> IF k < i THEN k ELSE k + 1]
<1>1. /\ u \in Seq(Tasks) /\ Len(u) = Len(s) - 1
      /\ \A k \in 1..(Len(s) - 1) : u[k] = IF k < i THEN s[k] ELSE s[k + 1]
  BY RemoveAtSeq
<1> HIDE DEF u
<1>2. /\ DOMAIN u = 1..(Len(s) - 1) /\ DOMAIN s = 1..Len(s) /\ Len(s) \in Nat /\ i \in 1..Len(s)
  BY <1>1
<1>3. ASSUME NEW k \in DOMAIN u
      PROVE  at[k] \in DOMAIN s /\ at[k] # i /\ u[k] = s[at[k]]
  BY <1>1, <1>2
<1>4. Picked(u, s, at)
  <2>1. ASSUME NEW j \in DOMAIN u, NEW k \in DOMAIN u
        PROVE  (at[j] = at[k] => j = k) /\ (at[j] < at[k] => j < k)
    BY <1>2
  <2> HIDE DEF at
  <2> QED
    BY <1>3, <2>1 DEF Picked
<1>5. ASSUME NEW j \in DOMAIN s, j # i
      PROVE  \E k \in DOMAIN u : u[k] = s[j]
  <2>1. CASE j < i
    <3>1. j \in DOMAIN u /\ u[j] = s[j]
      BY <1>1, <1>2, <2>1
    <3> QED
      BY <3>1
  <2>2. CASE ~(j < i)
    <3>1. j - 1 \in DOMAIN u /\ ~(j - 1 < i) /\ (j - 1) + 1 = j
      BY <1>2, <1>5, <2>2
    <3>2. u[j - 1] = s[j]
      BY <1>1, <1>2, <3>1
    <3> QED
      BY <3>1, <3>2
  <2> QED
    BY <2>1, <2>2
<1> HIDE DEF at
<1>6. \A k \in DOMAIN u : \E j \in DOMAIN s : j # i /\ u[k] = s[j]
  BY <1>3
<1> QED
  BY <1>1, <1>4, <1>5, <1>6, PickedInStep DEF u

LEMMA WithoutFirst ==
    ASSUME NEW s \in Seq(Tasks), s # << >>
    PROVE  /\ \A add, del : InStep(s, add, del) => InStep(Tail(s), add, del)
           /\ \A k \in DOMAIN Tail(s) : \E j \in DOMAIN s : 1 < j /\ Tail(s)[k] = s[j]
<1> DEFINE u == Tail(s)
           at == [k \in DOMAIN u |-> k + 1]
<1>1. /\ DOMAIN u = 1..(Len(s) - 1) /\ DOMAIN s = 1..Len(s) /\ Len(s) \in Nat
      /\ \A k \in DOMAIN u : k + 1 \in DOMAIN s /\ u[k] = s[k + 1]
  OBVIOUS
<1> HIDE DEF u
<1>2. Picked(u, s, at)
  BY <1>1 DEF Picked
<1>3. \A k \in DOMAIN u : \E j \in DOMAIN s : 1 < j /\ u[k] = s[j]
  BY <1>1
<1> HIDE DEF at
<1> QED
  BY <1>2, <1>3, PickedInStep DEF u

\* What is said of the ids when task i is taken away: those of the other kinds
\* stay, those of its own kind but for it.
LEMMA TakenIds ==
    ASSUME NEW s \in Seq(Tasks), NEW i \in DOMAIN s, NEW op
    PROVE  /\ s[i].op # op => IdsIn(RemoveAt(s, i), op) = IdsIn(s, op)
           /\ s[i].op = op => IdsIn(s, op) = IdsIn(RemoveAt(s, i), op) \cup Ids(s[i])
<1> DEFINE u == RemoveAt(s, i)
<1>1. /\ \A k \in DOMAIN u : \E j \in DOMAIN s : j # i /\ u[k] = s[j]
      /\ \A j \in DOMAIN s : j # i => \E k \in DOMAIN u : u[k] = s[j]
  BY WithoutTask
<1> HIDE DEF u
<1>2. IdsIn(u, op) \subseteq IdsIn(s, op)
  BY <1>1, IdsInIs
<1>3. ASSUME NEW id \in IdsIn(s, op), id \notin IdsIn(u, op)
      PROVE  s[i].op = op /\ id \in Ids(s[i])
  <2>1. PICK j \in DOMAIN s : s[j].op = op /\ id \in Ids(s[j])
    BY IdsInIs
  <2>2. j = i
    BY <1>1, <1>3, <2>1, IdsInIs
  <2> QED
    BY <2>1, <2>2
<1>4. s[i].op = op => Ids(s[i]) \subseteq IdsIn(s, op)
  BY IdsInIs
<1> QED
  BY <1>2, <1>3, <1>4 DEF u

\* Nothing else is said of a file that is added when the task is the first
\* about it, and it is not added again when that deletes it.
LEMMA TakenInStep ==
    ASSUME NEW s \in Seq(Tasks), NEW i \in DOMAIN s, NEW add, NEW del,
           InStep(s, add, del), \A j \in 1..(i - 1) : Ids(s[j]) \cap Ids(s[i]) = {}
    PROVE  /\ s[i].op = add => Ids(s[i]) \cap IdsIn(RemoveAt(s, i), add) = {}
           /\ s[i].op = del => Ids(s[i]) \cap IdsIn(RemoveAt(s, i), add) = {}
<1> DEFINE u == RemoveAt(s, i)
<1>1. \A k \in DOMAIN u : \E j \in DOMAIN s : j # i /\ u[k] = s[j]
  BY WithoutTask
<1> HIDE DEF u
<1> SUFFICES ASSUME s[i].op \in {add, del}, NEW id \in Ids(s[i]), id \in IdsIn(u, add)
             PROVE  FALSE
  BY DEF u
<1>2. PICK j \in DOMAIN s : j # i /\ s[j].op = add /\ id \in Ids(s[j])
  BY <1>1, IdsInIs
<1>3. j < i
  BY <1>2 DEF InStep
<1>4. j \in 1..(i - 1)
  BY <1>3
<1> QED
  BY <1>2, <1>4

LEMMA HeadInStep ==
    ASSUME NEW s \in Seq(Tasks), s # << >>, NEW add, NEW del, InStep(s, add, del)
    PROVE  LET h == Head(s) IN
           /\ \A op : h.op # op => IdsIn(Tail(s), op) = IdsIn(s, op)
           /\ \A op : h.op = op => IdsIn(s, op) = IdsIn(Tail(s), op) \cup Ids(h)
           /\ h.op \in {add, del} => Ids(h) \cap IdsIn(Tail(s), add) = {}
<1> DEFINE h == Head(s)
           u == Tail(s)
<1>1. /\ 1 \in DOMAIN s /\ h = s[1] /\ h \in Tasks
      /\ \A k \in DOMAIN u : k + 1 \in DOMAIN s /\ u[k] = s[k + 1]
      /\ \A j \in DOMAIN s : j # 1 => j - 1 \in DOMAIN u /\ u[j - 1] = s[j]
  OBVIOUS
<1>2. \A k \in DOMAIN u : \E j \in DOMAIN s : 1 < j /\ u[k] = s[j]
  BY WithoutFirst
<1> HIDE DEF h, u
<1>3. \A op : IdsIn(u, op) \subseteq IdsIn(s, op)
  BY <1>2, IdsInIs
<1>4. ASSUME NEW op, NEW id \in IdsIn(s, op), id \notin IdsIn(u, op)
      PROVE  h.op = op /\ id \in Ids(h)
  <2>1. PICK j \in DOMAIN s : s[j].op = op /\ id \in Ids(s[j])
    BY <1>4, IdsInIs
  <2>2. j = 1
    BY <1>1, <1>4, <2>1, IdsInIs
  <2> QED
    BY <1>1, <2>1, <2>2
<1>5. \A op : h.op = op => Ids(h) \subseteq IdsIn(s, op)
  BY <1>1, IdsInIs
<1>6. ASSUME h.op \in {add, del}, NEW id \in Ids(h), id \in IdsIn(u, add)
      PROVE  FALSE
  <2>1. PICK j \in DOMAIN s : 1 < j /\ s[j].op = add /\ id \in Ids(s[j])
    BY <1>2, <1>6, IdsInIs
  <2>2. j = 1 \/ j < 1
    BY <1>1, <1>6, <2>1 DEF InStep
  <2> QED
    BY <2>1, <2>2
<1> QED
  BY <1>3, <1>4, <1>5, <1>6 DEF h, u

\* Tasks that come behind the others.
LEMMA BehindIds ==
    ASSUME NEW s \in Seq(Tasks), NEW t \in Seq(Tasks), NEW op
    PROVE  IdsIn(s \o t, op) = IdsIn(s, op) \cup IdsIn(t, op)
<1>1. Mentioned(s \o t, op) = Mentioned(s, op) \cup Mentioned(t, op)
  BY MentionedConcat
<1> QED
  BY <1>1 DEF IdsIn, IdsOf

LEMMA BehindInStep ==
    ASSUME NEW s \in Seq(Tasks), NEW t \in Seq(Tasks), NEW add, NEW del, add # del,
           InStep(s, add, del), InStep(t, add, del),
           IdsIn(t, add) \cap (IdsIn(s, add) \cup IdsIn(s, del)) = {}
    PROVE  InStep(s \o t, add, del)
<1> DEFINE u == s \o t
<1>1. /\ DOMAIN u = 1..(Len(s) + Len(t)) /\ Len(s) \in Nat /\ Len(t) \in Nat
      /\ DOMAIN s = 1..Len(s) /\ DOMAIN t = 1..Len(t)
      /\ \A k \in 1..Len(s) : u[k] = s[k]
      /\ \A k \in 1..Len(t) : u[Len(s) + k] = t[k]
  OBVIOUS
<1> HIDE DEF u
<1>2. ASSUME NEW k \in DOMAIN u
      PROVE  \/ k \in DOMAIN s /\ u[k] = s[k]
             \/ k - Len(s) \in DOMAIN t /\ u[k] = t[k - Len(s)] /\ k > Len(s)
  <2>1. CASE k <= Len(s)
    BY <1>1, <2>1
  <2>2. CASE k > Len(s)
    <3>1. k - Len(s) \in 1..Len(t) /\ Len(s) + (k - Len(s)) = k
      BY <1>1, <2>2
    <3> QED
      BY <1>1, <2>2, <3>1
  <2> QED
    BY <1>1, <2>1, <2>2
<1>3. ASSUME NEW i \in DOMAIN u, NEW j \in DOMAIN u,
             u[i].op = add, u[j].op \in {add, del}, Ids(u[i]) \cap Ids(u[j]) # {}
      PROVE  i = j \/ (i < j /\ u[j].op = del)
  <2>1. i \in Int /\ j \in Int
    BY <1>1
  <2>2. PICK id : id \in Ids(u[i]) /\ id \in Ids(u[j])
    BY <1>3
  <2>3. CASE i \in DOMAIN s /\ u[i] = s[i] /\ j \in DOMAIN s /\ u[j] = s[j]
    BY <1>3, <2>3 DEF InStep
  <2>4. CASE /\ i - Len(s) \in DOMAIN t /\ u[i] = t[i - Len(s)]
             /\ j - Len(s) \in DOMAIN t /\ u[j] = t[j - Len(s)]
    <3>1. \/ i - Len(s) = j - Len(s)
          \/ i - Len(s) < j - Len(s) /\ u[j].op = del
      BY <1>3, <2>4 DEF InStep
    <3> QED
      BY <1>1, <2>1, <3>1
  <2>5. CASE /\ i \in DOMAIN s /\ u[i] = s[i]
             /\ j - Len(s) \in DOMAIN t /\ u[j] = t[j - Len(s)] /\ j > Len(s)
    <3>1. id \in IdsIn(s, add)
      BY <1>3, <2>2, <2>5, IdsInIs
    <3>2. u[j].op # add
      BY <2>2, <2>5, <3>1, IdsInIs
    <3> QED
      BY <1>1, <1>3, <2>1, <2>5, <3>2
  <2>6. CASE /\ i - Len(s) \in DOMAIN t /\ u[i] = t[i - Len(s)]
             /\ j \in DOMAIN s /\ u[j] = s[j]
    <3>1. id \in IdsIn(t, add)
      BY <1>3, <2>2, <2>6, IdsInIs
    <3>2. id \in IdsIn(s, add) \cup IdsIn(s, del)
      BY <1>3, <2>2, <2>6, IdsInIs
    <3> QED
      BY <3>1, <3>2
  <2> QED
    BY <1>2, <2>3, <2>4, <2>5, <2>6
<1>4. ASSUME NEW i \in DOMAIN u
      PROVE  /\ u[i].op = add =>
                   \A k, m \in DOMAIN u[i].of : u[i].of[k].id = u[i].of[m].id => k = m
             /\ u[i].op = del => DOMAIN u[i].of = {1}
  BY <1>2 DEF InStep
<1>5. InStep(u, add, del)
  BY <1>3, <1>4 DEF InStep
<1> QED
  BY <1>5 DEF u

\* A task by itself.
LEMMA OneInStep ==
    ASSUME NEW t \in Tasks, NEW add, NEW del, add # del,
           t.op = add => \A k, m \in DOMAIN t.of : t.of[k].id = t.of[m].id => k = m,
           t.op = del => DOMAIN t.of = {1}
    PROVE  /\ InStep(<<t>>, add, del)
           /\ \A op : IdsIn(<<t>>, op) = IF t.op = op THEN Ids(t) ELSE {}
<1>1. DOMAIN <<t>> = {1} /\ <<t>>[1] = t
  OBVIOUS
<1> DEFINE u == <<t>>
<1> HIDE DEF u
<1>2. DOMAIN u = {1} /\ u[1] = t
  BY <1>1 DEF u
<1>3. InStep(u, add, del)
  BY <1>2 DEF InStep
<1>4. ASSUME NEW op
      PROVE  IdsIn(u, op) = IF t.op = op THEN Ids(t) ELSE {}
  <2>1. \A id : id \in IdsIn(u, op) <=> t.op = op /\ id \in Ids(t)
    BY <1>2, IdsInIs
  <2> QED
    BY <2>1
<1> QED
  BY <1>3, <1>4 DEF u

\* Tasks of other kinds.
LEMMA NoneInStep ==
    ASSUME NEW t, NEW add, NEW del, \A k \in DOMAIN t : t[k].op \notin {add, del}
    PROVE  InStep(t, add, del) /\ IdsIn(t, add) = {} /\ IdsIn(t, del) = {}
<1>1. IdsIn(t, add) = {} /\ IdsIn(t, del) = {}
  BY IdsInIs
<1> QED
  BY <1>1 DEF InStep

LEMMA NoTask ==
    ASSUME NEW add, NEW del
    PROVE  InStep(<< >>, add, del) /\ \A op : IdsIn(<< >>, op) = {}
<1>1. DOMAIN << >> = {}
  OBVIOUS
<1> QED
  BY <1>1, IdsInIs DEF InStep

-----------------------------------------------------------------------------
(* The files of a peer on the two lists, and on their way to the other's   *)

OnList(p) == IdsOf(Listed(p))
OnShow(p) == IdsOf(Shows(Other(p)))

\* p's files that are to be added to the other's list: told to the pool, sent,
\* and received.
ToAdd(p) == IdsIn(todo[p], "send_addfiles")
AddSent(p) == IdsIn(wire[Other(p)], "have_addfiles")
AddDue(p) == IdsIn(todo[Other(p)], "have_addfiles")
Coming(p) == ToAdd(p) \cup AddSent(p) \cup AddDue(p)

\* What p asks the other to delete, of its own files and of the other's.
ToDrop(p) == IdsIn(todo[p], "send_deletefiles")
DropSent(p) == IdsIn(wire[Other(p)], "have_deletefiles")
DropDue(p) == IdsIn(todo[Other(p)], "have_deletefiles")
Going(p) == ToDrop(p) \cup DropSent(p) \cup DropDue(p)

Sequel(p) ==
    /\ InStep(todo[p], "send_addfiles", "send_deletefiles")
    /\ InStep(wire[p], "have_addfiles", "have_deletefiles")
    /\ InStep(todo[p], "have_addfiles", "have_deletefiles")

\* A row has an id of its own; the own ones while the window does not ask.
Single(p) ==
    \A i, j \in DOMAIN rows[p] :
       /\ rows[p][i].id = rows[p][j].id /\ rows[p][i].remote = rows[p][j].remote
       /\ rows[p][i].remote \/ ~asking[p]
       => i = j

\* A file is in one place, and is not added when it has been deleted.
OnePlace(p) ==
    /\ ToAdd(p) \cap AddSent(p) = {} /\ ToAdd(p) \cap AddDue(p) = {}
    /\ AddSent(p) \cap AddDue(p) = {} /\ Coming(p) \cap OnShow(p) = {}
    /\ DropDue(p) \cap (AddSent(p) \cup ToAdd(p)) = {}
    /\ DropSent(p) \cap ToAdd(p) = {}

\* What is on one list is on the other, or comes, or goes.
Matched(p) ==
    /\ ~asking[p] => /\ OnList(p) \cap Going(p) = {}
                     /\ OnList(p) \subseteq Going(Other(p)) \cup Coming(p) \cup OnShow(p)
    /\ Coming(p) \cup OnShow(p) \subseteq Going(p) \cup OnList(p)
    /\ Going(Other(p)) \cap (Coming(p) \cup OnShow(p)) = {}
    /\ Going(p) \subseteq Used(p) \cup Used(Other(p))

Follows(p) == OnePlace(p) /\ Matched(p)

Fit == \A p \in Peers : Sequel(p) /\ Single(p) /\ Follows(p)

\* The first session, without a task that overtakes another about the same
\* file, an old id, or work left over.
Tidy == First /\ Open /\ mishaps \cap {"order", "stale", "late"} = {}
RowsInv == Tidy => Fit

Moving == {"send_addfiles", "send_deletefiles", "have_addfiles", "have_deletefiles"}

LEMMA OtherKinds ==
    ASSUME NEW new \in Seq(Tasks), \A op \in Moving : Mentioned(new, op) = {}
    PROVE  /\ InStep(new, "send_addfiles", "send_deletefiles")
           /\ InStep(new, "have_addfiles", "have_deletefiles")
           /\ \A op \in Moving : IdsIn(new, op) = {}
<1>1. \A k \in DOMAIN new : new[k].op \notin Moving
  BY FirstItem
<1>2. \A op \in Moving : IdsIn(new, op) = {}
  BY <1>1, IdsInIs
<1> QED
  BY <1>1, <1>2, NoneInStep DEF Moving

\* A task is done that publishes no others of these kinds.
LEMMA DoneRows ==
    ASSUME ListType, NEW p \in Peers, NEW i \in DOMAIN todo[p], NEW new \in Seq(Tasks),
           Done(p, i, new), \A op \in Moving : Mentioned(new, op) = {},
           NEW add, NEW del, add # del, add \in Moving, del \in Moving,
           InStep(todo[p], add, del),
           InStep(new, add, del)
    PROVE  LET t == todo[p][i] IN
           /\ InStep(todo'[p], add, del)
           /\ \A r \in Peers : r # p => todo'[r] = todo[r]
           /\ \A op \in Moving :
                 /\ t.op # op => IdsIn(todo'[p], op) = IdsIn(todo[p], op)
                 /\ t.op = op => IdsIn(todo[p], op) = IdsIn(todo'[p], op) \cup Ids(t)
           /\ Overtaking(p, i) = {} /\ t.op \in {add, del} =>
                 Ids(t) \cap IdsIn(todo'[p], add) = {}
<1> DEFINE s == todo[p]
           u == RemoveAt(s, i)
<1>1. s \in Seq(Tasks) /\ i \in DOMAIN s
  BY DEF ListType
<1>2. /\ todo'[p] = u \o new
      /\ \A r \in Peers : r # p => todo'[r] = todo[r]
  BY DoneFacts
<1>3. u \in Seq(Tasks) /\ InStep(u, add, del)
  BY <1>1, WithoutTask
<1>4. \A op \in Moving : IdsIn(new, op) = {}
  BY OtherKinds
<1>5. ASSUME NEW op \in Moving
      PROVE  /\ IdsIn(todo'[p], op) = IdsIn(u, op)
             /\ s[i].op # op => IdsIn(u, op) = IdsIn(s, op)
             /\ s[i].op = op => IdsIn(s, op) = IdsIn(u, op) \cup Ids(s[i])
  <2>1. IdsIn(u \o new, op) = IdsIn(u, op) \cup IdsIn(new, op)
    BY <1>3, BehindIds
  <2>2. /\ s[i].op # op => IdsIn(u, op) = IdsIn(s, op)
        /\ s[i].op = op => IdsIn(s, op) = IdsIn(u, op) \cup Ids(s[i])
    <3> HIDE DEF s
    <3> QED
      BY <1>1, TakenIds
  <2> HIDE DEF s, u
  <2> QED
    BY <1>2, <1>4, <2>1, <2>2
<1>6. InStep(todo'[p], add, del)
  <2>1. IdsIn(new, add) \cap (IdsIn(u, add) \cup IdsIn(u, del)) = {}
    BY <1>4
  <2> HIDE DEF u
  <2>2. InStep(u \o new, add, del)
    BY <1>3, <2>1, BehindInStep
  <2> QED
    BY <1>2, <2>2
<1>7. ASSUME Overtaking(p, i) = {}, s[i].op \in {add, del}
      PROVE  Ids(s[i]) \cap IdsIn(todo'[p], add) = {}
  <2>1. \A j \in 1..(i - 1) : Ids(s[j]) \cap Ids(s[i]) = {}
    BY <1>7 DEF Overtaking
  <2>2. Ids(s[i]) \cap IdsIn(u, add) = {}
    <3> HIDE DEF s
    <3> QED
      BY <1>1, <1>7, <2>1, TakenInStep DEF s
  <2> QED
    BY <1>5, <2>2
<1> QED
  BY <1>2, <1>5, <1>6, <1>7

\* For both ways at once.
LEMMA DoneSequel ==
    ASSUME ListType, NEW p \in Peers, NEW i \in DOMAIN todo[p], NEW new \in Seq(Tasks),
           Done(p, i, new), \A op \in Moving : Mentioned(new, op) = {}, Sequel(p)
    PROVE  LET t == todo[p][i] IN
           /\ InStep(todo'[p], "send_addfiles", "send_deletefiles")
           /\ InStep(todo'[p], "have_addfiles", "have_deletefiles")
           /\ \A r \in Peers : r # p => todo'[r] = todo[r]
           /\ \A op \in Moving :
                 /\ t.op # op => IdsIn(todo'[p], op) = IdsIn(todo[p], op)
                 /\ t.op = op => IdsIn(todo[p], op) = IdsIn(todo'[p], op) \cup Ids(t)
           /\ Overtaking(p, i) = {} =>
                 /\ t.op \in {"send_addfiles", "send_deletefiles"} =>
                       Ids(t) \cap IdsIn(todo'[p], "send_addfiles") = {}
                 /\ t.op \in {"have_addfiles", "have_deletefiles"} =>
                       Ids(t) \cap IdsIn(todo'[p], "have_addfiles") = {}
<1>1. /\ InStep(todo[p], "send_addfiles", "send_deletefiles")
      /\ InStep(todo[p], "have_addfiles", "have_deletefiles")
      /\ InStep(new, "send_addfiles", "send_deletefiles")
      /\ InStep(new, "have_addfiles", "have_deletefiles")
  BY OtherKinds DEF Sequel
<1>2. /\ "send_addfiles" \in Moving /\ "send_deletefiles" \in Moving
      /\ "have_addfiles" \in Moving /\ "have_deletefiles" \in Moving
      /\ "send_addfiles" # "send_deletefiles" /\ "have_addfiles" # "have_deletefiles"
  BY DEF Moving
<1> QED
  BY <1>1, <1>2, DoneRows

\* Tasks of other kinds are published.
LEMMA PublishSequel ==
    ASSUME ListType, NEW p \in Peers, NEW new \in Seq(Tasks), Publish(p, new),
           \A op \in Moving : Mentioned(new, op) = {}, Sequel(p)
    PROVE  /\ InStep(todo'[p], "send_addfiles", "send_deletefiles")
           /\ InStep(todo'[p], "have_addfiles", "have_deletefiles")
           /\ \A r \in Peers : r # p => todo'[r] = todo[r]
           /\ \A op \in Moving : IdsIn(todo'[p], op) = IdsIn(todo[p], op)
<1> DEFINE s == todo[p]
<1>1. s \in Seq(Tasks)
  BY DEF ListType
<1>2. todo'[p] = s \o new /\ \A r \in Peers : r # p => todo'[r] = todo[r]
  BY PublishFacts
<1>3. /\ InStep(s, "send_addfiles", "send_deletefiles")
      /\ InStep(s, "have_addfiles", "have_deletefiles")
      /\ InStep(new, "send_addfiles", "send_deletefiles")
      /\ InStep(new, "have_addfiles", "have_deletefiles")
      /\ \A op \in Moving : IdsIn(new, op) = {}
  BY OtherKinds DEF Sequel
<1> HIDE DEF s
<1>4. IdsIn(new, "send_addfiles") = {} /\ IdsIn(new, "have_addfiles") = {}
  BY <1>3 DEF Moving
<1>5. /\ InStep(s \o new, "send_addfiles", "send_deletefiles")
      /\ InStep(s \o new, "have_addfiles", "have_deletefiles")
  BY <1>1, <1>3, <1>4, BehindInStep
<1>6. ASSUME NEW op \in Moving
      PROVE  IdsIn(s \o new, op) = IdsIn(s, op)
  <2>1. IdsIn(s \o new, op) = IdsIn(s, op) \cup IdsIn(new, op)
    BY <1>1, BehindIds
  <2> QED
    BY <1>3, <2>1
<1> QED
  BY <1>2, <1>5, <1>6 DEF s

\* The same rows but for their statuses.
LEMMA SameIds ==
    ASSUME ListType, \A r \in Peers : SameList(rows'[r], rows[r])
    PROVE  /\ \A r \in Peers : Listed(r)' = Listed(r) /\ Shows(r)' = Shows(r)
           /\ \A r \in Peers : OnList(r)' = OnList(r) /\ OnShow(r)' = OnShow(r)
           /\ asking' = asking => \A r \in Peers : Single(r) => Single(r)'
<1>1. ASSUME NEW r \in Peers
      PROVE  Listed(r)' = Listed(r) /\ Shows(r)' = Shows(r)
  <2> DEFINE new == rows'[r]
             old == rows[r]
  <2>1. SameList(new, old)
    OBVIOUS
  <2>2. Own(new) = Own(old) /\ Remote(new) = Remote(old)
    BY <2>1 DEF SameList, Own, Remote
  <2>3. \A k \in DOMAIN old : Pair(new[k]) = Pair(old[k])
    BY <2>1 DEF SameList, Pair
  <2>4. Own(old) \subseteq DOMAIN old /\ Remote(old) \subseteq DOMAIN old
    BY DEF Own, Remote
  <2>5. /\ Listed(r)' = {Pair(new[k]) : k \in Own(new)}
        /\ Listed(r) = {Pair(old[k]) : k \in Own(old)}
        /\ Shows(r)' = {Pair(new[k]) : k \in Remote(new)}
        /\ Shows(r) = {Pair(old[k]) : k \in Remote(old)}
    BY DEF Listed, Shows
  <2> HIDE DEF new, old
  <2> QED
    BY <2>2, <2>3, <2>4, <2>5
<1>2. \A r \in Peers : OnList(r)' = OnList(r) /\ OnShow(r)' = OnShow(r)
  BY <1>1, TwoPeers DEF OnList, OnShow, IdsOf
<1>3. ASSUME asking' = asking, NEW r \in Peers, Single(r)
      PROVE  Single(r)'
  BY <1>3 DEF Single, SameList
<1> QED
  BY <1>1, <1>2, <1>3

\* The same files on the lists and on their way.
LEMMA SamePlaces ==
    ASSUME \A r \in Peers :
              /\ Coming(r)' = Coming(r) /\ Going(r)' = Going(r)
              /\ OnList(r)' = OnList(r) /\ OnShow(r)' = OnShow(r),
           UNCHANGED <<asking, counter>>, NEW p \in Peers, Matched(p)
    PROVE  Matched(p)'
<1>1. Other(p) \in Peers
  BY TwoPeers
<1>2. Used(p)' = Used(p) /\ Used(Other(p))' = Used(Other(p))
  BY DEF Used
<1> QED
  BY <1>1, <1>2 DEF Matched

LEMMA NothingMoves ==
    ASSUME ListType, Fit, UNCHANGED <<asking, counter>>,
           \A r \in Peers : SameList(rows'[r], rows[r]),
           \A r \in Peers : Sequel(r)',
           \A r \in Peers : \A op \in Moving : /\ IdsIn(todo'[r], op) = IdsIn(todo[r], op)
                                               /\ IdsIn(wire'[r], op) = IdsIn(wire[r], op)
    PROVE  Fit'
<1> SUFFICES ASSUME NEW p \in Peers
             PROVE  Single(p)' /\ Follows(p)'
  BY DEF Fit
<1>1. Other(p) \in Peers /\ Other(Other(p)) = p
  BY TwoPeers
<1>2. /\ \A r \in Peers : OnList(r)' = OnList(r) /\ OnShow(r)' = OnShow(r)
      /\ Single(p)'
  BY SameIds DEF Fit
<1>3. \A r \in Peers : /\ ToAdd(r)' = ToAdd(r) /\ AddSent(r)' = AddSent(r)
                       /\ AddDue(r)' = AddDue(r) /\ ToDrop(r)' = ToDrop(r)
                       /\ DropSent(r)' = DropSent(r) /\ DropDue(r)' = DropDue(r)
  BY TwoPeers DEF ToAdd, AddSent, AddDue, ToDrop, DropSent, DropDue, Moving
<1>4. \A r \in Peers : Coming(r)' = Coming(r) /\ Going(r)' = Going(r)
  BY <1>3 DEF Coming, Going
<1>5. Matched(p)'
  BY <1>2, <1>4, SamePlaces DEF Fit, Follows
<1>6. OnePlace(p)'
  BY <1>2, <1>3, <1>4 DEF Fit, Follows, OnePlace
<1> QED
  BY <1>2, <1>5, <1>6 DEF Follows

-----------------------------------------------------------------------------
(* The steps that move files between the lists *)

LEMMA InTurn ==
    ASSUME NEW p, NEW i, NEW more, Mishap(p, i, more),
           mishaps' \cap {"order", "stale", "late"} = {}
    PROVE  Overtaking(p, i) = {} /\ Stale(p, i) = {}
<1>1. Overtaking(p, i) \subseteq mishaps' /\ Stale(p, i) \subseteq mishaps'
  BY DEF Mishap
<1>2. Overtaking(p, i) \in {{}, {"order"}} /\ Stale(p, i) \in {{}, {"stale"}}
  BY DEF Overtaking, Stale
<1> QED
  BY <1>1, <1>2

\* The places, for p and for the other, before and after a step.
LEMMA Places ==
    ASSUME NEW p \in Peers
    PROVE  LET q == Other(p) IN
           /\ ToAdd(p) = IdsIn(todo[p], "send_addfiles")
           /\ AddSent(p) = IdsIn(wire[q], "have_addfiles")
           /\ AddDue(p) = IdsIn(todo[q], "have_addfiles")
           /\ ToDrop(p) = IdsIn(todo[p], "send_deletefiles")
           /\ DropSent(p) = IdsIn(wire[q], "have_deletefiles")
           /\ DropDue(p) = IdsIn(todo[q], "have_deletefiles")
           /\ ToAdd(q) = IdsIn(todo[q], "send_addfiles")
           /\ AddSent(q) = IdsIn(wire[p], "have_addfiles")
           /\ AddDue(q) = IdsIn(todo[p], "have_addfiles")
           /\ ToDrop(q) = IdsIn(todo[q], "send_deletefiles")
           /\ DropSent(q) = IdsIn(wire[p], "have_deletefiles")
           /\ DropDue(q) = IdsIn(todo[p], "have_deletefiles")
           /\ ToAdd(p)' = IdsIn(todo'[p], "send_addfiles")
           /\ AddSent(p)' = IdsIn(wire'[q], "have_addfiles")
           /\ AddDue(p)' = IdsIn(todo'[q], "have_addfiles")
           /\ ToDrop(p)' = IdsIn(todo'[p], "send_deletefiles")
           /\ DropSent(p)' = IdsIn(wire'[q], "have_deletefiles")
           /\ DropDue(p)' = IdsIn(todo'[q], "have_deletefiles")
           /\ ToAdd(q)' = IdsIn(todo'[q], "send_addfiles")
           /\ AddSent(q)' = IdsIn(wire'[p], "have_addfiles")
           /\ AddDue(q)' = IdsIn(todo'[p], "have_addfiles")
           /\ ToDrop(q)' = IdsIn(todo'[q], "send_deletefiles")
           /\ DropSent(q)' = IdsIn(wire'[p], "have_deletefiles")
           /\ DropDue(q)' = IdsIn(todo'[p], "have_deletefiles")
  BY TwoPeers DEF ToAdd, AddSent, AddDue, ToDrop, DropSent, DropDue

\* Files are to be added to the other's list, or deleted from it: what is told
\* is sent.
LEMMA SendRows ==
    ASSUME ListType, Open, Fit, NEW p \in Peers, NEW i \in DOMAIN todo[p], Send(p, i),
           Overtaking(p, i) = {}
    PROVE  Fit'
<1> DEFINE t == todo[p][i]
           q == Other(p)
           sent == Task(Arrives[t.op], t.of)
<1>1. q \in Peers /\ q # p /\ Other(q) = p /\ \A r \in Peers : r = p \/ r = q
  BY TwoPeers
<1>2. /\ t.op \in DOMAIN Arrives /\ sent \in Tasks
      /\ wire' = [wire EXCEPT ![q] = Append(@, sent)]
      /\ Done(p, i, << >>)
      /\ rows' = rows /\ UNCHANGED <<asking, counter>>
  BY <1>1, SendFacts DEF Open, listVars
<1>3. sent.op = Arrives[t.op] /\ sent.of = t.of /\ Ids(sent) = Ids(t)
  BY DEF Task, Ids
<1>4. wire \in [Peers -> Seq(Tasks)] /\ wire[q] \in Seq(Tasks) /\ t \in Tasks
  BY <1>1 DEF ListType
<1>5. wire'[q] = wire[q] \o <<sent>> /\ wire'[p] = wire[p] /\ <<sent>> \in Seq(Tasks)
  BY <1>1, <1>2, <1>4
<1>6. Sequel(p) /\ Sequel(q) /\ OnePlace(p) /\ OnePlace(q) /\ Matched(p) /\ Matched(q)
  BY <1>1 DEF Fit, Follows
<1>7. /\ InStep(todo'[p], "send_addfiles", "send_deletefiles")
      /\ InStep(todo'[p], "have_addfiles", "have_deletefiles")
      /\ todo'[q] = todo[q]
      /\ \A op \in Moving :
            /\ t.op # op => IdsIn(todo'[p], op) = IdsIn(todo[p], op)
            /\ t.op = op => IdsIn(todo[p], op) = IdsIn(todo'[p], op) \cup Ids(t)
      /\ t.op \in {"send_addfiles", "send_deletefiles"} =>
            Ids(t) \cap IdsIn(todo'[p], "send_addfiles") = {}
  <2>1. PICK new \in Seq(Tasks) : /\ Done(p, i, new)
                                  /\ \A op \in Moving : Mentioned(new, op) = {}
    BY <1>2, EmptyTasks
  <2>2. Sequel(p)
    BY <1>6
  <2>3. /\ InStep(todo'[p], "send_addfiles", "send_deletefiles")
        /\ InStep(todo'[p], "have_addfiles", "have_deletefiles")
    BY <2>1, <2>2, DoneSequel
  <2>4. \A r \in Peers : r # p => todo'[r] = todo[r]
    BY <2>1, <2>2, DoneSequel
  <2>5. \A op \in Moving :
           /\ t.op # op => IdsIn(todo'[p], op) = IdsIn(todo[p], op)
           /\ t.op = op => IdsIn(todo[p], op) = IdsIn(todo'[p], op) \cup Ids(t)
    BY <2>1, <2>2, DoneSequel
  <2>6. t.op \in {"send_addfiles", "send_deletefiles"} =>
            Ids(t) \cap IdsIn(todo'[p], "send_addfiles") = {}
    BY <2>1, <2>2, DoneSequel
  <2> QED
    BY <1>1, <2>3, <2>4, <2>5, <2>6
<1>8. /\ t.op = "send_addfiles" =>
            \A k, m \in DOMAIN t.of : t.of[k].id = t.of[m].id => k = m
      /\ t.op = "send_deletefiles" => DOMAIN t.of = {1}
  BY <1>6 DEF Sequel, InStep
<1>9. /\ sent.op = "have_addfiles" <=> t.op = "send_addfiles"
      /\ sent.op = "have_deletefiles" <=> t.op = "send_deletefiles"
      /\ sent.op \notin {"send_addfiles", "send_deletefiles"}
      /\ t.op \notin {"have_addfiles", "have_deletefiles"}
  BY <1>2, <1>3 DEF Arrives
<1> HIDE DEF t, sent
<1>10. /\ InStep(<<sent>>, "have_addfiles", "have_deletefiles")
       /\ \A op : IdsIn(<<sent>>, op) = IF sent.op = op THEN Ids(t) ELSE {}
  BY <1>2, <1>3, <1>8, <1>9, OneInStep
<1>11. ASSUME NEW op
       PROVE  IdsIn(wire'[q], op) = IdsIn(wire[q], op) \cup
                                    (IF sent.op = op THEN Ids(t) ELSE {})
  <2>1. IdsIn(wire[q] \o <<sent>>, op) = IdsIn(wire[q], op) \cup IdsIn(<<sent>>, op)
    BY <1>4, <1>5, BehindIds
  <2> QED
    BY <1>5, <1>10, <2>1
<1>12. /\ ToAdd(q)' = ToAdd(q) /\ AddSent(q)' = AddSent(q) /\ AddDue(q)' = AddDue(q)
       /\ ToDrop(q)' = ToDrop(q) /\ DropSent(q)' = DropSent(q) /\ DropDue(q)' = DropDue(q)
       /\ AddDue(p)' = AddDue(p) /\ DropDue(p)' = DropDue(p)
  BY <1>5, <1>7, <1>9, Places DEF Moving
<1> DEFINE add == IF t.op = "send_addfiles" THEN Ids(t) ELSE {}
           drop == IF t.op = "send_deletefiles" THEN Ids(t) ELSE {}
<1>13. /\ ToAdd(p) = ToAdd(p)' \cup add /\ AddSent(p)' = AddSent(p) \cup add
       /\ ToDrop(p) = ToDrop(p)' \cup drop /\ DropSent(p)' = DropSent(p) \cup drop
       /\ add \cap ToAdd(p)' = {} /\ drop \cap ToAdd(p)' = {}
  <2>1. ToAdd(p) = ToAdd(p)' \cup add /\ ToDrop(p) = ToDrop(p)' \cup drop
    BY <1>7, Places DEF Moving
  <2>2. AddSent(p)' = AddSent(p) \cup add /\ DropSent(p)' = DropSent(p) \cup drop
    BY <1>9, <1>11, Places
  <2>3. add \cap ToAdd(p)' = {} /\ drop \cap ToAdd(p)' = {}
    BY <1>7, Places
  <2> QED
    BY <2>1, <2>2, <2>3
<1> HIDE DEF add, drop
<1>14. /\ \A r \in Peers : SameList(rows'[r], rows[r])
  BY <1>2, SameListSelf
<1>15. /\ \A r \in Peers : OnList(r)' = OnList(r) /\ OnShow(r)' = OnShow(r)
       /\ \A r \in Peers : Single(r)'
  BY <1>2, <1>14, SameIds DEF Fit
<1>16. \A r \in Peers : Coming(r)' = Coming(r) /\ Going(r)' = Going(r)
  BY <1>1, <1>12, <1>13 DEF Coming, Going
<1>17. Matched(p)' /\ Matched(q)'
  BY <1>1, <1>2, <1>6, <1>15, <1>16, SamePlaces
<1>18. OnePlace(q)'
  BY <1>1, <1>6, <1>12, <1>15, <1>16 DEF OnePlace
<1>19. OnePlace(p)'
  BY <1>1, <1>6, <1>12, <1>13, <1>15, <1>16 DEF OnePlace
<1>20. InStep(wire'[q], "have_addfiles", "have_deletefiles")
  <2>1. IdsIn(<<sent>>, "have_addfiles") \cap
            (IdsIn(wire[q], "have_addfiles") \cup IdsIn(wire[q], "have_deletefiles")) = {}
    BY <1>6, <1>9, <1>10, Places, <1>13 DEF OnePlace, add
  <2>2. InStep(wire[q], "have_addfiles", "have_deletefiles")
    BY <1>6 DEF Sequel
  <2>3. InStep(wire[q] \o <<sent>>, "have_addfiles", "have_deletefiles")
    BY <1>4, <1>5, <1>10, <2>1, <2>2, BehindInStep
  <2> QED
    BY <1>5, <2>3
<1>21. Sequel(p)' /\ Sequel(q)'
  BY <1>5, <1>6, <1>7, <1>20 DEF Sequel
<1> QED
  BY <1>1, <1>15, <1>17, <1>18, <1>19, <1>21 DEF Fit, Follows

\* What is sent is received.
LEMMA ReceiveRows ==
    ASSUME ListType, Shape, Fit, NEW p \in Peers, Receive(p)
    PROVE  Fit'
<1> DEFINE h == Head(wire[p])
           rest == Tail(wire[p])
           q == Other(p)
<1>1. q \in Peers /\ q # p /\ Other(q) = p /\ \A r \in Peers : r = p \/ r = q
  BY TwoPeers
<1>2. /\ wire[p] \in Seq(Tasks) /\ wire[p] # << >> /\ h \in Tasks /\ <<h>> \in Seq(Tasks)
      /\ wire' = [wire EXCEPT ![p] = rest] /\ Publish(p, <<h>>)
      /\ rows' = rows /\ UNCHANGED <<asking, counter>>
  BY ReceiveFacts DEF listVars
<1>3. wire'[p] = rest /\ wire'[q] = wire[q] /\ wire \in [Peers -> Seq(Tasks)]
  BY <1>1, <1>2 DEF ListType
<1>4. Sequel(p) /\ Sequel(q) /\ OnePlace(p) /\ OnePlace(q) /\ Matched(p) /\ Matched(q)
  BY <1>1 DEF Fit, Follows
<1>5. h.op \in {Arrives[op] : op \in DOMAIN Arrives} /\ 1 \in DOMAIN wire[p] /\ h = wire[p][1]
  BY <1>2 DEF Shape
<1>6. h.op \notin {"send_addfiles", "send_deletefiles"}
  BY <1>5 DEF Arrives
<1>7. /\ \A op : h.op # op => IdsIn(rest, op) = IdsIn(wire[p], op)
      /\ \A op : h.op = op => IdsIn(wire[p], op) = IdsIn(rest, op) \cup Ids(h)
      /\ h.op \in {"have_addfiles", "have_deletefiles"} =>
            Ids(h) \cap IdsIn(rest, "have_addfiles") = {}
      /\ InStep(rest, "have_addfiles", "have_deletefiles")
  BY <1>2, <1>4, HeadInStep, WithoutFirst DEF Sequel
<1>8. /\ h.op = "have_addfiles" =>
            \A k, m \in DOMAIN h.of : h.of[k].id = h.of[m].id => k = m
      /\ h.op = "have_deletefiles" => DOMAIN h.of = {1}
  BY <1>4, <1>5 DEF Sequel, InStep
<1>9. /\ todo'[p] = todo[p] \o <<h>> /\ todo'[q] = todo[q] /\ todo[p] \in Seq(Tasks)
  BY <1>1, <1>2, PublishFacts DEF ListType
<1> HIDE DEF h, rest
<1>10. /\ InStep(<<h>>, "have_addfiles", "have_deletefiles")
       /\ InStep(<<h>>, "send_addfiles", "send_deletefiles")
       /\ \A op : IdsIn(<<h>>, op) = IF h.op = op THEN Ids(h) ELSE {}
  BY <1>2, <1>6, <1>8, OneInStep
<1>11. ASSUME NEW op
       PROVE  IdsIn(todo'[p], op) = IdsIn(todo[p], op) \cup
                                    (IF h.op = op THEN Ids(h) ELSE {})
  <2>1. IdsIn(todo[p] \o <<h>>, op) = IdsIn(todo[p], op) \cup IdsIn(<<h>>, op)
    BY <1>2, <1>9, BehindIds
  <2> QED
    BY <1>9, <1>10, <2>1
<1> DEFINE add == IF h.op = "have_addfiles" THEN Ids(h) ELSE {}
           drop == IF h.op = "have_deletefiles" THEN Ids(h) ELSE {}
<1>12. /\ ToAdd(p)' = ToAdd(p) /\ AddSent(p)' = AddSent(p) /\ AddDue(p)' = AddDue(p)
       /\ ToDrop(p)' = ToDrop(p) /\ DropSent(p)' = DropSent(p) /\ DropDue(p)' = DropDue(p)
       /\ ToAdd(q)' = ToAdd(q) /\ ToDrop(q)' = ToDrop(q)
  <2>1. /\ AddSent(p)' = AddSent(p) /\ AddDue(p)' = AddDue(p)
        /\ DropSent(p)' = DropSent(p) /\ DropDue(p)' = DropDue(p)
        /\ ToAdd(q)' = ToAdd(q) /\ ToDrop(q)' = ToDrop(q)
    BY <1>1, <1>3, <1>9, Places
  <2>2. /\ IdsIn(todo'[p], "send_addfiles") = IdsIn(todo[p], "send_addfiles")
        /\ IdsIn(todo'[p], "send_deletefiles") = IdsIn(todo[p], "send_deletefiles")
    BY <1>6, <1>11
  <2> QED
    BY <2>1, <2>2, Places
<1>13. /\ AddSent(q) = AddSent(q)' \cup add /\ AddDue(q)' = AddDue(q) \cup add
       /\ DropSent(q) = DropSent(q)' \cup drop /\ DropDue(q)' = DropDue(q) \cup drop
       /\ add \cap AddSent(q)' = {} /\ drop \cap AddSent(q)' = {}
  BY <1>3, <1>7, <1>11, Places
<1> HIDE DEF add, drop
<1>14. \A r \in Peers : SameList(rows'[r], rows[r])
  BY <1>2, SameListSelf
<1>15. /\ \A r \in Peers : OnList(r)' = OnList(r) /\ OnShow(r)' = OnShow(r)
       /\ \A r \in Peers : Single(r)'
  BY <1>2, <1>14, SameIds DEF Fit
<1>16. \A r \in Peers : Coming(r)' = Coming(r) /\ Going(r)' = Going(r)
  BY <1>1, <1>12, <1>13 DEF Coming, Going
<1>17. Matched(p)' /\ Matched(q)'
  BY <1>1, <1>2, <1>4, <1>15, <1>16, SamePlaces
<1>18. OnePlace(p)'
  BY <1>1, <1>4, <1>12, <1>15, <1>16 DEF OnePlace
<1>19. OnePlace(q)'
  BY <1>1, <1>4, <1>12, <1>13, <1>15, <1>16 DEF OnePlace
<1>20. /\ InStep(todo'[p], "have_addfiles", "have_deletefiles")
       /\ InStep(todo'[p], "send_addfiles", "send_deletefiles")
  <2>1. IdsIn(<<h>>, "have_addfiles") \cap
            (IdsIn(todo[p], "have_addfiles") \cup IdsIn(todo[p], "have_deletefiles")) = {}
    BY <1>4, <1>10, Places, <1>13 DEF OnePlace, add
  <2>2. IdsIn(<<h>>, "send_addfiles") = {}
    BY <1>6, <1>10
  <2>3. /\ InStep(todo[p], "have_addfiles", "have_deletefiles")
        /\ InStep(todo[p], "send_addfiles", "send_deletefiles")
    BY <1>4 DEF Sequel
  <2>4. /\ InStep(todo[p] \o <<h>>, "have_addfiles", "have_deletefiles")
        /\ InStep(todo[p] \o <<h>>, "send_addfiles", "send_deletefiles")
    BY <1>2, <1>9, <1>10, <2>1, <2>2, <2>3, BehindInStep
  <2> QED
    BY <1>9, <2>4
<1>21. Sequel(p)' /\ Sequel(q)'
  BY <1>3, <1>4, <1>7, <1>9, <1>20 DEF Sequel
<1> QED
  BY <1>1, <1>15, <1>17, <1>18, <1>19, <1>21 DEF Fit, Follows

-----------------------------------------------------------------------------
(* The steps that move no file *)

LEMMA QuietKinds ==
    ASSUME NEW new, \A k \in DOMAIN new : new[k].op \in Cancels
    PROVE  \A op \in Moving : Mentioned(new, op) = {}
<1>1. Cancels \cap Moving = {}
  BY DEF Cancels, Moving
<1> QED
  BY <1>1, MentionedOther

LEMMA QuietOne ==
    ASSUME NEW op \in Ops \ Moving, NEW id \in Int
    PROVE  /\ <<About(op, id)>> \in Seq(Tasks)
           /\ \A o \in Moving : Mentioned(<<About(op, id)>>, o) = {}
<1>1. About(op, id) \in Tasks /\ About(op, id).op = op /\ <<About(op, id)>> \in Seq(Tasks)
  BY AboutIsTask
<1> QED
  BY <1>1, MentionedOne

LEMMA DoneQuiet ==
    ASSUME ListType, Fit, NEW p \in Peers, NEW i \in DOMAIN todo[p], NEW new \in Seq(Tasks),
           Done(p, i, new), \A op \in Moving : Mentioned(new, op) = {},
           todo[p][i].op \notin Moving, UNCHANGED <<wire, asking, counter>>,
           \A r \in Peers : SameList(rows'[r], rows[r])
    PROVE  Fit'
<1>1. Sequel(p)
  BY DEF Fit
<1>2. /\ InStep(todo'[p], "send_addfiles", "send_deletefiles")
      /\ InStep(todo'[p], "have_addfiles", "have_deletefiles")
  BY <1>1, DoneSequel
<1>3. \A r \in Peers : r # p => todo'[r] = todo[r]
  BY <1>1, DoneSequel
<1>4. \A op \in Moving : IdsIn(todo'[p], op) = IdsIn(todo[p], op)
  BY <1>1, DoneSequel
<1>5. \A r \in Peers : Sequel(r)'
  BY <1>2, <1>3 DEF Fit, Sequel
<1>6. \A r \in Peers : \A op \in Moving : /\ IdsIn(todo'[r], op) = IdsIn(todo[r], op)
                                          /\ IdsIn(wire'[r], op) = IdsIn(wire[r], op)
  BY <1>3, <1>4
<1> QED
  BY <1>5, <1>6, NothingMoves

LEMMA PublishQuiet ==
    ASSUME ListType, Fit, NEW p \in Peers, NEW new \in Seq(Tasks),
           Publish(p, new), \A op \in Moving : Mentioned(new, op) = {},
           UNCHANGED <<wire, asking, counter>>,
           \A r \in Peers : SameList(rows'[r], rows[r])
    PROVE  Fit'
<1>1. Sequel(p)
  BY DEF Fit
<1>2. /\ InStep(todo'[p], "send_addfiles", "send_deletefiles")
      /\ InStep(todo'[p], "have_addfiles", "have_deletefiles")
  BY <1>1, PublishSequel
<1>3. \A r \in Peers : r # p => todo'[r] = todo[r]
  BY <1>1, PublishSequel
<1>4. \A op \in Moving : IdsIn(todo'[p], op) = IdsIn(todo[p], op)
  BY <1>1, PublishSequel
<1>5. \A r \in Peers : Sequel(r)'
  BY <1>2, <1>3 DEF Fit, Sequel
<1>6. \A r \in Peers : \A op \in Moving : /\ IdsIn(todo'[r], op) = IdsIn(todo[r], op)
                                          /\ IdsIn(wire'[r], op) = IdsIn(wire[r], op)
  BY <1>3, <1>4
<1> QED
  BY <1>5, <1>6, NothingMoves

LEMMA StillRows ==
    ASSUME ListType, Fit, UNCHANGED <<rows, todo, wire, asking, counter>>
    PROVE  Fit'
<1>1. \A r \in Peers : SameList(rows'[r], rows[r])
  BY SameListSelf
<1>2. \A r \in Peers : Sequel(r)'
  BY DEF Fit, Sequel
<1> QED
  BY <1>1, <1>2, NothingMoves

\* Requests, reports, cancels and what the engine is asked for.
LEMMA RunQuiet ==
    ASSUME ListType, Fit, NEW p \in Peers, NEW i \in DOMAIN todo[p], Steps(p, i),
           ~Send(p, i), todo[p][i].op \notin Moving
    PROVE  Fit'
<1> DEFINE id == todo[p][i].of[1].id
<1>1. todo[p] \in Seq(Tasks)
  BY DEF ListType
<1>2. id \in Int
  BY <1>1, FirstItem
<1> HIDE DEF id
<1>3. ~AddRemoteFiles(p, i) /\ ~RemoveFileById(p, i)
  BY DEF AddRemoteFiles, RemoveFileById, Moving
<1>4. UNCHANGED <<wire, asking, counter>>
  BY <1>3 DEF Steps, NotFound, HaveDownLoadRequest, OnHaveExpiredFile,
         OnUploadFileProgress, OnDownLoadProgress, OnHaveCancelFile,
         OnHaveFileToSend, OnCancelSendFile, OnCancelUploadFile, listVars
<1>5. ASSUME NEW at \in Find(p, id), NEW status \in Statuses, SetStatus(p, at, status)
      PROVE  \A r \in Peers : SameList(rows'[r], rows[r])
  BY <1>5, FindStatus
<1>6. rows' = rows => \A r \in Peers : SameList(rows'[r], rows[r])
  BY SameListSelf
<1> DEFINE Same == \A r \in Peers : SameList(rows'[r], rows[r])
           Quietly == \E new \in Seq(Tasks) :
                         /\ \A op \in Moving : Mentioned(new, op) = {}
                         /\ Done(p, i, new)
<1> SUFFICES Same /\ Quietly
  BY <1>4, DoneQuiet
<1>7. Done(p, i, << >>) => Quietly
  BY EmptyTasks
<1>8. ASSUME NEW op \in Ops \ Moving, Done(p, i, <<About(op, id)>>)
      PROVE  Quietly
  BY <1>2, <1>8, QuietOne
<1>9. CASE NotFound(p, i)
  BY <1>6, <1>7, <1>9 DEF NotFound, listVars
<1>10. CASE HaveDownLoadRequest(p, i)
  <2>1. PICK at \in Find(p, id) :
         \/ /\ SetStatus(p, at, "Pending")
            /\ Done(p, i, <<Task("have_file_to_send", <<Item(id, rows[p][at].file)>>)>>)
         \/ /\ SetStatus(p, at, "Error")
            /\ Done(p, i, <<About("send_expired_file", id)>>)
    BY <1>10 DEF HaveDownLoadRequest, id
  <2>2. Same
    BY <1>5, <2>1 DEF Statuses
  <2> DEFINE item == Item(id, rows[p][at].file)
             task == Task("have_file_to_send", <<item>>)
  <2>3. at \in DOMAIN rows[p] /\ rows[p][at] \in Row
    BY <2>1, FindRow, RowIs
  <2>4. item \in Items
    BY <1>2, <2>3 DEF Item, Items, Row
  <2> HIDE DEF item
  <2>5. task \in Tasks /\ <<task>> \in Seq(Tasks) /\ task.op = "have_file_to_send"
    BY <2>4, TaskIsTask DEF Ops
  <2>6. \A op \in Moving : Mentioned(<<task>>, op) = {}
    <3> HIDE DEF task
    <3> QED
      BY <2>5, MentionedOne DEF Moving
  <2>7. "send_expired_file" \in Ops \ Moving
    BY DEF Ops, Moving
  <2>8. Quietly
    BY <1>8, <2>1, <2>5, <2>6, <2>7 DEF item
  <2> QED
    BY <2>2, <2>8
<1>11. CASE OnHaveExpiredFile(p, i)
  BY <1>5, <1>7, <1>11 DEF OnHaveExpiredFile, Statuses, id
<1>12. CASE OnUploadFileProgress(p, i)
  <2>1. PICK at \in Find(p, id) :
           \/ UNCHANGED rows \/ SetStatus(p, at, "UploadCompleted")
           \/ SetStatus(p, at, "Uploading")
    BY <1>12 DEF OnUploadFileProgress, id
  <2>2. Same
    BY <1>5, <1>6, <2>1 DEF Statuses
  <2> QED
    BY <1>7, <1>12, <2>2 DEF OnUploadFileProgress
<1>13. CASE OnDownLoadProgress(p, i)
  <2>1. PICK at \in Find(p, id) :
           \/ UNCHANGED rows \/ SetStatus(p, at, "DownloadCompleted")
           \/ SetStatus(p, at, "Downloading")
    BY <1>13 DEF OnDownLoadProgress, id
  <2>2. Same
    BY <1>5, <1>6, <2>1 DEF Statuses
  <2> QED
    BY <1>7, <1>13, <2>2 DEF OnDownLoadProgress
<1>14. CASE OnHaveCancelFile(p, i)
  BY <1>14, CancelFacts, QuietKinds
<1>15. CASE OnHaveFileToSend(p, i)
  BY <1>6, <1>7, <1>15 DEF OnHaveFileToSend, listVars
<1>16. CASE OnCancelSendFile(p, i)
  BY <1>6, <1>7, <1>16 DEF OnCancelSendFile, listVars
<1>17. CASE OnCancelUploadFile(p, i)
  BY <1>6, <1>7, <1>17 DEF OnCancelUploadFile, listVars
<1> QED
  BY <1>3, <1>9, <1>10, <1>11, <1>12, <1>13, <1>14, <1>15, <1>16, <1>17 DEF Steps

\* The sender and the parser, and the window's requests and cancels.
LEMMA EngineRows ==
    ASSUME ListType, Fit, NEW p \in Peers, Sender(p) \/ Parse(p)
    PROVE  Fit'
<1>1. UNCHANGED <<rows, wire, asking, counter>>
  BY DEF Sender, TakeTask, SendHeader, SendBlock, SendEnd, ReportEnd, Parse, listVars
<1>2. sending[p] # NoTransfer => sending[p].id \in Int
  BY DEF ListType, Transfer
<1>3. parsing[p].id \in Int
  BY DEF ListType, Named
<1>4. ASSUME NEW op \in Ops \ Moving, NEW id \in Int, Publish(p, <<About(op, id)>>)
      PROVE  Fit'
  <2>1. /\ <<About(op, id)>> \in Seq(Tasks)
        /\ \A o \in Moving : Mentioned(<<About(op, id)>>, o) = {}
    BY QuietOne
  <2>2. \A r \in Peers : SameList(rows'[r], rows[r])
    BY <1>1, SameListSelf
  <2> QED
    BY <1>1, <1>4, <2>1, <2>2, PublishQuiet
<1>5. ASSUME NEW op \in Ops \ Moving, NEW id \in Int,
             todo' = [todo EXCEPT ![p] = Append(@, About(op, id))]
      PROVE  Fit'
  <2> DEFINE told == About(op, id)
  <2>1. told \in Tasks /\ todo[p] \in Seq(Tasks)
    BY AboutIsTask DEF ListType
  <2>2. Append(todo[p], told) = todo[p] \o <<told>>
    <3> HIDE DEF told
    <3> QED
      BY <2>1
  <2>3. Publish(p, <<told>>)
    BY <1>5, <2>2 DEF Publish
  <2> QED
    BY <1>4, <2>3
<1>6. todo' = todo => Fit'
  BY <1>1, StillRows
<1>7. {"upload_progress", "upload_end", "download_progress", "download_end",
       "have_cancel_transit"} \subseteq Ops \ Moving
  BY DEF Ops, Moving
<1>8. CASE TakeTask(p) \/ SendHeader(p) \/ SendEnd(p)
  BY <1>6, <1>8 DEF TakeTask, SendHeader, SendEnd
<1>9. CASE SendBlock(p)
  BY <1>2, <1>5, <1>6, <1>7, <1>9 DEF SendBlock
<1>10. CASE ReportEnd(p)
  BY <1>2, <1>4, <1>6, <1>7, <1>10 DEF ReportEnd
<1>11. CASE Parse(p)
  <2> DEFINE m == Head(data[p])
  <2>1. ParseHeader(p, m) \/ ParseBlock(p, m) \/ ParseEnd(p, m)
    BY <1>11 DEF Parse
  <2> HIDE DEF m
  <2>2. CASE ParseHeader(p, m)
    BY <1>6, <2>2 DEF ParseHeader
  <2>3. CASE ParseBlock(p, m)
    BY <1>3, <1>5, <1>6, <1>7, <2>3 DEF ParseBlock
  <2>4. CASE ParseEnd(p, m)
    BY <1>3, <1>4, <1>7, <2>4 DEF ParseEnd
  <2> QED
    BY <2>1, <2>2, <2>3, <2>4
<1> QED
  BY <1>8, <1>9, <1>10, <1>11 DEF Sender

LEMMA WindowQuiet ==
    ASSUME ListType, Fit, NEW p \in Peers,
           \/ DownloadAll(p)
           \/ \E i \in DOMAIN rows[p] : DownloadFile(p, i) \/ CancelTransit(p, i)
    PROVE  Fit'
<1>1. UNCHANGED <<wire, asking, counter>>
  BY DEF DownloadAll, DownloadFile, CancelTransit
<1>2. rows[p] \in Seq(Row)
  BY DEF ListType
<1> DEFINE Same == \A r \in Peers : SameList(rows'[r], rows[r])
           Quietly == \E new \in Seq(Tasks) :
                         /\ \A op \in Moving : Mentioned(new, op) = {}
                         /\ Publish(p, new)
<1> SUFFICES Same /\ Quietly
  BY <1>1, PublishQuiet
<1>3. "send_get_file" \in Ops \ Moving
  BY DEF Ops, Moving
<1>4. CASE DownloadAll(p)
  <2>1. PICK wanted \in SUBSET DOMAIN rows[p] : Publish(p, Requests(rows[p], wanted))
    BY <1>4, DownloadAllFacts
  <2>2. /\ Requests(rows[p], wanted) \in Seq(Tasks)
        /\ \A op \in Moving : Mentioned(Requests(rows[p], wanted), op) = {}
    BY <1>2, <1>3, RequestsAre
  <2>3. Same
    BY <1>4, DownloadAllFacts
  <2> QED
    BY <2>1, <2>2, <2>3
<1>5. ASSUME NEW i \in DOMAIN rows[p], DownloadFile(p, i)
      PROVE  Same /\ Quietly
  <2>1. SetStatus(p, i, "Pending") /\ Publish(p, <<About("send_get_file", rows[p][i].id)>>)
    BY <1>5 DEF DownloadFile
  <2>2. Same
    BY <2>1, SetStatusFacts DEF Statuses
  <2>3. rows[p][i].id \in Int
    BY RowIs
  <2>4. Quietly
    BY <1>3, <2>1, <2>3, QuietOne
  <2> QED
    BY <2>2, <2>4
<1>6. ASSUME NEW i \in DOMAIN rows[p], CancelTransit(p, i)
      PROVE  Same /\ Quietly
  <2>1. /\ UNCHANGED rows \/ SetStatus(p, i, Canceled(rows[p][i]))
        /\ Publish(p, CancelTasks(rows[p][i]))
    BY <1>6 DEF CancelTransit
  <2>2. Canceled(rows[p][i]) \in Statuses
    BY DEF Canceled, Statuses
  <2>3. Same
    BY <2>1, <2>2, SetStatusFacts, SameListSelf
  <2>4. rows[p][i] \in Row
    BY <1>2
  <2>5. Quietly
    BY <2>1, <2>4, CancelTasksAre, QuietKinds
  <2> QED
    BY <2>3, <2>5
<1> QED
  BY <1>4, <1>5, <1>6

-----------------------------------------------------------------------------
(* The rows of the lists *)

LEMMA ListedIs ==
    ASSUME NEW p \in Peers
    PROVE  /\ \A x : x \in OnList(p) <=>
                        \E k \in DOMAIN rows[p] : ~rows[p][k].remote /\ rows[p][k].id = x
           /\ \A x : x \in OnList(p)' <=>
                        \E k \in DOMAIN rows'[p] : ~rows'[p][k].remote /\ rows'[p][k].id = x
<1>1. \A r : Pair(r).id = r.id
  BY DEF Pair, Item
<1>2. ASSUME NEW list, NEW x
      PROVE  x \in IdsOf({Pair(list[i]) : i \in Own(list)}) <=>
                \E k \in DOMAIN list : ~list[k].remote /\ list[k].id = x
  BY <1>1 DEF IdsOf, Own
<1> QED
  BY <1>2 DEF OnList, Listed

LEMMA ShownIs ==
    ASSUME NEW p \in Peers
    PROVE  /\ \A x : x \in OnShow(Other(p)) <=>
                        \E k \in DOMAIN rows[p] : rows[p][k].remote /\ rows[p][k].id = x
           /\ \A x : x \in OnShow(Other(p))' <=>
                        \E k \in DOMAIN rows'[p] : rows'[p][k].remote /\ rows'[p][k].id = x
<1>1. \A r : Pair(r).id = r.id
  BY DEF Pair, Item
<1>2. ASSUME NEW list, NEW x
      PROVE  x \in IdsOf({Pair(list[i]) : i \in Remote(list)}) <=>
                \E k \in DOMAIN list : list[k].remote /\ list[k].id = x
  BY <1>1 DEF IdsOf, Remote
<1>3. OnShow(Other(p)) = IdsOf(Shows(p)) /\ OnShow(Other(p))' = IdsOf(Shows(p))'
  BY TwoPeers DEF OnShow
<1> QED
  BY <1>2, <1>3 DEF Shows

\* A row is found when there is one.
LEMMA NoRow ==
    ASSUME ListType, NEW p \in Peers, NEW id, Find(p, id) = {}
    PROVE  \A k \in DOMAIN rows[p] : rows[p][k].id # id
<1> DEFINE T == {k \in DOMAIN rows[p] : rows[p][k].id = id}
           below == {ss \in Nat \X Nat : ss[1] < ss[2]}
<1>1. rows[p] \in Seq(Row)
  BY DEF ListType
<1>2. DOMAIN rows[p] = 1..Len(rows[p]) /\ Len(rows[p]) \in Nat
  BY <1>1
<1> SUFFICES ASSUME T # {} PROVE FALSE
  OBVIOUS
<1>3. T \subseteq Nat
  BY <1>2
<1>4. IsWellFoundedOn(below, Nat)
  BY NatLessThanWellFounded DEF OpToRel
<1>5. PICK i \in T : \A j \in T : <<j, i>> \notin below
  <2> HIDE DEF below, T
  <2> QED
    BY <1>3, <1>4, WFMin
<1>6. \A j \in Nat, k \in Nat : <<j, k>> \notin below => ~(j < k)
  OBVIOUS
<1>7. \A j \in T : ~(j < i)
  <2> HIDE DEF below, T
  <2> QED
    BY <1>3, <1>5, <1>6
<1>8. \A j \in 1..(i - 1) : j \in DOMAIN rows[p] /\ j < i
  BY <1>2
<1>9. \A j \in 1..(i - 1) : rows[p][j].id # id
  BY <1>7, <1>8
<1>10. i \in Find(p, id)
  BY <1>9 DEF Find
<1> QED
  BY <1>10

LEMMA RowTaken ==
    ASSUME NEW list \in Seq(Row), NEW at \in DOMAIN list
    PROVE  LET u == RemoveAt(list, at) IN
           /\ \A k \in DOMAIN u : \E j \in DOMAIN list :
                 j # at /\ u[k] = list[j] /\ j = (IF k < at THEN k ELSE k + 1)
           /\ \A j \in DOMAIN list : j # at => \E k \in DOMAIN u : u[k] = list[j]
           /\ DOMAIN u \subseteq Int
<1> DEFINE u == RemoveAt(list, at)
<1>1. /\ u \in Seq(Row) /\ Len(u) = Len(list) - 1
      /\ \A k \in 1..(Len(list) - 1) : u[k] = IF k < at THEN list[k] ELSE list[k + 1]
  BY RemoveAtSeq
<1>2. /\ DOMAIN list = 1..Len(list) /\ Len(list) \in Nat /\ at \in 1..Len(list)
  OBVIOUS
<1> HIDE DEF u
<1>3. DOMAIN u = 1..(Len(list) - 1)
  BY <1>1
<1>4. ASSUME NEW k \in DOMAIN u
      PROVE  \E j \in DOMAIN list :
                j # at /\ u[k] = list[j] /\ j = (IF k < at THEN k ELSE k + 1)
  <2> DEFINE j == IF k < at THEN k ELSE k + 1
  <2>1. j \in DOMAIN list /\ j # at /\ u[k] = list[j]
    BY <1>1, <1>2, <1>3
  <2> QED
    BY <2>1
<1>5. ASSUME NEW j \in DOMAIN list, j # at
      PROVE  \E k \in DOMAIN u : u[k] = list[j]
  <2>1. CASE j < at
    <3>1. j \in DOMAIN u /\ u[j] = list[j]
      BY <1>1, <1>2, <1>3, <2>1
    <3> QED
      BY <3>1
  <2>2. CASE ~(j < at)
    <3>1. j - 1 \in DOMAIN u /\ ~(j - 1 < at) /\ (j - 1) + 1 = j
      BY <1>2, <1>3, <1>5, <2>2
    <3>2. u[j - 1] = list[j]
      BY <1>1, <1>3, <3>1
    <3> QED
      BY <3>1, <3>2
  <2> QED
    BY <2>1, <2>2
<1>6. DOMAIN u \subseteq Int
  BY <1>2, <1>3
<1> QED
  BY <1>4, <1>5, <1>6 DEF u

\* A row is taken off a list.
LEMMA RowGone ==
    ASSUME ListType, NEW p \in Peers, NEW at \in DOMAIN rows[p],
           rows' = [rows EXCEPT ![p] = RemoveAt(@, at)], asking' = asking,
           \A r \in Peers : Single(r)
    PROVE  LET q == Other(p) x == rows[p][at].id IN
           /\ \A r \in Peers : Single(r)'
           /\ OnList(q)' = OnList(q) /\ OnShow(p)' = OnShow(p)
           /\ rows[p][at].remote => /\ OnList(p)' = OnList(p)
                                    /\ OnShow(q)' = OnShow(q) \ {x}
           /\ ~rows[p][at].remote /\ ~asking[p] =>
                 OnList(p)' = OnList(p) \ {x} /\ OnShow(q)' = OnShow(q)
<1> DEFINE q == Other(p)
           x == rows[p][at].id
           new == RemoveAt(rows[p], at)
<1>1. q \in Peers /\ q # p /\ Other(q) = p /\ \A r \in Peers : r = p \/ r = q
  BY TwoPeers
<1>2. rows \in [Peers -> Seq(Row)] /\ rows[p] \in Seq(Row) /\ DOMAIN rows[p] \subseteq Int
      /\ at \in Int
  <2>1. rows[p] \in Seq(Row)
    BY DEF ListType
  <2>2. DOMAIN rows[p] = 1..Len(rows[p]) /\ Len(rows[p]) \in Nat
    BY <2>1
  <2> QED
    BY <2>1, <2>2 DEF ListType
<1>3. rows'[p] = new /\ rows'[q] = rows[q]
  BY <1>1, <1>2
<1>4. /\ \A k \in DOMAIN new : \E j \in DOMAIN rows[p] :
            j # at /\ new[k] = rows[p][j] /\ j = (IF k < at THEN k ELSE k + 1)
      /\ \A j \in DOMAIN rows[p] : j # at => \E k \in DOMAIN new : new[k] = rows[p][j]
      /\ DOMAIN new \subseteq Int
  BY <1>2, RowTaken
<1> HIDE DEF new
<1>5. Single(q)'
  BY <1>1, <1>3 DEF Single
<1>6. Single(p)'
  <2> SUFFICES ASSUME NEW i \in DOMAIN new, NEW j \in DOMAIN new,
                      new[i].id = new[j].id, new[i].remote = new[j].remote,
                      new[i].remote \/ ~asking[p]
               PROVE  i = j
    BY <1>3 DEF Single
  <2>1. PICK k \in DOMAIN rows[p] : new[i] = rows[p][k] /\ k = (IF i < at THEN i ELSE i + 1)
    BY <1>4
  <2>2. PICK m \in DOMAIN rows[p] : new[j] = rows[p][m] /\ m = (IF j < at THEN j ELSE j + 1)
    BY <1>4
  <2>3. k = m
    BY <2>1, <2>2 DEF Single
  <2>4. i \in Int /\ j \in Int
    BY <1>4
  <2> QED
    BY <1>2, <2>1, <2>2, <2>3, <2>4
<1>7. OnList(q)' = OnList(q)
  <2>1. \A y : y \in OnList(q)' <=> y \in OnList(q)
    BY <1>1, <1>3, ListedIs
  <2> QED
    BY <2>1
<1>8. OnShow(p)' = OnShow(p)
  <2>1. \A y : y \in OnShow(p)' <=> y \in OnShow(p)
    BY <1>1, <1>3, ShownIs
  <2> QED
    BY <2>1
<1>9. ASSUME rows[p][at].remote
      PROVE  OnList(p)' = OnList(p) /\ OnShow(q)' = OnShow(q) \ {x}
  <2>1. \A y : y \in OnList(p)' <=> y \in OnList(p)
    BY <1>3, <1>4, <1>9, ListedIs
  <2>2. ASSUME NEW j \in DOMAIN rows[p], rows[p][j].remote, rows[p][j].id = x
        PROVE  j = at
    BY <1>9, <2>2 DEF Single
  <2>3. ASSUME NEW y
        PROVE  y \in OnShow(q)' <=> y \in OnShow(q) /\ y # x
    <3>1. /\ y \in OnShow(q) <=>
                \E k \in DOMAIN rows[p] : rows[p][k].remote /\ rows[p][k].id = y
          /\ y \in OnShow(q)' <=>
                \E k \in DOMAIN new : new[k].remote /\ new[k].id = y
      BY <1>3, ShownIs
    <3> HIDE DEF x
    <3> QED
      BY <1>4, <2>2, <3>1 DEF x
  <2> QED
    BY <2>1, <2>3
<1>10. ASSUME ~rows[p][at].remote, ~asking[p]
       PROVE  OnList(p)' = OnList(p) \ {x} /\ OnShow(q)' = OnShow(q)
  <2>1. \A y : y \in OnShow(q)' <=> y \in OnShow(q)
    BY <1>3, <1>4, <1>10, ShownIs
  <2>2. ASSUME NEW j \in DOMAIN rows[p], ~rows[p][j].remote, rows[p][j].id = x
        PROVE  j = at
    <3>1. rows[p][j].remote = rows[p][at].remote
      BY <1>2, <1>10, <2>2, RowIs
    <3> QED
      BY <1>10, <2>2, <3>1 DEF Single
  <2>3. ASSUME NEW y
        PROVE  y \in OnList(p)' <=> y \in OnList(p) /\ y # x
    <3>1. /\ y \in OnList(p) <=>
                \E k \in DOMAIN rows[p] : ~rows[p][k].remote /\ rows[p][k].id = y
          /\ y \in OnList(p)' <=>
                \E k \in DOMAIN new : ~new[k].remote /\ new[k].id = y
      BY <1>3, ListedIs
    <3> HIDE DEF x
    <3> QED
      BY <1>4, <2>2, <3>1 DEF x
  <2> QED
    BY <2>1, <2>3
<1>11. \A r \in Peers : Single(r)'
  BY <1>1, <1>5, <1>6
<1> HIDE DEF x
<1> QED
  BY <1>7, <1>8, <1>9, <1>10, <1>11 DEF x

-----------------------------------------------------------------------------
(* Files are deleted from the lists and come onto them                     *)

\* What is on the other's list, or on its way there, has been given out.
LEMMA GivenOut ==
    ASSUME Open, Counted, NEW p \in Peers
    PROVE  /\ Coming(p) \cup OnShow(p) \subseteq Used(p)
           /\ ~asking[p] => OnList(p) \subseteq Used(p)
<1>1. IdsOf(Known(p)) \subseteq Used(p)
  BY DEF Counted
<1>2. /\ Mentioned(todo[p], "send_addfiles") \subseteq Known(p)
      /\ Mentioned(wire[Other(p)], "have_addfiles") \subseteq Known(p)
      /\ Mentioned(todo[Other(p)], "have_addfiles") \subseteq Known(p)
      /\ Shows(Other(p)) \subseteq Known(p) /\ (~asking[p] => Listed(p) \subseteq Known(p))
  BY DEF Known, Heard, Told
<1>3. \A S : S \subseteq Known(p) => IdsOf(S) \subseteq Used(p)
  BY <1>1, IdsOfIs
<1>4. ToAdd(p) \subseteq Used(p) /\ AddSent(p) \subseteq Used(p) /\ AddDue(p) \subseteq Used(p)
  BY <1>2, <1>3 DEF ToAdd, AddSent, AddDue, IdsIn
<1>5. OnShow(p) \subseteq Used(p) /\ (~asking[p] => OnList(p) \subseteq Used(p))
  BY <1>2, <1>3 DEF OnShow, OnList
<1> QED
  BY <1>4, <1>5 DEF Coming

\* A file that the other has deleted goes off the list of p, or is on neither
\* part of it.
LEMMA DropRows ==
    ASSUME ListType, Fit, NEW p \in Peers, NEW i \in DOMAIN todo[p],
           todo[p][i].op = "have_deletefiles", Overtaking(p, i) = {},
           NEW new \in Seq(Tasks), Done(p, i, new),
           \A op \in Moving : Mentioned(new, op) = {},
           UNCHANGED <<wire, asking, counter>>, \A r \in Peers : Single(r)',
           NEW x, x = todo[p][i].of[1].id, NEW q, q = Other(p),
           OnList(q)' = OnList(q), OnShow(p)' = OnShow(p),
           OnList(p)' \subseteq OnList(p), OnList(p) \subseteq OnList(p)' \cup {x},
           ~asking[p] => x \notin OnList(p)',
           OnShow(q)' \subseteq OnShow(q), OnShow(q) \subseteq OnShow(q)' \cup {x},
           x \notin OnShow(q)'
    PROVE  Fit'
<1> DEFINE t == todo[p][i]
<1>1. q \in Peers /\ q # p /\ Other(q) = p /\ Other(p) = q /\ \A r \in Peers : r = p \/ r = q
  BY TwoPeers
<1>2. Sequel(p) /\ Sequel(q) /\ OnePlace(p) /\ OnePlace(q) /\ Matched(p) /\ Matched(q)
  BY <1>1 DEF Fit, Follows
<1>3. Ids(t) = {x}
  <2>1. DOMAIN t.of = {1}
    BY <1>2 DEF Sequel, InStep
  <2> QED
    BY <2>1 DEF Ids
<1>4. /\ InStep(todo'[p], "send_addfiles", "send_deletefiles")
      /\ InStep(todo'[p], "have_addfiles", "have_deletefiles")
  BY <1>2, DoneSequel
<1>5. todo'[q] = todo[q] /\ wire' = wire
  BY <1>1, <1>2, DoneSequel
<1>6. \A op \in Moving :
         /\ t.op # op => IdsIn(todo'[p], op) = IdsIn(todo[p], op)
         /\ t.op = op => IdsIn(todo[p], op) = IdsIn(todo'[p], op) \cup Ids(t)
  BY <1>2, DoneSequel
<1>7. Ids(t) \cap IdsIn(todo'[p], "have_addfiles") = {}
  BY <1>2, DoneSequel
<1>8. /\ IdsIn(todo'[p], "send_addfiles") = IdsIn(todo[p], "send_addfiles")
      /\ IdsIn(todo'[p], "send_deletefiles") = IdsIn(todo[p], "send_deletefiles")
      /\ IdsIn(todo'[p], "have_addfiles") = IdsIn(todo[p], "have_addfiles")
      /\ IdsIn(todo[p], "have_deletefiles") = IdsIn(todo'[p], "have_deletefiles") \cup {x}
  BY <1>3, <1>6 DEF Moving
<1> HIDE DEF t
<1>9. /\ ToAdd(p)' = ToAdd(p) /\ AddSent(p)' = AddSent(p) /\ AddDue(p)' = AddDue(p)
      /\ ToDrop(p)' = ToDrop(p) /\ DropSent(p)' = DropSent(p) /\ DropDue(p)' = DropDue(p)
      /\ ToAdd(q)' = ToAdd(q) /\ AddSent(q)' = AddSent(q) /\ AddDue(q)' = AddDue(q)
      /\ ToDrop(q)' = ToDrop(q) /\ DropSent(q)' = DropSent(q)
      /\ DropDue(q) = DropDue(q)' \cup {x}
      /\ x \notin AddDue(q)
  BY <1>1, <1>3, <1>5, <1>7, <1>8, Places
<1>10. /\ Coming(p)' = Coming(p) /\ Coming(q)' = Coming(q) /\ Going(p)' = Going(p)
       /\ Going(q)' \subseteq Going(q) /\ Going(q) \subseteq Going(q)' \cup {x}
       /\ x \in Going(q)
  BY <1>9 DEF Coming, Going
<1>11. /\ Used(p)' = Used(p) /\ Used(q)' = Used(q)
  BY DEF Used
<1>12. x \notin Coming(q) /\ x \notin Coming(p) /\ x \notin OnShow(p)
  <2>1. x \notin AddSent(q) /\ x \notin ToAdd(q)
    BY <1>2, <1>9 DEF OnePlace
  <2>2. x \notin Coming(p) \cup OnShow(p)
    BY <1>1, <1>2, <1>10 DEF Matched
  <2> QED
    BY <1>9, <2>1, <2>2 DEF Coming
<1>13. OnePlace(p)'
  BY <1>2, <1>9, <1>10 DEF OnePlace
<1>14. OnePlace(q)'
  BY <1>2, <1>9, <1>10 DEF OnePlace
<1>15. Matched(p)'
  <2>1. /\ ~asking[p] => /\ OnList(p) \cap Going(p) = {}
                         /\ OnList(p) \subseteq Going(q) \cup Coming(p) \cup OnShow(p)
        /\ Coming(p) \cup OnShow(p) \subseteq Going(p) \cup OnList(p)
        /\ Going(q) \cap (Coming(p) \cup OnShow(p)) = {}
        /\ Going(p) \subseteq Used(p) \cup Used(q)
    BY <1>1, <1>2 DEF Matched
  <2>2. ~asking[p] => /\ OnList(p)' \cap Going(p)' = {}
                      /\ OnList(p)' \subseteq Going(q)' \cup Coming(p)' \cup OnShow(p)'
    BY <1>10, <2>1
  <2>3. Coming(p)' \cup OnShow(p)' \subseteq Going(p)' \cup OnList(p)'
    BY <1>10, <1>12, <2>1
  <2>4. /\ Going(q)' \cap (Coming(p)' \cup OnShow(p)') = {}
        /\ Going(p)' \subseteq Used(p)' \cup Used(q)'
    BY <1>10, <1>11, <2>1
  <2> QED
    BY <1>1, <2>2, <2>3, <2>4 DEF Matched
<1>16. Matched(q)'
  <2>1. /\ ~asking[q] => /\ OnList(q) \cap Going(q) = {}
                         /\ OnList(q) \subseteq Going(p) \cup Coming(q) \cup OnShow(q)
        /\ Coming(q) \cup OnShow(q) \subseteq Going(q) \cup OnList(q)
        /\ Going(p) \cap (Coming(q) \cup OnShow(q)) = {}
        /\ Going(q) \subseteq Used(q) \cup Used(p)
    BY <1>1, <1>2 DEF Matched
  <2>2. ~asking[q] => /\ OnList(q)' \cap Going(q)' = {}
                      /\ OnList(q)' \subseteq Going(p)' \cup Coming(q)' \cup OnShow(q)'
    BY <1>10, <2>1
  <2>3. Coming(q)' \cup OnShow(q)' \subseteq Going(q)' \cup OnList(q)'
    BY <1>10, <1>12, <2>1
  <2>4. /\ Going(p)' \cap (Coming(q)' \cup OnShow(q)') = {}
        /\ Going(q)' \subseteq Used(q)' \cup Used(p)'
    BY <1>10, <1>11, <2>1
  <2> QED
    BY <1>1, <2>2, <2>3, <2>4 DEF Matched
<1>17. Sequel(p)' /\ Sequel(q)'
  BY <1>2, <1>4, <1>5 DEF Sequel
<1> QED
  BY <1>1, <1>13, <1>14, <1>15, <1>16, <1>17 DEF Fit, Follows

\* removeFileById, whether it finds the row or not.
LEMMA DeleteRows ==
    ASSUME ListType, First, Open, Counted, Fit, NEW p \in Peers, NEW i \in DOMAIN todo[p],
           \/ RemoveFileById(p, i)
           \/ NotFound(p, i) /\ todo[p][i].op = "have_deletefiles",
           Overtaking(p, i) = {}, Stale(p, i) = {}
    PROVE  Fit'
<1> DEFINE t == todo[p][i]
           x == t.of[1].id
           q == Other(p)
<1>1. q \in Peers /\ q # p /\ Other(q) = p
  BY TwoPeers
<1>2. todo[p] \in Seq(Tasks) /\ x \in Int /\ 1 \in DOMAIN t.of
  <2>1. todo[p] \in Seq(Tasks)
    BY DEF ListType
  <2> QED
    BY <2>1, FirstItem
<1>3. t.op = "have_deletefiles" /\ UNCHANGED <<wire, asking, counter>>
  BY DEF RemoveFileById, NotFound, listVars
<1>4. x \in Ids(t)
  BY <1>2 DEF Ids
<1>5. \A r \in Peers : Single(r)
  BY DEF Fit
<1>6. Used(p) \cap Used(q) = {} /\ OnShow(q) \subseteq Used(q)
      /\ (~asking[p] => OnList(p) \subseteq Used(p))
  BY <1>1, Apart, GivenOut
<1> HIDE DEF x
<1>7. CASE NotFound(p, i)
  <2>1. rows' = rows /\ Done(p, i, << >>)
    BY <1>7 DEF NotFound, listVars
  <2>2. \A k \in DOMAIN rows[p] : rows[p][k].id # x
    BY <1>7, NoRow DEF NotFound, x
  <2>3. x \notin OnList(p) /\ x \notin OnShow(q)
    BY <2>2, ListedIs, ShownIs
  <2>4. \A r \in Peers : SameList(rows'[r], rows[r])
    BY <2>1, SameListSelf
  <2>5. \A r \in Peers : OnList(r)' = OnList(r) /\ OnShow(r)' = OnShow(r) /\ Single(r)'
    BY <1>3, <1>5, <2>4, SameIds
  <2>6. PICK new \in Seq(Tasks) : /\ Done(p, i, new)
                                  /\ \A op \in Moving : Mentioned(new, op) = {}
    BY <2>1, EmptyTasks
  <2>7. OnList(q)' = OnList(q) /\ OnShow(p)' = OnShow(p) /\ OnList(p)' = OnList(p)
        /\ OnShow(q)' = OnShow(q)
    BY <1>1, <2>5
  <2> QED
    BY <1>3, <2>3, <2>5, <2>6, <2>7, DropRows DEF x
<1>8. CASE RemoveFileById(p, i)
  <2>1. PICK at \in Find(p, x) :
           /\ rows' = [rows EXCEPT ![p] = RemoveAt(@, at)]
           /\ Done(p, i, <<About("cancel_file_send", x)>>) \/ Done(p, i, << >>)
    BY <1>8 DEF RemoveFileById, x
  <2>2. at \in DOMAIN rows[p] /\ rows[p][at].id = x /\ rows[p][at].remote \in BOOLEAN
    BY <2>1, FindRow, RowIs
  <2>3. ~rows[p][at].remote => ~asking[p]
    BY <1>3, <1>4, <2>2 DEF Stale, Lookups, Own
  <2>4. PICK new \in Seq(Tasks) : /\ Done(p, i, new)
                                  /\ \A op \in Moving : Mentioned(new, op) = {}
    <3>1. "cancel_file_send" \in Ops \ Moving
      BY DEF Ops, Moving
    <3> QED
      BY <1>2, <2>1, <3>1, QuietOne, EmptyTasks
  <2>5. /\ \A r \in Peers : Single(r)'
        /\ OnList(q)' = OnList(q) /\ OnShow(p)' = OnShow(p)
        /\ rows[p][at].remote => OnList(p)' = OnList(p) /\ OnShow(q)' = OnShow(q) \ {x}
        /\ ~rows[p][at].remote /\ ~asking[p] =>
              OnList(p)' = OnList(p) \ {x} /\ OnShow(q)' = OnShow(q)
    BY <1>3, <1>5, <2>1, <2>2, RowGone
  <2>6. rows[p][at].remote => x \in OnShow(q)
    BY <2>2, ShownIs
  <2>7. ~rows[p][at].remote => x \in OnList(p)
    BY <2>2, ListedIs
  <2>8. /\ OnList(p)' \subseteq OnList(p) /\ OnList(p) \subseteq OnList(p)' \cup {x}
        /\ OnShow(q)' \subseteq OnShow(q) /\ OnShow(q) \subseteq OnShow(q)' \cup {x}
        /\ ~asking[p] => x \notin OnList(p)'
        /\ x \notin OnShow(q)'
    BY <1>6, <2>2, <2>3, <2>5, <2>6, <2>7
  <2> QED
    BY <1>3, <2>4, <2>5, <2>8, DropRows DEF x
<1> QED
  BY <1>7, <1>8

\* The rows of files that come onto the list.
LEMMA LongerRows ==
    ASSUME ListType, NEW p \in Peers, NEW i \in DOMAIN todo[p], AddRemoteFiles(p, i),
           NEW q, q = Other(p), \A r \in Peers : Single(r),
           \A k, m \in DOMAIN todo[p][i].of :
              todo[p][i].of[k].id = todo[p][i].of[m].id => k = m,
           Ids(todo[p][i]) \cap OnShow(q) = {}
    PROVE  /\ \A r \in Peers : Single(r)'
           /\ OnList(p)' = OnList(p) /\ OnList(q)' = OnList(q)
           /\ OnShow(p)' = OnShow(p) /\ OnShow(q)' = OnShow(q) \cup Ids(todo[p][i])
<1> DEFINE t == todo[p][i]
           long == Longer(p, t)
           n == Len(rows[p])
<1>1. q \in Peers /\ q # p /\ Other(q) = p /\ \A r \in Peers : r = p \/ r = q
  BY TwoPeers
<1>2. /\ t \in Tasks /\ rows \in [Peers -> Seq(Row)] /\ asking' = asking
      /\ rows' = [rows EXCEPT ![p] = Requested(long, Automated(p, t))]
      /\ SameList(rows'[p], long)
  BY AddRemoteFacts DEF ListType
<1>3. rows'[q] = rows[q]
  BY <1>1, <1>2
<1> HIDE DEF t
<1>4. /\ \A k \in DOMAIN rows[p] : k \in DOMAIN long /\ long[k] = rows[p][k]
      /\ \A m \in DOMAIN t.of : n + m \in DOMAIN long /\ long[n + m] = Added(t)[m]
  BY <1>2, LongerFacts
<1>5. \A k \in DOMAIN long :
         \/ k \in DOMAIN rows[p] /\ long[k] = rows[p][k]
         \/ \E m \in DOMAIN t.of : long[k] = Added(t)[m] /\ k = n + m
  BY <1>2, LongerFacts
<1>6. \A m \in DOMAIN t.of : Added(t)[m].remote /\ Added(t)[m].id = t.of[m].id
  BY DEF Added
<1> HIDE DEF long
<1>7. /\ DOMAIN rows'[p] = DOMAIN long
      /\ \A k \in DOMAIN long : /\ rows'[p][k].remote = long[k].remote
                                /\ rows'[p][k].id = long[k].id
  BY <1>2 DEF SameList
<1>8. ASSUME NEW k \in DOMAIN rows'[p]
      PROVE  \/ /\ k \in DOMAIN rows[p] /\ rows'[p][k].remote = rows[p][k].remote
                /\ rows'[p][k].id = rows[p][k].id
             \/ \E m \in DOMAIN t.of : /\ rows'[p][k].remote /\ k = n + m
                                       /\ rows'[p][k].id = t.of[m].id
  BY <1>5, <1>6, <1>7
<1>9. ASSUME NEW k \in DOMAIN rows[p]
      PROVE  /\ k \in DOMAIN rows'[p] /\ rows'[p][k].remote = rows[p][k].remote
             /\ rows'[p][k].id = rows[p][k].id
  BY <1>4, <1>7
<1>10. ASSUME NEW m \in DOMAIN t.of
       PROVE  /\ n + m \in DOMAIN rows'[p] /\ rows'[p][n + m].remote
              /\ rows'[p][n + m].id = t.of[m].id
  BY <1>4, <1>6, <1>7
<1> HIDE DEF n
<1>11. OnList(p)' = OnList(p)
  <2>1. \A x : x \in OnList(p)' <=> x \in OnList(p)
    BY <1>8, <1>9, ListedIs
  <2> QED
    BY <2>1
<1>12. \A x : x \in Ids(t) <=> \E m \in DOMAIN t.of : t.of[m].id = x
  BY DEF Ids
<1>13. OnShow(q)' = OnShow(q) \cup Ids(t)
  <2>1. \A x : x \in OnShow(q)' <=> x \in OnShow(q) \/ x \in Ids(t)
    <3>1. ASSUME NEW x, x \in OnShow(q)'
          PROVE  x \in OnShow(q) \/ x \in Ids(t)
      <4>1. PICK k \in DOMAIN rows'[p] : rows'[p][k].remote /\ rows'[p][k].id = x
        BY <3>1, ShownIs
      <4>2. CASE /\ k \in DOMAIN rows[p] /\ rows'[p][k].remote = rows[p][k].remote
                 /\ rows'[p][k].id = rows[p][k].id
        BY <4>1, <4>2, ShownIs
      <4>3. CASE \E m \in DOMAIN t.of : rows'[p][k].id = t.of[m].id
        BY <1>12, <4>1, <4>3
      <4> QED
        BY <1>8, <4>2, <4>3
    <3>2. ASSUME NEW x, x \in OnShow(q)
          PROVE  x \in OnShow(q)'
      <4>1. PICK k \in DOMAIN rows[p] : rows[p][k].remote /\ rows[p][k].id = x
        BY <3>2, ShownIs
      <4>2. k \in DOMAIN rows'[p] /\ rows'[p][k].remote /\ rows'[p][k].id = x
        BY <1>9, <4>1
      <4> QED
        BY <4>2, ShownIs
    <3>3. ASSUME NEW x, x \in Ids(t)
          PROVE  x \in OnShow(q)'
      <4>1. PICK m \in DOMAIN t.of : t.of[m].id = x
        BY <1>12, <3>3
      <4>2. n + m \in DOMAIN rows'[p] /\ rows'[p][n + m].remote /\ rows'[p][n + m].id = x
        BY <1>10, <4>1
      <4> QED
        BY <4>2, ShownIs
    <3> QED
      BY <3>1, <3>2, <3>3
  <2> QED
    BY <2>1
<1>14. OnList(q)' = OnList(q) /\ OnShow(p)' = OnShow(p) /\ Single(q)'
  <2>1. Listed(q)' = Listed(q) /\ Shows(q)' = Shows(q)
    BY <1>3 DEF Listed, Shows
  <2>2. Single(q)'
    BY <1>1, <1>2, <1>3 DEF Single
  <2> QED
    BY <2>1, <2>2 DEF OnList, OnShow
<1>15. Single(p)'
  <2> SUFFICES ASSUME NEW k \in DOMAIN rows'[p], NEW l \in DOMAIN rows'[p],
                      rows'[p][k].id = rows'[p][l].id,
                      rows'[p][k].remote = rows'[p][l].remote,
                      rows'[p][k].remote \/ ~asking'[p]
               PROVE  k = l
    BY DEF Single
  <2>1. ASSUME NEW j \in DOMAIN rows[p], NEW m \in DOMAIN t.of, rows[p][j].remote,
               rows[p][j].id = t.of[m].id
        PROVE  FALSE
    <3>1. rows[p][j].id \in OnShow(q)
      BY <2>1, ShownIs
    <3> QED
      BY <1>12, <2>1, <3>1 DEF t
  <2>2. CASE k \in DOMAIN rows[p] /\ l \in DOMAIN rows[p]
    BY <1>1, <1>2, <1>9, <2>2 DEF Single
  <2>3. CASE ~(k \in DOMAIN rows[p] /\ l \in DOMAIN rows[p])
    <3>1. CASE k \in DOMAIN rows[p]
      BY <1>8, <1>9, <2>1, <2>3, <3>1
    <3>2. CASE l \in DOMAIN rows[p]
      BY <1>8, <1>9, <2>1, <2>3, <3>2
    <3>3. CASE k \notin DOMAIN rows[p] /\ l \notin DOMAIN rows[p]
      <4>1. PICK m \in DOMAIN t.of : k = n + m /\ rows'[p][k].id = t.of[m].id
        BY <1>8, <3>3
      <4>2. PICK o \in DOMAIN t.of : l = n + o /\ rows'[p][l].id = t.of[o].id
        BY <1>8, <3>3
      <4>3. m = o
        BY <4>1, <4>2 DEF t
      <4> QED
        BY <4>1, <4>2, <4>3
    <3> QED
      BY <3>1, <3>2, <3>3
  <2> QED
    BY <2>2, <2>3
<1>16. \A r \in Peers : Single(r)'
  BY <1>1, <1>14, <1>15
<1> QED
  BY <1>11, <1>13, <1>14, <1>16 DEF t

\* addRemoteFiles: what has come is shown.
LEMMA AddRemoteRows ==
    ASSUME ListType, Fit, NEW p \in Peers, NEW i \in DOMAIN todo[p], AddRemoteFiles(p, i),
           Overtaking(p, i) = {}
    PROVE  Fit'
<1> DEFINE t == todo[p][i]
           q == Other(p)
           T == Ids(t)
           new == Requests(Longer(p, t), Automated(p, t))
<1>1. q \in Peers /\ q # p /\ Other(q) = p /\ \A r \in Peers : r = p \/ r = q
  BY TwoPeers
<1>2. /\ t \in Tasks /\ t.op = "have_addfiles" /\ Done(p, i, new)
      /\ wire' = wire /\ UNCHANGED <<asking, counter>>
  BY AddRemoteFacts
<1>3. new \in Seq(Tasks) /\ \A op \in Moving : Mentioned(new, op) = {}
  <2>1. Longer(p, t) \in Seq(Row) /\ Automated(p, t) \subseteq DOMAIN Longer(p, t)
    BY <1>2, LongerFacts
  <2>2. "send_get_file" \notin Moving
    BY DEF Moving
  <2> QED
    BY <2>1, <2>2, RequestsAre
<1>4. Sequel(p) /\ Sequel(q) /\ OnePlace(p) /\ OnePlace(q) /\ Matched(p) /\ Matched(q)
  BY <1>1 DEF Fit, Follows
<1> HIDE DEF new
<1>5. Done(p, i, new) /\ Sequel(p)
  BY <1>2, <1>4
<1>6. /\ InStep(todo'[p], "send_addfiles", "send_deletefiles")
      /\ InStep(todo'[p], "have_addfiles", "have_deletefiles")
      /\ todo'[q] = todo[q]
  BY <1>1, <1>3, <1>5, DoneSequel
<1>7. \A op \in Moving :
         /\ t.op # op => IdsIn(todo'[p], op) = IdsIn(todo[p], op)
         /\ t.op = op => IdsIn(todo[p], op) = IdsIn(todo'[p], op) \cup Ids(t)
  BY <1>3, <1>5, DoneSequel
<1>8. Ids(t) \cap IdsIn(todo'[p], "have_addfiles") = {}
  BY <1>2, <1>3, <1>5, DoneSequel
<1>9. /\ IdsIn(todo'[p], "send_addfiles") = IdsIn(todo[p], "send_addfiles")
      /\ IdsIn(todo'[p], "send_deletefiles") = IdsIn(todo[p], "send_deletefiles")
      /\ IdsIn(todo[p], "have_addfiles") = IdsIn(todo'[p], "have_addfiles") \cup T
      /\ IdsIn(todo[p], "have_deletefiles") = IdsIn(todo'[p], "have_deletefiles")
  BY <1>2, <1>7 DEF Moving
<1>10. \A k, m \in DOMAIN t.of : t.of[k].id = t.of[m].id => k = m
  BY <1>2, <1>4 DEF Sequel, InStep
<1> HIDE DEF t
<1>11. /\ ToAdd(p)' = ToAdd(p) /\ AddSent(p)' = AddSent(p) /\ AddDue(p)' = AddDue(p)
       /\ ToDrop(p)' = ToDrop(p) /\ DropSent(p)' = DropSent(p) /\ DropDue(p)' = DropDue(p)
       /\ ToAdd(q)' = ToAdd(q) /\ AddSent(q)' = AddSent(q)
       /\ AddDue(q) = AddDue(q)' \cup T /\ AddDue(q)' \cap T = {}
       /\ ToDrop(q)' = ToDrop(q) /\ DropSent(q)' = DropSent(q) /\ DropDue(q)' = DropDue(q)
  BY <1>1, <1>2, <1>6, <1>8, <1>9, Places
<1> HIDE DEF T
<1>12. Ids(t) \cap OnShow(q) = {}
  BY <1>4, <1>11 DEF OnePlace, Coming, T
<1>13. /\ \A r \in Peers : Single(r)'
       /\ OnList(p)' = OnList(p) /\ OnList(q)' = OnList(q)
       /\ OnShow(p)' = OnShow(p) /\ OnShow(q)' = OnShow(q) \cup T
  BY <1>10, <1>12, LongerRows DEF Fit, t, T
<1>14. /\ Coming(p)' = Coming(p) /\ Going(p)' = Going(p) /\ Going(q)' = Going(q)
       /\ Coming(q)' \cup OnShow(q)' = Coming(q) \cup OnShow(q)
  BY <1>11, <1>13 DEF Coming, Going
<1>15. OnePlace(p)'
  BY <1>4, <1>11, <1>13, <1>14 DEF OnePlace
<1>16. OnePlace(q)'
  <2>1. Coming(q)' \cap OnShow(q)' = {}
    BY <1>4, <1>11, <1>13 DEF OnePlace, Coming
  <2> QED
    BY <1>4, <1>11, <2>1 DEF OnePlace
<1>17. Used(p)' = Used(p) /\ Used(q)' = Used(q) /\ asking' = asking
  BY <1>2 DEF Used
<1>18. Matched(p)'
  BY <1>1, <1>4, <1>13, <1>14, <1>17 DEF Matched
<1>19. Matched(q)'
  <2>1. /\ ~asking[q] => /\ OnList(q) \cap Going(q) = {}
                         /\ OnList(q) \subseteq Going(p) \cup Coming(q) \cup OnShow(q)
        /\ Coming(q) \cup OnShow(q) \subseteq Going(q) \cup OnList(q)
        /\ Going(p) \cap (Coming(q) \cup OnShow(q)) = {}
        /\ Going(q) \subseteq Used(q) \cup Used(p)
    BY <1>1, <1>4 DEF Matched
  <2>2. ~asking'[q] => /\ OnList(q)' \cap Going(q)' = {}
                       /\ OnList(q)' \subseteq Going(p)' \cup Coming(q)' \cup OnShow(q)'
    BY <1>13, <1>14, <1>17, <2>1
  <2>3. /\ Coming(q)' \cup OnShow(q)' \subseteq Going(q)' \cup OnList(q)'
        /\ Going(p)' \cap (Coming(q)' \cup OnShow(q)') = {}
        /\ Going(q)' \subseteq Used(q)' \cup Used(p)'
    BY <1>13, <1>14, <1>17, <2>1
  <2> QED
    BY <1>1, <2>2, <2>3 DEF Matched
<1>20. Sequel(p)' /\ Sequel(q)'
  BY <1>2, <1>4, <1>6 DEF Sequel
<1> QED
  BY <1>1, <1>13, <1>15, <1>16, <1>18, <1>19, <1>20 DEF Fit, Follows

-----------------------------------------------------------------------------
(* The users add and remove files                                          *)

LEMMA PublishRows ==
    ASSUME ListType, NEW p \in Peers, NEW new \in Seq(Tasks), Publish(p, new), Sequel(p),
           InStep(new, "send_addfiles", "send_deletefiles"),
           InStep(new, "have_addfiles", "have_deletefiles"),
           IdsIn(new, "have_addfiles") = {},
           IdsIn(new, "send_addfiles") \cap (ToAdd(p) \cup ToDrop(p)) = {}
    PROVE  /\ InStep(todo'[p], "send_addfiles", "send_deletefiles")
           /\ InStep(todo'[p], "have_addfiles", "have_deletefiles")
           /\ todo'[Other(p)] = todo[Other(p)]
           /\ \A op : IdsIn(todo'[p], op) = IdsIn(todo[p], op) \cup IdsIn(new, op)
<1> DEFINE s == todo[p]
<1>1. s \in Seq(Tasks)
  BY DEF ListType
<1>2. todo'[p] = s \o new /\ todo'[Other(p)] = todo[Other(p)]
  BY PublishFacts, TwoPeers
<1>3. /\ InStep(s, "send_addfiles", "send_deletefiles")
      /\ InStep(s, "have_addfiles", "have_deletefiles")
      /\ IdsIn(new, "send_addfiles") \cap
            (IdsIn(s, "send_addfiles") \cup IdsIn(s, "send_deletefiles")) = {}
  BY DEF Sequel, ToAdd, ToDrop
<1> HIDE DEF s
<1>4. /\ InStep(s \o new, "send_addfiles", "send_deletefiles")
      /\ InStep(s \o new, "have_addfiles", "have_deletefiles")
  BY <1>1, <1>3, BehindInStep
<1>5. \A op : IdsIn(s \o new, op) = IdsIn(s, op) \cup IdsIn(new, op)
  BY <1>1, BehindIds
<1> QED
  BY <1>2, <1>4, <1>5 DEF s

\* What removeFile tells the pool: the cancels of the transfer, and the peer's
\* to delete the row.
LEMMA RemovalTold ==
    ASSUME NEW row \in Row, NEW told, told = <<About("send_deletefiles", row.id)>>
    PROVE  LET new == CancelTasks(row) \o told IN
           /\ new \in Seq(Tasks)
           /\ InStep(new, "send_addfiles", "send_deletefiles")
           /\ InStep(new, "have_addfiles", "have_deletefiles")
           /\ IdsIn(new, "have_addfiles") = {} /\ IdsIn(new, "send_addfiles") = {}
           /\ IdsIn(new, "have_deletefiles") = {}
           /\ IdsIn(new, "send_deletefiles") = {row.id}
<1> DEFINE t == About("send_deletefiles", row.id)
           first == CancelTasks(row)
<1>1. t \in Tasks /\ <<t>> \in Seq(Tasks) /\ t.op = "send_deletefiles"
      /\ t.of = <<Item(row.id, NoFile)>>
  <2>1. row.id \in Int /\ "send_deletefiles" \in Ops
    BY DEF Row, Ops
  <2> QED
    BY <2>1, AboutIsTask
<1>2. DOMAIN t.of = {1} /\ Ids(t) = {row.id}
  <2>1. DOMAIN <<Item(row.id, NoFile)>> = {1} /\ Item(row.id, NoFile).id = row.id
    BY DEF Item
  <2> HIDE DEF t
  <2> QED
    BY <1>1, <2>1 DEF Ids
<1>3. told = <<t>>
  OBVIOUS
<1>4. first \in Seq(Tasks) /\ \A k \in DOMAIN first : first[k].op \in Cancels
  BY CancelTasksAre
<1> HIDE DEF t, first
<1>5. /\ InStep(told, "send_addfiles", "send_deletefiles")
      /\ InStep(told, "have_addfiles", "have_deletefiles")
      /\ \A op : IdsIn(told, op) = IF op = "send_deletefiles" THEN {row.id} ELSE {}
  <2>1. InStep(<<t>>, "send_addfiles", "send_deletefiles")
    BY <1>1, <1>2, OneInStep
  <2>2. InStep(<<t>>, "have_addfiles", "have_deletefiles")
    BY <1>1, OneInStep
  <2>3. \A op : IdsIn(<<t>>, op) = IF t.op = op THEN Ids(t) ELSE {}
    BY <1>1, <1>2, OneInStep
  <2> QED
    BY <1>1, <1>2, <1>3, <2>1, <2>2, <2>3
<1>6. ASSUME NEW op \in Moving
      PROVE  \A k \in DOMAIN first : first[k].op # op
  BY <1>4 DEF Cancels, Moving
<1>7. /\ InStep(first, "send_addfiles", "send_deletefiles")
      /\ InStep(first, "have_addfiles", "have_deletefiles")
  BY <1>6, NoneInStep DEF Moving
<1>8. \A op \in Moving : IdsIn(first, op) = {}
  BY <1>6, IdsInIs
<1>9. \A op \in Moving : IdsIn(first \o told, op) = IdsIn(told, op)
  <2>1. told \in Seq(Tasks) /\ first \in Seq(Tasks)
    BY <1>1, <1>3, <1>4
  <2>2. \A op : IdsIn(first \o told, op) = IdsIn(first, op) \cup IdsIn(told, op)
    BY <2>1, BehindIds
  <2> QED
    BY <1>8, <2>2
<1>10. /\ IdsIn(told, "send_addfiles") = {} /\ IdsIn(told, "have_addfiles") = {}
       /\ IdsIn(told, "have_deletefiles") = {} /\ IdsIn(told, "send_deletefiles") = {row.id}
  BY <1>5
<1>11. /\ InStep(first \o told, "send_addfiles", "send_deletefiles")
       /\ InStep(first \o told, "have_addfiles", "have_deletefiles")
  BY <1>1, <1>3, <1>4, <1>5, <1>7, <1>10, BehindInStep
<1>12. first \o told \in Seq(Tasks)
  BY <1>1, <1>3, <1>4
<1> QED
  BY <1>9, <1>10, <1>11, <1>12 DEF Moving, first

LEMMA RemoveFileRows ==
    ASSUME ListType, First, Open, Counted, Fit, NEW p \in Peers,
           NEW i \in DOMAIN rows[p], RemoveFile(p, i)
    PROVE  Fit'
<1> DEFINE q == Other(p)
           x == rows[p][i].id
           told == <<About("send_deletefiles", x)>>
           new == CancelTasks(rows[p][i]) \o told
<1>1. q \in Peers /\ q # p /\ Other(q) = p /\ \A r \in Peers : r = p \/ r = q
  BY TwoPeers
<1>2. /\ ~asking[p] /\ rows' = [rows EXCEPT ![p] = RemoveAt(@, i)]
      /\ wire' = wire /\ UNCHANGED <<asking, counter>>
  BY DEF RemoveFile, Gesture
<1>3. Publish(p, new)
  BY DEF Open, RemoveFile
<1>4. rows[p][i] \in Row
  BY DEF ListType
<1>5. /\ new \in Seq(Tasks)
      /\ InStep(new, "send_addfiles", "send_deletefiles")
      /\ InStep(new, "have_addfiles", "have_deletefiles")
      /\ IdsIn(new, "have_addfiles") = {} /\ IdsIn(new, "send_addfiles") = {}
      /\ IdsIn(new, "have_deletefiles") = {} /\ IdsIn(new, "send_deletefiles") = {x}
  BY <1>4, RemovalTold
<1>6. Sequel(p) /\ Sequel(q) /\ OnePlace(p) /\ OnePlace(q) /\ Matched(p) /\ Matched(q)
  BY <1>1 DEF Fit, Follows
<1> HIDE DEF new
<1>7. /\ InStep(todo'[p], "send_addfiles", "send_deletefiles")
      /\ InStep(todo'[p], "have_addfiles", "have_deletefiles")
      /\ todo'[q] = todo[q]
      /\ \A op : IdsIn(todo'[p], op) = IdsIn(todo[p], op) \cup IdsIn(new, op)
  BY <1>3, <1>5, <1>6, PublishRows
<1>8. /\ IdsIn(todo'[p], "send_addfiles") = IdsIn(todo[p], "send_addfiles")
      /\ IdsIn(todo'[p], "send_deletefiles") = IdsIn(todo[p], "send_deletefiles") \cup {x}
      /\ IdsIn(todo'[p], "have_addfiles") = IdsIn(todo[p], "have_addfiles")
      /\ IdsIn(todo'[p], "have_deletefiles") = IdsIn(todo[p], "have_deletefiles")
  BY <1>5, <1>7
<1>9. /\ ToAdd(p)' = ToAdd(p) /\ AddSent(p)' = AddSent(p) /\ AddDue(p)' = AddDue(p)
      /\ ToDrop(p)' = ToDrop(p) \cup {x}
      /\ DropSent(p)' = DropSent(p) /\ DropDue(p)' = DropDue(p)
      /\ ToAdd(q)' = ToAdd(q) /\ AddSent(q)' = AddSent(q) /\ AddDue(q)' = AddDue(q)
      /\ ToDrop(q)' = ToDrop(q) /\ DropSent(q)' = DropSent(q) /\ DropDue(q)' = DropDue(q)
  BY <1>1, <1>2, <1>7, <1>8, Places
<1>10. /\ Coming(p)' = Coming(p) /\ Coming(q)' = Coming(q)
       /\ Going(p)' = Going(p) \cup {x} /\ Going(q)' = Going(q)
  BY <1>9 DEF Coming, Going
<1>11. Used(p)' = Used(p) /\ Used(q)' = Used(q) /\ asking' = asking
  BY <1>2 DEF Used
<1>12. /\ \A r \in Peers : Single(r)'
       /\ OnList(q)' = OnList(q) /\ OnShow(p)' = OnShow(p)
       /\ rows[p][i].remote => OnList(p)' = OnList(p) /\ OnShow(q)' = OnShow(q) \ {x}
       /\ ~rows[p][i].remote => OnList(p)' = OnList(p) \ {x} /\ OnShow(q)' = OnShow(q)
  BY <1>2, RowGone DEF Fit
<1>13. /\ Coming(q) \cup OnShow(q) \subseteq Used(q) /\ OnList(p) \subseteq Used(p)
       /\ Used(p) \cap Used(q) = {}
  BY <1>1, <1>2, Apart, GivenOut
<1>14. /\ x \notin Coming(q) /\ x \notin OnShow(q)' /\ x \notin OnList(p)'
       /\ OnShow(q)' \subseteq OnShow(q) /\ OnShow(q) \subseteq OnShow(q)' \cup {x}
       /\ OnList(p)' \subseteq OnList(p) /\ OnList(p) \subseteq OnList(p)' \cup {x}
       /\ x \in Used(p) \cup Used(q)
  <2>1. CASE rows[p][i].remote
    <3>1. x \in OnShow(q)
      BY <2>1, ShownIs
    <3>2. x \notin Coming(q)
      BY <1>6, <3>1 DEF OnePlace
    <3> QED
      BY <1>12, <1>13, <2>1, <3>1, <3>2
  <2>2. CASE ~rows[p][i].remote
    <3>1. x \in OnList(p)
      BY <2>2, ListedIs
    <3> QED
      BY <1>12, <1>13, <2>2, <3>1
  <2> QED
    BY <2>1, <2>2
<1> HIDE DEF x
<1>15. OnePlace(p)' /\ OnePlace(q)'
  BY <1>6, <1>9, <1>10, <1>12, <1>14 DEF OnePlace
<1>16. Matched(p)'
  <2>1. /\ OnList(p) \cap Going(p) = {}
        /\ OnList(p) \subseteq Going(q) \cup Coming(p) \cup OnShow(p)
        /\ Coming(p) \cup OnShow(p) \subseteq Going(p) \cup OnList(p)
        /\ Going(q) \cap (Coming(p) \cup OnShow(p)) = {}
        /\ Going(p) \subseteq Used(p) \cup Used(q)
    BY <1>1, <1>2, <1>6 DEF Matched
  <2>2. /\ OnList(p)' \cap Going(p)' = {}
        /\ OnList(p)' \subseteq Going(q)' \cup Coming(p)' \cup OnShow(p)'
        /\ Coming(p)' \cup OnShow(p)' \subseteq Going(p)' \cup OnList(p)'
    BY <1>10, <1>12, <1>14, <2>1
  <2>3. /\ Going(q)' \cap (Coming(p)' \cup OnShow(p)') = {}
        /\ Going(p)' \subseteq Used(p)' \cup Used(q)'
    BY <1>10, <1>11, <1>12, <1>14, <2>1
  <2> QED
    BY <1>1, <2>2, <2>3 DEF Matched
<1>17. Matched(q)'
  <2>1. /\ ~asking[q] => /\ OnList(q) \cap Going(q) = {}
                         /\ OnList(q) \subseteq Going(p) \cup Coming(q) \cup OnShow(q)
        /\ Coming(q) \cup OnShow(q) \subseteq Going(q) \cup OnList(q)
        /\ Going(p) \cap (Coming(q) \cup OnShow(q)) = {}
        /\ Going(q) \subseteq Used(q) \cup Used(p)
    BY <1>1, <1>6 DEF Matched
  <2>2. ~asking'[q] => /\ OnList(q)' \cap Going(q)' = {}
                       /\ OnList(q)' \subseteq Going(p)' \cup Coming(q)' \cup OnShow(q)'
    BY <1>10, <1>11, <1>12, <1>14, <2>1
  <2>3. /\ Coming(q)' \cup OnShow(q)' \subseteq Going(q)' \cup OnList(q)'
        /\ Going(p)' \cap (Coming(q)' \cup OnShow(q)') = {}
        /\ Going(q)' \subseteq Used(q)' \cup Used(p)'
    BY <1>10, <1>11, <1>12, <1>14, <2>1
  <2> QED
    BY <1>1, <2>2, <2>3 DEF Matched
<1>18. Sequel(p)' /\ Sequel(q)'
  BY <1>2, <1>6, <1>7 DEF Sequel
<1> QED
  BY <1>1, <1>12, <1>15, <1>16, <1>17, <1>18 DEF Fit, Follows

\* The next id is not one of the other's.
LEMMA NextFree ==
    ASSUME ListType, First, Counted, gestures < Top, NEW p \in Peers
    PROVE  counter[p] \notin Used(p) \cup Used(Other(p))
<1> DEFINE q == Other(p)
<1>1. q \in Peers /\ q # p /\ Other(q) = p /\ \A r \in Peers : r = p \/ r = q
  BY TwoPeers
<1>2. /\ Count(p) \in Int /\ Count(q) \in Int /\ counter[p] \in Int /\ counter[q] \in Int
      /\ Top \in Nat /\ Spent(p) \in Int /\ Spent(q) \in Int
      /\ Cardinality(Own(rows[p])) \in Nat /\ Cardinality(Own(rows[q])) \in Nat
      /\ gestures \in Nat
  BY <1>1, CountType DEF ListType
<1>3. /\ asking[p] => Count(p) = 0
      /\ asking[q] => Count(q) = 0
      /\ Count(p) >= 0 /\ Count(q) >= 0 /\ Spent(p) + Spent(q) <= gestures
  BY <1>1 DEF Counted
<1>4. Spent(p) >= Count(p) /\ Spent(q) >= Count(q)
  BY <1>2, <1>3 DEF Spent
<1>5. Count(p) + Count(q) < Top
  BY <1>2, <1>3, <1>4
<1>6. p = Dialer \/ q = Dialer
  BY <1>1, ListAssumption
<1>7. counter[p] \notin Used(q)
  <2>1. CASE p = Dialer
    <3>1. Used(q) = (counter[q] + 1) .. Top /\ Count(q) = Top - counter[q]
          /\ Count(p) = counter[p]
      BY <1>1, <2>1 DEF Used, Count
    <3> QED
      BY <1>2, <1>5, <3>1
  <2>2. CASE q = Dialer
    <3>1. Used(q) = 0 .. (counter[q] - 1) /\ Count(q) = counter[q]
          /\ Count(p) = Top - counter[p]
      BY <1>1, <2>2 DEF Used, Count
    <3> QED
      BY <1>2, <1>5, <3>1
  <2> QED
    BY <1>6, <2>1, <2>2
<1> QED
  BY <1>7, Apart

\* A row of its own is put behind the others.
LEMMA RowBehind ==
    ASSUME ListType, NEW p \in Peers, NEW row \in Row, ~row.remote,
           rows' = [rows EXCEPT ![p] = Append(@, row)], asking' = asking, ~asking[p],
           \A r \in Peers : Single(r), row.id \notin OnList(p), NEW q, q = Other(p)
    PROVE  /\ \A r \in Peers : Single(r)'
           /\ OnList(p)' = OnList(p) \cup {row.id} /\ OnList(q)' = OnList(q)
           /\ OnShow(p)' = OnShow(p) /\ OnShow(q)' = OnShow(q)
<1> DEFINE list == rows[p]
           new == rows'[p]
           n == Len(list) + 1
<1>1. q \in Peers /\ q # p /\ Other(q) = p /\ \A r \in Peers : r = p \/ r = q
  BY TwoPeers
<1>2. list \in Seq(Row) /\ rows \in [Peers -> Seq(Row)]
  BY DEF ListType
<1>3. new = Append(list, row) /\ rows'[q] = rows[q]
  BY <1>1, <1>2
<1>4. /\ \A k \in DOMAIN list : k \in DOMAIN new /\ new[k] = list[k]
      /\ n \in DOMAIN new /\ new[n] = row
      /\ \A k \in DOMAIN new : (k \in DOMAIN list /\ new[k] = list[k]) \/ k = n
  BY <1>2, <1>3
<1> HIDE DEF n
<1>5. OnList(p)' = OnList(p) \cup {row.id}
  <2>1. \A x : x \in OnList(p)' <=> x \in OnList(p) \/ x = row.id
    BY <1>4, ListedIs
  <2> QED
    BY <2>1
<1>6. OnShow(q)' = OnShow(q)
  <2>1. \A x : x \in OnShow(q)' <=> x \in OnShow(q)
    BY <1>4, ShownIs
  <2> QED
    BY <2>1
<1>7. OnList(q)' = OnList(q) /\ OnShow(p)' = OnShow(p)
  BY <1>1, <1>3 DEF OnList, OnShow, Listed, Shows
<1>8. Single(q)'
  BY <1>1, <1>3 DEF Single
<1>9. Single(p)'
  <2>1. \A k \in DOMAIN list : ~list[k].remote => list[k].id # row.id
    BY ListedIs
  <2>2. \A k, m \in DOMAIN list :
           /\ list[k].id = list[m].id /\ list[k].remote = list[m].remote
           => k = m
    BY DEF Single
  <2>3. \A k, m \in DOMAIN new :
           /\ new[k].id = new[m].id /\ new[k].remote = new[m].remote
           => k = m
    BY <1>4, <2>1, <2>2
  <2> QED
    BY <2>3 DEF Single
<1> QED
  BY <1>1, <1>5, <1>6, <1>7, <1>8, <1>9

LEMMA AddFileRows ==
    ASSUME ListType, First, gestures < Top, Open, Counted, Fit,
           NEW p \in Peers, NEW f \in Files, AddFile(p, f)
    PROVE  Fit'
<1> DEFINE q == Other(p)
           x == counter[p]
           item == Item(x, f)
           task == Task("send_addfiles", <<item>>)
           row == [file |-> f, remote |-> FALSE, id |-> x, status |-> "LocalDefault"]
           new == <<task>>
<1>1. q \in Peers /\ q # p /\ Other(q) = p /\ \A r \in Peers : r = p \/ r = q
  BY TwoPeers
<1>2. /\ row \in Row /\ task \in Tasks /\ rows' = [rows EXCEPT ![p] = Append(@, row)]
      /\ counter' = [counter EXCEPT ![p] = NextId(p, 1)] /\ ~asking[p]
      /\ wire' = wire /\ asking' = asking
  BY AddFileFacts
<1>3. Publish(p, new) /\ new \in Seq(Tasks)
  <2>1. Publish(p, IF linked[p] THEN <<task>> ELSE << >>)
    BY AddFileFacts
  <2>2. linked[p]
    BY DEF Open
  <2> QED
    BY <1>2, <2>1, <2>2
<1>4. task.op = "send_addfiles" /\ task.of = <<item>> /\ item.id = x
      /\ row.id = x /\ ~row.remote
  BY DEF Task, Item
<1> HIDE DEF task, item, row
<1>5. DOMAIN task.of = {1} /\ Ids(task) = {x}
  <2>1. DOMAIN <<item>> = {1} /\ <<item>>[1] = item
    OBVIOUS
  <2>2. \A y : y \in Ids(task) <=> y = x
    BY <1>4, <2>1 DEF Ids
  <2> QED
    BY <1>4, <2>1, <2>2
<1>6. /\ InStep(new, "send_addfiles", "send_deletefiles")
      /\ \A op : IdsIn(new, op) = IF op = "send_addfiles" THEN {x} ELSE {}
  BY <1>2, <1>4, <1>5, OneInStep
<1>7. InStep(new, "have_addfiles", "have_deletefiles")
  BY <1>2, <1>4, OneInStep
<1>8. Sequel(p) /\ Sequel(q) /\ OnePlace(p) /\ OnePlace(q) /\ Matched(p) /\ Matched(q)
  BY <1>1 DEF Fit, Follows
<1>9. /\ x \notin Used(p) \cup Used(q)
      /\ Coming(p) \cup OnShow(p) \subseteq Used(p) /\ OnList(p) \subseteq Used(p)
  BY <1>1, <1>2, GivenOut, NextFree
<1>10. x \notin Going(p) /\ x \notin Going(q)
  BY <1>1, <1>8, <1>9 DEF Matched
<1> HIDE DEF new
<1>11. /\ InStep(todo'[p], "send_addfiles", "send_deletefiles")
       /\ InStep(todo'[p], "have_addfiles", "have_deletefiles")
       /\ todo'[q] = todo[q]
       /\ \A op : IdsIn(todo'[p], op) = IdsIn(todo[p], op) \cup IdsIn(new, op)
  <2>1. x \notin ToAdd(p) /\ x \notin ToDrop(p)
    BY <1>9, <1>10 DEF Coming, Going
  <2>2. /\ IdsIn(new, "send_addfiles") = {x} /\ IdsIn(new, "have_addfiles") = {}
    BY <1>6
  <2> HIDE DEF x
  <2>3. IdsIn(new, "send_addfiles") \cap (ToAdd(p) \cup ToDrop(p)) = {}
    BY <2>1, <2>2
  <2> QED
    BY <1>3, <1>6, <1>7, <1>8, <2>2, <2>3, PublishRows
<1> HIDE DEF x
<1>12. /\ IdsIn(todo'[p], "send_addfiles") = IdsIn(todo[p], "send_addfiles") \cup {x}
       /\ IdsIn(todo'[p], "send_deletefiles") = IdsIn(todo[p], "send_deletefiles")
       /\ IdsIn(todo'[p], "have_addfiles") = IdsIn(todo[p], "have_addfiles")
       /\ IdsIn(todo'[p], "have_deletefiles") = IdsIn(todo[p], "have_deletefiles")
  BY <1>6, <1>11
<1>13. /\ ToAdd(p)' = ToAdd(p) \cup {x} /\ AddSent(p)' = AddSent(p) /\ AddDue(p)' = AddDue(p)
       /\ ToDrop(p)' = ToDrop(p) /\ DropSent(p)' = DropSent(p) /\ DropDue(p)' = DropDue(p)
       /\ ToAdd(q)' = ToAdd(q) /\ AddSent(q)' = AddSent(q) /\ AddDue(q)' = AddDue(q)
       /\ ToDrop(q)' = ToDrop(q) /\ DropSent(q)' = DropSent(q) /\ DropDue(q)' = DropDue(q)
  BY <1>1, <1>2, <1>11, <1>12, Places
<1>14. /\ Coming(p)' = Coming(p) \cup {x} /\ Coming(q)' = Coming(q)
       /\ Going(p)' = Going(p) /\ Going(q)' = Going(q)
  BY <1>13 DEF Coming, Going
<1>15. /\ \A r \in Peers : Single(r)'
       /\ OnList(p)' = OnList(p) \cup {x} /\ OnList(q)' = OnList(q)
       /\ OnShow(p)' = OnShow(p) /\ OnShow(q)' = OnShow(q)
  <2>1. \A r \in Peers : Single(r)
    BY DEF Fit
  <2>2. row.id \notin OnList(p)
    BY <1>4, <1>9
  <2> QED
    BY <1>2, <1>4, <2>1, <2>2, RowBehind
<1>16. Used(q)' = Used(q) /\ Used(p) \subseteq Used(p)'
  <2>1. counter \in [Peers -> Int] /\ Top \in Nat
    BY ListAssumption DEF ListType
  <2>2. counter'[p] = NextId(p, 1) /\ counter'[q] = counter[q]
    BY <1>1, <1>2, <2>1
  <2>3. begin[p] = (IF p = Dialer THEN "Low" ELSE "High")
    BY DEF Counted
  <2>4. counter'[p] = IF p = Dialer THEN counter[p] + 1 ELSE counter[p] - 1
    BY <2>2, <2>3 DEF NextId
  <2>5. counter[p] \in Int
    BY <2>1
  <2>6. Used(q)' = Used(q)
    BY <2>2 DEF Used
  <2>7. Used(p) \subseteq Used(p)'
    BY <2>1, <2>4, <2>5 DEF Used
  <2> QED
    BY <2>6, <2>7
<1>17. OnePlace(q)'
  BY <1>8, <1>13, <1>14, <1>15 DEF OnePlace
<1>18. OnePlace(p)'
  <2>1. /\ x \notin AddSent(p) /\ x \notin AddDue(p) /\ x \notin OnShow(p)
        /\ x \notin DropDue(p) /\ x \notin DropSent(p)
    BY <1>9, <1>10 DEF Coming, Going
  <2> QED
    BY <1>8, <1>13, <1>14, <1>15, <2>1 DEF OnePlace
<1>19. Matched(p)'
  <2>1. /\ OnList(p) \cap Going(p) = {}
        /\ OnList(p) \subseteq Going(q) \cup Coming(p) \cup OnShow(p)
        /\ Coming(p) \cup OnShow(p) \subseteq Going(p) \cup OnList(p)
        /\ Going(q) \cap (Coming(p) \cup OnShow(p)) = {}
        /\ Going(p) \subseteq Used(p) \cup Used(q)
    BY <1>1, <1>2, <1>8 DEF Matched
  <2>2. /\ OnList(p)' \cap Going(p)' = {}
        /\ OnList(p)' \subseteq Going(q)' \cup Coming(p)' \cup OnShow(p)'
        /\ Coming(p)' \cup OnShow(p)' \subseteq Going(p)' \cup OnList(p)'
    BY <1>10, <1>14, <1>15, <2>1
  <2>3. /\ Going(q)' \cap (Coming(p)' \cup OnShow(p)') = {}
        /\ Going(p)' \subseteq Used(p)' \cup Used(q)'
    BY <1>10, <1>14, <1>15, <1>16, <2>1
  <2> QED
    BY <1>1, <2>2, <2>3 DEF Matched
<1>20. Matched(q)'
  <2>1. /\ ~asking[q] => /\ OnList(q) \cap Going(q) = {}
                         /\ OnList(q) \subseteq Going(p) \cup Coming(q) \cup OnShow(q)
        /\ Coming(q) \cup OnShow(q) \subseteq Going(q) \cup OnList(q)
        /\ Going(p) \cap (Coming(q) \cup OnShow(q)) = {}
        /\ Going(q) \subseteq Used(q) \cup Used(p)
    BY <1>1, <1>8 DEF Matched
  <2>2. ~asking'[q] => /\ OnList(q)' \cap Going(q)' = {}
                       /\ OnList(q)' \subseteq Going(p)' \cup Coming(q)' \cup OnShow(q)'
    BY <1>2, <1>14, <1>15, <2>1
  <2>3. /\ Coming(q)' \cup OnShow(q)' \subseteq Going(q)' \cup OnList(q)'
        /\ Going(p)' \cap (Coming(q)' \cup OnShow(q)') = {}
        /\ Going(q)' \subseteq Used(q)' \cup Used(p)'
    BY <1>14, <1>15, <1>16, <2>1
  <2> QED
    BY <1>1, <2>2, <2>3 DEF Matched
<1>21. Sequel(p)' /\ Sequel(q)'
  BY <1>2, <1>8, <1>11 DEF Sequel
<1> QED
  BY <1>1, <1>15, <1>17, <1>18, <1>19, <1>20, <1>21 DEF Fit, Follows

-----------------------------------------------------------------------------
(* The own files are announced, and the session begins                     *)

\* The ids that the own files get are different ones, and not the other's.
LEMMA SyncIds ==
    ASSUME ListType, First, Counted, NEW p \in Peers, asking[p],
           NEW i \in Own(rows[p])
    PROVE  /\ Renumbered(p)[i].id \notin Used(Other(p))
           /\ \A j \in Own(rows[p]) : Renumbered(p)[i].id = Renumbered(p)[j].id => i = j
<1> DEFINE q == Other(p)
           list == Renumbered(p)
           n == Cardinality(Own(rows[p]))
<1>1. q \in Peers /\ q # p /\ Other(q) = p /\ \A r \in Peers : r = p \/ r = q
  BY TwoPeers
<1>2. /\ Count(p) \in Int /\ Count(q) \in Int /\ counter[p] \in Int /\ counter[q] \in Int
      /\ Top \in Nat /\ Spent(q) \in Int /\ gestures \in Nat
      /\ n \in Nat /\ Cardinality(Own(rows[q])) \in Nat
  BY <1>1, CountType DEF ListType
<1>3. /\ Count(p) = 0 /\ (asking[q] => Count(q) = 0)
      /\ Count(q) >= 0 /\ n + Spent(q) <= gestures
      /\ begin[p] = (IF p = Dialer THEN "Low" ELSE "High")
  BY <1>1 DEF Counted, Spent
<1>4. Spent(q) >= Count(q) /\ gestures <= Top
  BY <1>2, <1>3 DEF Spent, First
<1>5. n + Count(q) <= Top
  BY <1>2, <1>3, <1>4
<1>6. counter[p] = IF p = Dialer THEN 0 ELSE Top
  BY <1>2, <1>3 DEF Count
<1>7. \A m \in Int : NextId(p, m) = IF p = Dialer THEN m ELSE Top - m
  BY <1>3, <1>6 DEF NextId
<1>8. ASSUME NEW j \in Own(rows[p])
      PROVE  /\ list[j].id = IF p = Dialer THEN Before(rows[p], j)
                             ELSE Top - Before(rows[p], j)
             /\ Before(rows[p], j) \in 0..(n - 1)
             /\ \A k \in Own(rows[p]) : k # j => Before(rows[p], j) # Before(rows[p], k)
  <2>1. rows[p] \in Seq(Row) /\ j \in DOMAIN rows[p] /\ ~rows[p][j].remote
    BY DEF Own, ListType
  <2>2. /\ Before(rows[p], j) \in 0..(n - 1)
        /\ \A k \in Own(rows[p]) : k # j => Before(rows[p], j) # Before(rows[p], k)
    BY <2>1, BeforeFacts
  <2>3. list[j].id = NextId(p, Before(rows[p], j)) /\ Before(rows[p], j) \in Int
    BY <2>1, <2>2, RenumberedFacts
  <2> QED
    BY <1>7, <2>2, <2>3
<1> DEFINE b == Before(rows[p], i)
<1>9. list[i].id = (IF p = Dialer THEN b ELSE Top - b) /\ b \in 0..(n - 1)
  BY <1>8
<1>10. p = Dialer \/ q = Dialer
  BY <1>1, ListAssumption
<1> HIDE DEF list, n, b
<1>11. list[i].id \notin Used(q)
  <2>1. CASE p = Dialer
    <3>1. Used(q) = (counter[q] + 1) .. Top /\ Count(q) = Top - counter[q]
      BY <1>1, <2>1 DEF Used, Count
    <3> QED
      BY <1>2, <1>5, <1>9, <2>1, <3>1
  <2>2. CASE q = Dialer
    <3>1. Used(q) = 0 .. (counter[q] - 1) /\ Count(q) = counter[q] /\ p # Dialer
      BY <1>1, <2>2 DEF Used, Count
    <3> QED
      BY <1>2, <1>5, <1>9, <2>2, <3>1
  <2> QED
    BY <1>10, <2>1, <2>2
<1>12. ASSUME NEW j \in Own(rows[p]), list[i].id = list[j].id
       PROVE  i = j
  <2>1. Before(rows[p], j) \in 0..(n - 1) /\ Before(rows[p], i) \in 0..(n - 1)
    BY <1>8
  <2>2. Before(rows[p], j) = Before(rows[p], i)
    BY <1>2, <1>8, <1>12, <2>1
  <2> QED
    BY <1>8, <2>2
<1> QED
  BY <1>11, <1>12 DEF list

\* They are announced in one task, each of them once.
LEMMA SyncTold ==
    ASSUME ListType, First, Open, Counted, NEW p \in Peers, SyncCurrentFiles(p)
    PROVE  \E new \in Seq(Tasks) :
              /\ Publish(p, new)
              /\ InStep(new, "send_addfiles", "send_deletefiles")
              /\ InStep(new, "have_addfiles", "have_deletefiles")
              /\ IdsIn(new, "have_addfiles") = {} /\ IdsIn(new, "have_deletefiles") = {}
              /\ IdsIn(new, "send_deletefiles") = {}
              /\ IdsIn(new, "send_addfiles") =
                     {Renumbered(p)[i].id : i \in Own(rows[p])}
<1> DEFINE list == Renumbered(p)
           own == Entries(list, Own(list))
           task == Task("send_addfiles", [k \in DOMAIN own |-> Item(own[k].id, own[k].file)])
           N == {list[i].id : i \in Own(rows[p])}
<1>1. list \in Seq(Row) /\ Own(list) = Own(rows[p]) /\ Own(list) \subseteq DOMAIN list
  BY RenumberedFacts DEF Own
<1>2. asking[p] /\ linked[p]
  BY SyncFacts DEF Open
<1>3. Publish(p, IF own # << >> THEN <<task>> ELSE << >>)
  BY <1>2, SyncFacts
<1>4. ASSUME NEW i \in Own(list), NEW j \in Own(list), list[i].id = list[j].id
      PROVE  i = j
  BY <1>1, <1>2, <1>4, SyncIds
<1> HIDE DEF list
<1>5. CASE own = << >>
  <2>1. Own(list) = {}
    <3>1. Own(list) \in SUBSET DOMAIN list
      BY <1>1
    <3>2. \A i \in Own(list) :
             \E k \in DOMAIN Entries(list, Own(list)) : Entries(list, Own(list))[k] = list[i]
      BY <1>1, <3>1, EntriesOf
    <3>3. DOMAIN own = {}
      BY <1>5
    <3> QED
      BY <3>2, <3>3
  <2>2. N = {}
    BY <1>1, <2>1
  <2> DEFINE none == << >>
  <2>3. none \in Seq(Tasks) /\ Publish(p, none)
    BY <1>3, <1>5
  <2>4. /\ InStep(none, "send_addfiles", "send_deletefiles")
        /\ InStep(none, "have_addfiles", "have_deletefiles")
        /\ \A op : IdsIn(none, op) = {}
    BY NoTask
  <2> HIDE DEF none, N, own
  <2> QED
    BY <2>2, <2>3, <2>4 DEF N, list
<1>6. CASE own # << >>
  <2>1. /\ task \in Tasks /\ task.op = "send_addfiles"
        /\ {task.of[m] : m \in DOMAIN task.of} = {Pair(list[i]) : i \in Own(list)}
    BY <1>1, <1>6, AnnouncedFacts
  <2>2. /\ DOMAIN task.of = DOMAIN own
        /\ \A k \in DOMAIN own : task.of[k].id = own[k].id
    BY DEF Task, Item
  <2> HIDE DEF task
  <2>3. \A k, m \in DOMAIN own : k # m =>
           \E i, j \in Own(list) : i # j /\ own[k] = list[i] /\ own[m] = list[j]
    BY <1>1, EntriesOf
  <2> HIDE DEF own
  <2>4. \A k, m \in DOMAIN task.of : task.of[k].id = task.of[m].id => k = m
    BY <1>4, <2>2, <2>3
  <2>5. Ids(task) = N
    <3>1. \A i : Pair(list[i]).id = list[i].id
      BY DEF Pair, Item
    <3>2. ASSUME NEW x
          PROVE  x \in Ids(task) <=> x \in N
      <4>1. x \in Ids(task) <=> \E y \in {task.of[m] : m \in DOMAIN task.of} : y.id = x
        BY DEF Ids
      <4>2. x \in N <=> \E y \in {Pair(list[i]) : i \in Own(list)} : y.id = x
        BY <1>1, <3>1
      <4> QED
        BY <2>1, <4>1, <4>2
    <3> QED
      BY <3>2
  <2>6. Publish(p, <<task>>) /\ <<task>> \in Seq(Tasks)
    BY <1>3, <1>6, <2>1 DEF task
  <2> HIDE DEF N
  <2>7. /\ InStep(<<task>>, "send_addfiles", "send_deletefiles")
        /\ \A op : IdsIn(<<task>>, op) = IF op = "send_addfiles" THEN N ELSE {}
    <3>1. /\ InStep(<<task>>, "send_addfiles", "send_deletefiles")
          /\ \A op : IdsIn(<<task>>, op) = IF task.op = op THEN Ids(task) ELSE {}
      BY <2>1, <2>4, OneInStep
    <3> QED
      BY <2>1, <2>5, <3>1
  <2>8. InStep(<<task>>, "have_addfiles", "have_deletefiles")
    BY <2>1, OneInStep
  <2>9. /\ IdsIn(<<task>>, "have_addfiles") = {} /\ IdsIn(<<task>>, "have_deletefiles") = {}
        /\ IdsIn(<<task>>, "send_deletefiles") = {} /\ IdsIn(<<task>>, "send_addfiles") = N
    BY <2>7
  <2> QED
    BY <2>6, <2>7, <2>8, <2>9 DEF N, list
<1> QED
  BY <1>5, <1>6

LEMMA SyncRows ==
    ASSUME ListType, First, Open, Counted, Fit, NEW p \in Peers, SyncCurrentFiles(p)
    PROVE  Fit'
<1> DEFINE q == Other(p)
           list == Renumbered(p)
           N == {list[i].id : i \in Own(rows[p])}
<1>1. q \in Peers /\ q # p /\ Other(q) = p /\ \A r \in Peers : r = p \/ r = q
  BY TwoPeers
<1>2. /\ asking[p] /\ asking' = [asking EXCEPT ![p] = FALSE]
      /\ rows' = [rows EXCEPT ![p] = list]
      /\ counter' = [counter EXCEPT ![p] = NextId(p, Cardinality(Own(rows[p])))]
      /\ wire' = wire
  BY SyncFacts
<1>3. PICK new \in Seq(Tasks) :
         /\ Publish(p, new)
         /\ InStep(new, "send_addfiles", "send_deletefiles")
         /\ InStep(new, "have_addfiles", "have_deletefiles")
         /\ IdsIn(new, "have_addfiles") = {} /\ IdsIn(new, "have_deletefiles") = {}
         /\ IdsIn(new, "send_deletefiles") = {} /\ IdsIn(new, "send_addfiles") = N
  BY SyncTold
<1>4. /\ DOMAIN list = DOMAIN rows[p]
      /\ \A i \in DOMAIN rows[p] :
            /\ list[i].remote = rows[p][i].remote
            /\ rows[p][i].remote => list[i] = rows[p][i]
  BY RenumberedFacts
<1>5. \A i \in Own(rows[p]) :
         /\ list[i].id \notin Used(q)
         /\ \A j \in Own(rows[p]) : list[i].id = list[j].id => i = j
  BY <1>2, SyncIds
<1>6. /\ rows'[p] = list /\ rows'[q] = rows[q] /\ ~asking'[p] /\ asking'[q] = asking[q]
      /\ counter'[q] = counter[q]
  BY <1>1, <1>2 DEF ListType
<1>7. Sequel(p) /\ Sequel(q) /\ OnePlace(p) /\ OnePlace(q) /\ Matched(p) /\ Matched(q)
  BY <1>1 DEF Fit, Follows
<1>8. Used(p) = {} /\ Coming(p) = {} /\ OnShow(p) = {}
  BY <1>2, Apart, GivenOut
<1>9. N \cap Used(q) = {}
  BY <1>5
<1> HIDE DEF list
<1>10. OnList(p)' = N
  <2>1. \A x : x \in OnList(p)' <=> x \in N
    BY <1>4, <1>6, ListedIs DEF Own
  <2> QED
    BY <2>1
<1>11. OnShow(q)' = OnShow(q)
  <2>1. \A x : x \in OnShow(q)' <=> x \in OnShow(q)
    BY <1>4, <1>6, ShownIs
  <2> QED
    BY <2>1
<1>12. OnList(q)' = OnList(q) /\ OnShow(p)' = OnShow(p)
  BY <1>1, <1>6 DEF OnList, OnShow, Listed, Shows
<1>13. Single(q)'
  <2>1. Single(q)
    BY <1>1 DEF Fit
  <2> QED
    BY <1>6, <2>1 DEF Single
<1>14. Single(p)'
  <2>1. \A i, j \in DOMAIN rows[p] :
           rows[p][i].id = rows[p][j].id /\ rows[p][i].remote /\ rows[p][j].remote => i = j
    BY DEF Fit, Single
  <2>2. \A i \in DOMAIN rows[p] : ~rows[p][i].remote => i \in Own(rows[p])
    BY DEF Own
  <2> SUFFICES ASSUME NEW i \in DOMAIN list, NEW j \in DOMAIN list, list[i].id = list[j].id,
                      list[i].remote = list[j].remote
               PROVE  i = j
    BY <1>6 DEF Single
  <2>3. CASE rows[p][i].remote
    BY <1>4, <2>1, <2>3
  <2>4. CASE ~rows[p][i].remote
    BY <1>4, <1>5, <2>2, <2>4
  <2> QED
    BY <2>3, <2>4
<1> HIDE DEF N
<1>15. Going(p) \subseteq Used(q) /\ Going(q) \subseteq Used(q)
  BY <1>1, <1>7, <1>8 DEF Matched
<1>16. /\ InStep(todo'[p], "send_addfiles", "send_deletefiles")
       /\ InStep(todo'[p], "have_addfiles", "have_deletefiles")
       /\ todo'[q] = todo[q]
       /\ \A op : IdsIn(todo'[p], op) = IdsIn(todo[p], op) \cup IdsIn(new, op)
  <2>1. IdsIn(new, "send_addfiles") \cap (ToAdd(p) \cup ToDrop(p)) = {}
    BY <1>3, <1>8, <1>9, <1>15 DEF Coming, Going
  <2> QED
    BY <1>3, <1>7, <2>1, PublishRows
<1>17. /\ IdsIn(todo'[p], "send_addfiles") = IdsIn(todo[p], "send_addfiles") \cup N
       /\ IdsIn(todo'[p], "send_deletefiles") = IdsIn(todo[p], "send_deletefiles")
       /\ IdsIn(todo'[p], "have_addfiles") = IdsIn(todo[p], "have_addfiles")
       /\ IdsIn(todo'[p], "have_deletefiles") = IdsIn(todo[p], "have_deletefiles")
  BY <1>3, <1>16
<1>18. /\ ToAdd(p)' = ToAdd(p) \cup N /\ AddSent(p)' = AddSent(p) /\ AddDue(p)' = AddDue(p)
       /\ ToDrop(p)' = ToDrop(p) /\ DropSent(p)' = DropSent(p) /\ DropDue(p)' = DropDue(p)
       /\ ToAdd(q)' = ToAdd(q) /\ AddSent(q)' = AddSent(q) /\ AddDue(q)' = AddDue(q)
       /\ ToDrop(q)' = ToDrop(q) /\ DropSent(q)' = DropSent(q) /\ DropDue(q)' = DropDue(q)
  BY <1>1, <1>2, <1>16, <1>17, Places
<1>19. /\ Coming(p)' = N /\ Coming(q)' = Coming(q)
       /\ Going(p)' = Going(p) /\ Going(q)' = Going(q)
       /\ ToAdd(p)' = N /\ AddSent(p)' = {} /\ AddDue(p)' = {}
  BY <1>8, <1>18 DEF Coming, Going
<1>20. Used(q)' = Used(q)
  BY <1>6 DEF Used
<1>21. OnePlace(q)'
  BY <1>7, <1>11, <1>18, <1>19 DEF OnePlace
<1>22. OnePlace(p)'
  <2>1. N \cap DropDue(p) = {} /\ N \cap DropSent(p) = {}
    BY <1>9, <1>15 DEF Going
  <2> QED
    BY <1>8, <1>12, <1>18, <1>19, <2>1 DEF OnePlace
<1>23. Matched(p)'
  <2>1. /\ OnList(p)' \cap Going(p)' = {}
        /\ OnList(p)' \subseteq Going(q)' \cup Coming(p)' \cup OnShow(p)'
        /\ Coming(p)' \cup OnShow(p)' \subseteq Going(p)' \cup OnList(p)'
        /\ Going(q)' \cap (Coming(p)' \cup OnShow(p)') = {}
        /\ Going(p)' \subseteq Used(p)' \cup Used(q)'
    BY <1>8, <1>9, <1>10, <1>12, <1>15, <1>19, <1>20
  <2> QED
    BY <1>1, <2>1 DEF Matched
<1>24. Matched(q)'
  <2>1. /\ ~asking[q] => /\ OnList(q) \cap Going(q) = {}
                         /\ OnList(q) \subseteq Going(p) \cup Coming(q) \cup OnShow(q)
        /\ Coming(q) \cup OnShow(q) \subseteq Going(q) \cup OnList(q)
        /\ Going(p) \cap (Coming(q) \cup OnShow(q)) = {}
    BY <1>1, <1>7 DEF Matched
  <2>2. ~asking'[q] => /\ OnList(q)' \cap Going(q)' = {}
                       /\ OnList(q)' \subseteq Going(p)' \cup Coming(q)' \cup OnShow(q)'
    BY <1>6, <1>11, <1>12, <1>19, <2>1
  <2>3. /\ Coming(q)' \cup OnShow(q)' \subseteq Going(q)' \cup OnList(q)'
        /\ Going(p)' \cap (Coming(q)' \cup OnShow(q)') = {}
        /\ Going(q)' \subseteq Used(q)' \cup Used(p)'
    BY <1>11, <1>12, <1>15, <1>19, <1>20, <2>1
  <2> QED
    BY <1>1, <2>2, <2>3 DEF Matched
<1>25. Sequel(p)' /\ Sequel(q)'
  BY <1>2, <1>7, <1>16 DEF Sequel
<1> QED
  BY <1>1, <1>13, <1>14, <1>21, <1>22, <1>23, <1>24, <1>25 DEF Fit, Follows

\* Nothing is on its way yet, and what is on a list is asked about.
LEMMA ConnectRows ==
    ASSUME ListType, Pristine, Connect
    PROVE  Fit'
<1>1. /\ asking' = [p \in Peers |-> rows[p] # << >>]
      /\ UNCHANGED <<rows, todo, wire>>
  BY DEF Connect
<1>2. ASSUME NEW p \in Peers
      PROVE  /\ Sequel(p)' /\ Single(p)' /\ OnShow(p)' = {}
             /\ ~asking'[p] => OnList(p)' = {}
             /\ Coming(p)' = {} /\ Going(p)' = {}
  <2> DEFINE q == Other(p)
  <2>1. q \in Peers
    BY TwoPeers
  <2>2. /\ todo'[p] = << >> /\ wire'[p] = << >> /\ todo'[q] = << >> /\ wire'[q] = << >>
        /\ \A i \in DOMAIN rows[p] : ~rows[p][i].remote
        /\ \A i \in DOMAIN rows[q] : ~rows[q][i].remote
    BY <1>1, <2>1 DEF Pristine
  <2>3. ~asking'[p] => DOMAIN rows'[p] = {}
    <3>1. asking'[p] \/ rows'[p] = << >>
      BY <1>1
    <3>2. DOMAIN << >> = {}
      OBVIOUS
    <3> QED
      BY <3>1, <3>2
  <2>4. Sequel(p)'
    BY <2>2, NoTask DEF Sequel
  <2>5. Single(p)'
    BY <1>1, <2>2, <2>3 DEF Single
  <2>6. OnShow(p)' = {}
    <3>1. Shows(q)' = {}
      BY <1>1, <2>2 DEF Shows, Remote
    <3> QED
      BY <3>1 DEF OnShow, IdsOf
  <2>7. ~asking'[p] => OnList(p)' = {}
    BY <2>3, ListedIs
  <2>8. /\ \A op : IdsIn(todo'[p], op) = {} /\ IdsIn(todo'[q], op) = {}
        /\ \A op : IdsIn(wire'[p], op) = {} /\ IdsIn(wire'[q], op) = {}
    BY <2>2, NoTask
  <2>9. Coming(p)' = {} /\ Going(p)' = {}
    BY <2>8 DEF Coming, Going, ToAdd, AddSent, AddDue, ToDrop, DropSent, DropDue
  <2> QED
    BY <2>4, <2>5, <2>6, <2>7, <2>9
<1>3. ASSUME NEW p \in Peers
      PROVE  OnePlace(p)' /\ Matched(p)'
  <2>1. Other(p) \in Peers
    BY TwoPeers
  <2>2. Matched(p)'
    BY <1>2, <2>1 DEF Matched
  <2>3. /\ ToAdd(p)' = {} /\ AddSent(p)' = {} /\ AddDue(p)' = {}
        /\ DropSent(p)' = {} /\ DropDue(p)' = {}
    BY <1>2 DEF Coming, Going
  <2>4. OnePlace(p)'
    BY <1>2, <2>3 DEF OnePlace
  <2> QED
    BY <2>2, <2>4
<1> QED
  BY <1>2, <1>3 DEF Fit, Follows

-----------------------------------------------------------------------------
(* What is on the one list is on the other                                 *)

LEMMA MishapsGrow ==
    ASSUME [Next]_vars
    PROVE  mishaps \subseteq mishaps'
<1>1. ASSUME NEW p \in Peers, Run(p)
      PROVE  mishaps \subseteq mishaps'
  BY <1>1 DEF Run, Send, AddRemoteFiles, NotFound, HaveDownLoadRequest,
         OnHaveExpiredFile, RemoveFileById, OnUploadFileProgress, OnDownLoadProgress,
         OnHaveCancelFile, OnHaveFileToSend, OnCancelSendFile, OnCancelUploadFile, Mishap
<1>2. ASSUME NEW p \in Peers, Receive(p) \/ Sender(p) \/ Parse(p) \/ Close(p)
      PROVE  mishaps \subseteq mishaps'
  BY <1>2 DEF Receive, Sender, TakeTask, SendHeader, SendBlock, SendEnd, ReportEnd,
         Parse, ParseHeader, ParseBlock, ParseEnd, Close
<1>3. ASSUME NEW p \in Peers, Window(p)
      PROVE  mishaps \subseteq mishaps'
  BY <1>3 DEF Window, AddFile, DownloadFile, CancelTransit, RemoveFile, DownloadAll,
         SyncCurrentFiles, DeclineSync
<1>4. Connect => mishaps \subseteq mishaps'
  BY DEF Connect
<1>5. UNCHANGED vars => mishaps \subseteq mishaps'
  BY DEF vars
<1> QED
  BY <1>1, <1>2, <1>3, <1>4, <1>5 DEF Next

LEMMA StaysLinked ==
    ASSUME NEW p \in Peers, Run(p) \/ Receive(p) \/ Sender(p) \/ Parse(p) \/ Window(p)
    PROVE  linked' = linked
<1>1. Run(p) => linked' = linked
  BY DEF Run, Send, AddRemoteFiles, NotFound, HaveDownLoadRequest,
         OnHaveExpiredFile, RemoveFileById, OnUploadFileProgress, OnDownLoadProgress,
         OnHaveCancelFile, OnHaveFileToSend, OnCancelSendFile, OnCancelUploadFile
<1>2. Receive(p) \/ Sender(p) \/ Parse(p) => linked' = linked
  BY DEF Receive, Sender, TakeTask, SendHeader, SendBlock, SendEnd, ReportEnd, Parse
<1>3. Window(p) => linked' = linked
  BY DEF Window, AddFile, DownloadFile, CancelTransit, RemoveFile, DownloadAll,
         SyncCurrentFiles, DeclineSync
<1> QED
  BY <1>1, <1>2, <1>3

\* The tasks that move files, each by its handler.
LEMMA MovingTasks ==
    ASSUME NEW p \in Peers, NEW i \in DOMAIN todo[p], Steps(p, i),
           todo[p][i].op \in Moving
    PROVE  \/ Send(p, i) \/ AddRemoteFiles(p, i) \/ RemoveFileById(p, i)
           \/ NotFound(p, i) /\ todo[p][i].op = "have_deletefiles"
BY DEF Steps, Moving, NotFound, Lookups, HaveDownLoadRequest, OnHaveExpiredFile,
       OnUploadFileProgress, OnDownLoadProgress, OnHaveCancelFile, OnHaveFileToSend,
       OnCancelSendFile, OnCancelUploadFile

LEMMA RunRows ==
    ASSUME ListType, First, Open, Counted, Fit, NEW p \in Peers, Run(p),
           mishaps' \cap {"order", "stale", "late"} = {}
    PROVE  Fit'
<1>1. PICK i \in DOMAIN todo[p] : Steps(p, i)
  BY DEF Run, Steps
<1>2. \E more : Mishap(p, i, more)
  BY <1>1 DEF Steps, Send, AddRemoteFiles, NotFound, HaveDownLoadRequest,
         OnHaveExpiredFile, RemoveFileById, OnUploadFileProgress, OnDownLoadProgress,
         OnHaveCancelFile, OnHaveFileToSend, OnCancelSendFile, OnCancelUploadFile
<1>3. Overtaking(p, i) = {} /\ Stale(p, i) = {}
  BY <1>2, InTurn
<1>4. CASE Send(p, i)
  BY <1>3, <1>4, SendRows
<1>5. CASE AddRemoteFiles(p, i)
  BY <1>3, <1>5, AddRemoteRows
<1>6. CASE \/ RemoveFileById(p, i)
           \/ NotFound(p, i) /\ todo[p][i].op = "have_deletefiles"
  BY <1>3, <1>6, DeleteRows
<1>7. CASE todo[p][i].op \notin Moving /\ ~Send(p, i)
  BY <1>1, <1>7, RunQuiet
<1> QED
  BY <1>1, <1>4, <1>5, <1>6, <1>7, MovingTasks

LEMMA WindowRows ==
    ASSUME ListType, ListType', First, First', Open, Counted, Fit, NEW p \in Peers, Window(p)
    PROVE  Fit'
<1>1. ASSUME NEW f \in Files, AddFile(p, f)
      PROVE  Fit'
  <2>1. gestures' = gestures + 1 /\ gestures' <= Top
    BY <1>1 DEF First, AddFile, Gesture
  <2>2. gestures \in Nat /\ Top \in Nat
    BY ListAssumption DEF ListType
  <2>3. gestures < Top
    BY <2>1, <2>2
  <2> QED
    BY <1>1, <2>3, AddFileRows
<1>2. ~DeclineSync(p)
  BY DEF DeclineSync, First
<1> QED
  BY <1>1, <1>2, RemoveFileRows, SyncRows, WindowQuiet DEF Window

\* While both are connected the first session has begun.
LEMMA OpenFirst ==
    ASSUME ListType, IdInv, First, Open
    PROVE  sessions = 1 /\ Counted /\ Agree
<1>1. sessions \in {0, 1}
  BY ListAssumption DEF ListType, First
<1>2. sessions # 0
  BY SomePeer DEF IdInv, Pristine, Open
<1> QED
  BY <1>1, <1>2 DEF IdInv

LEMMA RowsStep ==
    ASSUME ListType, ListType', Shape, IdInv, RowsInv, [Next]_vars
    PROVE  RowsInv'
<1> SUFFICES ASSUME Tidy'
             PROVE  Fit'
  BY DEF RowsInv
<1>1. First /\ First' /\ Open' /\ mishaps' \cap {"order", "stale", "late"} = {}
  BY FirstBack DEF Tidy
<1>2. mishaps \cap {"order", "stale", "late"} = {}
  BY <1>1, MishapsGrow
<1>3. ASSUME Open
      PROVE  Fit /\ Counted
  <2>1. Tidy
    BY <1>1, <1>2, <1>3 DEF Tidy
  <2>2. Fit
    BY <2>1 DEF RowsInv
  <2> QED
    BY <1>1, <1>3, <2>2, OpenFirst
<1>4. ASSUME linked' = linked
      PROVE  Open /\ Fit /\ Counted
  <2>1. Open
    BY <1>1, <1>4 DEF Open
  <2> QED
    BY <1>3, <2>1
<1>5. CASE UNCHANGED vars
  <2>1. linked' = linked /\ UNCHANGED <<rows, todo, wire, asking, counter>>
    BY <1>5 DEF vars, listVars
  <2> QED
    BY <1>4, <2>1, StillRows
<1>6. CASE Connect
  <2>1. sessions \in Nat /\ sessions' = sessions + 1 /\ sessions' <= 1
    BY <1>1, <1>6, ListAssumption DEF ListType, Connect, First
  <2>2. sessions = 0
    BY <2>1
  <2>3. Pristine
    BY <1>1, <2>2 DEF IdInv
  <2> QED
    BY <1>6, <2>3, ConnectRows
<1>7. ASSUME NEW p \in Peers, Run(p)
      PROVE  Fit'
  <2>1. linked' = linked
    BY <1>7, StaysLinked
  <2> QED
    BY <1>1, <1>4, <1>7, <2>1, RunRows
<1>8. ASSUME NEW p \in Peers, Receive(p) \/ Sender(p) \/ Parse(p)
      PROVE  Fit'
  <2>1. linked' = linked
    BY <1>8, StaysLinked
  <2> QED
    BY <1>4, <1>8, <2>1, ReceiveRows, EngineRows
<1>9. ASSUME NEW p \in Peers, Window(p)
      PROVE  Fit'
  <2>1. linked' = linked
    BY <1>9, StaysLinked
  <2> QED
    BY <1>1, <1>4, <1>9, <2>1, WindowRows
<1>10. ASSUME NEW p \in Peers, Close(p)
       PROVE  Fit'
  <2>1. ~linked'[p]
    BY <1>10 DEF Close, ListType
  <2> QED
    BY <1>1, <2>1 DEF Open
<1> QED
  BY <1>5, <1>6, <1>7, <1>8, <1>9, <1>10 DEF Next

LEMMA RowsInit == Init => RowsInv
<1>1. Init => ~Open
  BY SomePeer DEF Init, Open
<1> QED
  BY <1>1 DEF RowsInv, Tidy

\* Where nothing is on its way, the lists show the same.
LEMMA NothingLeft ==
    ASSUME ListType, IdInv, RowsInv, First
    PROVE  SameRows
<1> SUFFICES ASSUME Settled, mishaps \cap {"order", "unsynced", "stale", "late"} = {},
                    NEW p \in Peers, linked[p], ~asking[p]
             PROVE  {<<rows[p][i].id, rows[p][i].file>> : i \in Shown(p, FALSE)} =
                    {<<rows[Other(p)][i].id, rows[Other(p)][i].file>> :
                        i \in Shown(Other(p), TRUE)}
  BY DEF SameRows
<1> DEFINE q == Other(p)
<1>1. q \in Peers /\ Other(q) = p
  BY TwoPeers
<1>2. Open
  BY DEF Settled, Open
<1>3. Tidy
  BY <1>2 DEF Tidy
<1>4. Matched(p) /\ Agree
  BY <1>2, <1>3, OpenFirst DEF RowsInv, Fit, Follows
<1>5. /\ todo[p] = << >> /\ todo[q] = << >> /\ wire[p] = << >> /\ wire[q] = << >>
  BY <1>1, <1>2 DEF Settled, Open
<1>6. Coming(p) = {} /\ Going(p) = {} /\ Going(q) = {}
  <2>1. \A op : IdsIn(<< >>, op) = {}
    BY NoTask
  <2> QED
    BY <1>1, <1>5, <2>1 DEF Coming, Going, ToAdd, AddSent, AddDue, ToDrop, DropSent, DropDue
<1>7. OnList(p) = OnShow(p)
  BY <1>4, <1>6 DEF Matched
<1>8. ASSUME NEW i \in DOMAIN rows[p], ~rows[p][i].remote,
             NEW j \in DOMAIN rows[q], rows[q][j].remote, rows[p][i].id = rows[q][j].id
      PROVE  rows[p][i].file = rows[q][j].file
  <2>1. Pair(rows[p][i]) \in Listed(p) /\ Pair(rows[q][j]) \in Shows(q)
    BY <1>8 DEF Listed, Shows, Own, Remote
  <2>2. Pair(rows[p][i]) \in Known(p) /\ Pair(rows[q][j]) \in Known(p)
    BY <1>2, <2>1 DEF Known, Told
  <2>3. /\ Pair(rows[p][i]).id = rows[p][i].id /\ Pair(rows[p][i]).file = rows[p][i].file
        /\ Pair(rows[q][j]).id = rows[q][j].id /\ Pair(rows[q][j]).file = rows[q][j].file
    BY DEF Pair, Item
  <2> QED
    BY <1>4, <1>8, <2>2, <2>3 DEF Agree
<1>9. ASSUME NEW i \in DOMAIN rows[p], ~rows[p][i].remote
      PROVE  \E j \in DOMAIN rows[q] : rows[q][j].remote /\ rows[q][j].id = rows[p][i].id
  <2>1. rows[p][i].id \in OnShow(p)
    BY <1>7, <1>9, ListedIs
  <2> QED
    BY <1>1, <2>1, ShownIs
<1>10. ASSUME NEW j \in DOMAIN rows[q], rows[q][j].remote
       PROVE  \E i \in DOMAIN rows[p] : ~rows[p][i].remote /\ rows[p][i].id = rows[q][j].id
  <2>1. rows[q][j].id \in OnShow(p)
    BY <1>1, <1>10, ShownIs
  <2> QED
    BY <1>7, <2>1, ListedIs
<1>11. /\ \A i : i \in Shown(p, FALSE) <=> i \in DOMAIN rows[p] /\ ~rows[p][i].remote
       /\ \A j : j \in Shown(q, TRUE) <=> j \in DOMAIN rows[q] /\ rows[q][j].remote
  <2>1. /\ \A i \in DOMAIN rows[p] : rows[p][i].remote \in BOOLEAN
        /\ \A i \in DOMAIN rows[q] : rows[q][i].remote \in BOOLEAN
    BY <1>1, RowIs
  <2> QED
    BY <2>1 DEF Shown
<1>12. ASSUME NEW i \in Shown(p, FALSE)
       PROVE  \E j \in Shown(q, TRUE) :
                 <<rows[p][i].id, rows[p][i].file>> = <<rows[q][j].id, rows[q][j].file>>
  BY <1>8, <1>9, <1>11
<1>13. ASSUME NEW j \in Shown(q, TRUE)
       PROVE  \E i \in Shown(p, FALSE) :
                 <<rows[p][i].id, rows[p][i].file>> = <<rows[q][j].id, rows[q][j].file>>
  <2>1. j \in DOMAIN rows[q] /\ rows[q][j].remote
    BY <1>11
  <2>2. PICK i \in DOMAIN rows[p] : ~rows[p][i].remote /\ rows[p][i].id = rows[q][j].id
    BY <1>10, <2>1
  <2>3. i \in Shown(p, FALSE) /\ rows[p][i].file = rows[q][j].file
    BY <1>8, <1>11, <2>1, <2>2
  <2> QED
    BY <2>2, <2>3
<1> HIDE DEF q
<1>14. \A x : x \in {<<rows[p][i].id, rows[p][i].file>> : i \in Shown(p, FALSE)} <=>
              x \in {<<rows[q][j].id, rows[q][j].file>> : j \in Shown(q, TRUE)}
  BY <1>12, <1>13
<1> QED
  BY <1>14 DEF q

\* While the peers are in their first session, and until a user declines to
\* sync the files that were there before it, a peer whose window does not ask
\* shows exactly the other's files, under their ids, whenever nothing is left
\* to do: also when files were removed by either user while they were being
\* added, asked for, withdrawn or sent (addRemoteFiles, removeFile,
\* removeFileById, syncCurrentFiles).  SameRows leaves out the tasks that
\* overtook an earlier one about the same file and the own row that was found
\* by the id it had before the session.
THEOREM SameRowsAlways == Spec => [](First => SameRows)
<1> DEFINE IInv == ListType /\ Shape /\ IdInv /\ RowsInv
<1>1. Init => IInv
  BY TypeInit, IdInit, RowsInit
<1>2. IInv /\ [Next]_vars => IInv'
  BY TypeStep, ShapeStep, IdStep, RowsStep
<1>3. IInv => (First => SameRows)
  BY NothingLeft
<1> QED
  BY <1>1, <1>2, <1>3, PTL DEF Spec
=============================================================================
