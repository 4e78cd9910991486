---------------------------- MODULE RecoveryProofs ----------------------------
(***************************************************************************)
(* Proofs about Recovery: whatever was acknowledged, and followed no       *)
(* failed append to its log, is in the database when it is open again; no  *)
(* recovery finds damage in a database that was open before, unless an     *)
(* edit was appended to the manifest behind a failed append; and new       *)
(* sequence numbers are above all old ones; for any number of writes,      *)
(* crashes, failures, compactions and repairs.                             *)
(*                                                                         *)
(* The invariant RecInv says of every manifest that a crash may leave      *)
(* behind CURRENT that its tables and the logs it does not count as        *)
(* obsolete hold what must survive (Sound), and what each step of Open, of *)
(* the running database and of RepairDB has achieved so far.  While edits  *)
(* can still reach the manifest (Active), it has the tables of the version *)
(* at least, and exactly these before the first error (BaseInv).           *)
(***************************************************************************)
EXTENDS Recovery, TLAPS, FiniteSetTheorems, SequenceTheorems, NaturalsInduction, WellFoundedInduction

-----------------------------------------------------------------------------
(***************************************************************************)
(* Types.                                                                  *)
(***************************************************************************)

Entries == [id : Nat, seq : Nat]

\* An edit gives all of the numbers, but for the snapshot that may come first.
FullEdits == [add : SUBSET Nat, del : SUBSET Nat, log : Nat, next : Nat, seq : Nat]
Snapshots == [add : SUBSET Nat, del : {{}}, log : {NoFile}, next : {NoFile}, seq : {NoFile}]
Edits == FullEdits \cup Snapshots

ManifestFiles ==
  {f \in [recs : Seq(Edits), synced : Nat] :
     /\ f.synced <= Len(f.recs)
     /\ \A i \in 2..Len(f.recs) : f.recs[i] \in FullEdits}

\* A log has its entries in the order of their sequence numbers.
LogFiles ==
  {f \in [recs : Seq(Entries), synced : Nat] :
     /\ f.synced <= Len(f.recs)
     /\ \A i, j \in 1..Len(f.recs) : i <= j => f.recs[i].seq <= f.recs[j].seq}

Opening == {"replaying", "logged", "written", "synced", "named"}
Repairing == {"repairing", "described", "archived", "installed"}
Resting == {"closed", "corrupt", "unrepaired", "creating", "created", "reading"}

DBs == [next_file : Nat, manifest : Nat \cup {NoFile}, log_number : Nat, seq : Nat,
        version : SUBSET Nat, logfile : Nat \cup {NoFile}, mem : SUBSET Entries,
        imm : SUBSET Entries, replay : SUBSET Nat, pos : Nat, adds : SUBSET Nat,
        max : Nat, bg_error : {"OK", "IOError"}, inputs : SUBSET Nat, torn : BOOLEAN,
        tail : {"whole", "torn", "cut"}]

FileTypes ==
  /\ current \in Nat \cup {NoFile}
  /\ DOMAIN manifests \subseteq Nat /\ manifests \in [DOMAIN manifests -> ManifestFiles]
  /\ DOMAIN logs \subseteq Nat \ {0} /\ logs \in [DOMAIN logs -> LogFiles]
  /\ DOMAIN tables \subseteq Nat /\ tables \in [DOMAIN tables -> SUBSET Entries]

ProcessTypes ==
  /\ pc \in {"open"} \cup Opening \cup Repairing \cup Resting
  /\ db \in DBs
  /\ job \in [stage : {"none", "built", "appended", "synced"}, edit : FullEdits]
  /\ writes \in Nat
  /\ acked \subseteq Entries /\ durable \subseteq acked
  /\ left \in [writes : Nat, crashes : Nat, failures : Nat, compactions : Nat, repairs : Nat]
  /\ pc # "open" => job = NoJob /\ db.inputs = {} /\ db.tail = "whole"
  /\ pc \in Resting => db = Fresh

-----------------------------------------------------------------------------
(***************************************************************************)
(* What the files hold: T are tables, G are logs.                          *)
(***************************************************************************)

In(T, V) == UNION {T[t] : t \in V}

OnDevice(f) == {f.recs[i] : i \in 1..f.synced}
Logged(G, min) == UNION {ToSet(G[n].recs) : n \in {m \in DOMAIN G : m >= min}}
LoggedSafely(G, min) == UNION {OnDevice(G[n]) : n \in {m \in DOMAIN G : m >= min}}

\* The tables V and the logs from min on hold A, and D on the device.
Holds(T, G, V, min, A, D) ==
  /\ A \subseteq In(T, V) \cup Logged(G, min)
  /\ D \subseteq In(T, V) \cup LoggedSafely(G, min)

Numbered(p) == p # <<>> /\ Last(p).next # NoFile

\* A database can be recovered from the manifest p: its tables are there, a
\* file number or sequence number that it gives out is new to them, and it holds
\* what it must.
Sound(p, T, G, A, D) ==
  /\ Applied(p) \subseteq DOMAIN T
  /\ \A t \in Applied(p) : t < Last(p).next
  /\ Last(p).log < Last(p).next
  /\ \A e \in In(T, Applied(p)) : e.seq <= Last(p).seq
  /\ Holds(T, G, Applied(p), Last(p).log, A, D)

-----------------------------------------------------------------------------
(***************************************************************************)
(* The invariant.                                                          *)
(***************************************************************************)

\* A repair finds a largest file number and a largest sequence number.
Bounded ==
  /\ \E b \in Nat : \A n \in DOMAIN logs \cup DOMAIN tables : n <= b
  /\ \E b \in Nat : \A e \in In(tables, DOMAIN tables) \cup Logged(logs, 0) : e.seq <= b

\* What must survive is somewhere, for a repair to find.
Kept == Holds(tables, logs, DOMAIN tables, 0, acked, durable)

\* Whatever a crash may leave of the manifest that CURRENT names.
CurrentInv ==
  pc \notin Repairing \cup {"unrepaired"} =>
    /\ current = NoFile => acked = {} /\ opened = FALSE
    /\ current \in DOMAIN manifests =>
         LET m == manifests[current]
         IN \A p \in Leftovers(m) : Numbered(p) =>
              /\ Sound(p, tables, logs, acked, durable)
              /\ Numbered(m.recs) /\ Last(p).next <= Last(m.recs).next

\* Once the database was open, no crash leaves it without a manifest that can be
\* read, but for damage, and a new manifest never takes the place of the current
\* one.
OpenedInv ==
  /\ opened \in BOOLEAN
  /\ opened = TRUE =>
       /\ pc \notin Repairing \cup {"unrepaired"}
       /\ pc = "corrupt" => damaged
       /\ current \in DOMAIN manifests
       /\ \A p \in Leftovers(manifests[current]) : Numbered(p) /\ current < Last(p).next

FirstEdit == Edit({}, {}, 0, 2, 0)
CreatingInv ==
  /\ pc \in {"creating", "created"} => current = NoFile
  /\ pc = "created" => 1 \in DOMAIN manifests /\ manifests[1] = NewFile(<<FirstEdit>>)

\* No number that the process gives out is taken.
NumbersInv ==
  pc \in Opening \cup {"open"} =>
    /\ current \in DOMAIN manifests =>
         \A p \in Leftovers(manifests[current]) : Numbered(p) => Last(p).next <= db.next_file
    /\ db.manifest \in Nat /\ db.manifest < db.next_file /\ db.log_number < db.next_file
    /\ db.version \cup db.adds \subseteq DOMAIN tables
    /\ \A t \in db.version \cup db.adds : t < db.next_file

\* Recovery has read the logs up to the first that is still to be replayed,
\* and pos records of that one.
ReplayInv ==
  pc = "replaying" =>
    /\ Holds(tables, logs, db.version, db.log_number, acked, durable)
    /\ \A e \in In(tables, db.version) : e.seq <= db.seq
    /\ \A e \in In(tables, db.adds) : e.seq <= db.max
    /\ db.replay \subseteq DOMAIN logs
    /\ \A n \in DOMAIN logs \ db.replay :
         n < db.next_file /\ (n >= db.log_number => ToSet(logs[n].recs) \subseteq In(tables, db.adds))
    /\ db.replay # {} =>
         LET recs == logs[Min(db.replay)].recs
         IN db.pos <= Len(recs) /\ \A i \in 1..db.pos : recs[i] \in In(tables, db.adds)
    /\ db.mem = {} /\ db.imm = {}
    /\ opened = TRUE => current < db.manifest

\* The logs are in tables, and a new log and a new manifest are made.
Snapshot == Edit(db.version, {}, NoFile, NoFile, NoFile)
NewEdit == Edit(db.adds, {}, db.logfile, db.next_file, db.seq)
NewManifest == NewFile(<<Snapshot, NewEdit>>)

RecoveredInv ==
  pc \in {"logged", "written", "synced", "named"} =>
    /\ acked \subseteq In(tables, db.version \cup db.adds)
    /\ \A e \in In(tables, db.version \cup db.adds) : e.seq <= db.seq
    /\ db.logfile \in DOMAIN logs /\ logs[db.logfile] = NewFile(<<>>)
    /\ db.logfile < db.next_file /\ \A n \in DOMAIN logs : n < db.next_file
    /\ db.mem = {} /\ db.imm = {}
    /\ (opened = TRUE /\ pc # "named") => current < db.manifest
    /\ pc # "logged" => db.manifest \in DOMAIN manifests
    /\ pc = "written" => manifests[db.manifest] = NewManifest
    /\ pc \in {"synced", "named"} => manifests[db.manifest] = Synced(NewManifest)
    /\ pc = "named" => current = db.manifest

\* The manifest as the running process sees it, and as it is while an edit is
\* being added to it.
Base ==
  LET recs == manifests[db.manifest].recs
  IN IF job.stage \in {"none", "built"} THEN recs ELSE Front(recs)

\* Behind a failed append to its log, an entry that was not acknowledged may be
\* there or not.
OpenInv ==
  pc = "open" =>
    /\ opened = TRUE /\ current = db.manifest
    /\ db.adds = {} /\ db.inputs \subseteq db.version
    /\ db.tail # "whole" => db.bg_error # "OK"
    /\ db.mem \cap db.imm = {} /\ (db.mem \cup db.imm) \cap In(tables, db.version) = {}
    /\ acked \subseteq Contents
    /\ \A e \in Contents : e.seq <= db.seq
    /\ db.logfile \in DOMAIN logs /\ \A e \in ToSet(logs[db.logfile].recs) : e.seq <= db.seq
    /\ db.mem \cap acked \subseteq ToSet(logs[db.logfile].recs)
    /\ db.mem \cap durable \subseteq OnDevice(logs[db.logfile])
    /\ db.imm \cap acked \subseteq Logged(logs, db.log_number)
    /\ db.imm \cap durable \subseteq LoggedSafely(logs, db.log_number)
    /\ db.log_number <= db.logfile /\ db.logfile < db.next_file
    /\ \A n \in DOMAIN logs : n < db.next_file
    /\ \A p \in Leftovers(manifests[current]) : Last(p).log <= db.logfile /\ Last(p).seq <= db.seq

\* The process may add an edit to the manifest, and it can be read there.
Active == (db.bg_error = "OK" \/ db.inputs # {} \/ job.stage # "none") /\ db.tail # "cut"

\* Before the first error the manifest gives the version; after it, the edit of a
\* flush that failed may be there as well.
BaseInv ==
  (pc = "open" /\ Active) =>
    /\ Base \in Seq(Edits) /\ Numbered(Base) /\ current < Last(Base).next
    /\ db.version \subseteq Applied(Base)
    /\ db.bg_error = "OK" => Applied(Base) = db.version
    /\ LET m == manifests[db.manifest]
       IN /\ job.stage \in {"none", "built"} => m.recs = Base
          /\ job.stage \in {"appended", "synced"} => m.recs = Append(Base, job.edit)
          /\ job.stage = "synced" => m.synced = Len(m.recs)

\* The edit of a flush or of a compaction.
JobInv ==
  (pc = "open" /\ job.stage # "none") =>
    LET e == job.edit
    IN /\ e.add \subseteq DOMAIN tables
       /\ \A t \in e.add : t < e.next
       /\ \A x \in In(tables, e.add) : x.seq <= e.seq
       /\ db.tail # "cut" => Last(Base).next <= e.next /\ Last(Base).seq <= e.seq
       /\ e.next <= db.next_file /\ e.log <= db.logfile /\ e.log < e.next /\ e.seq <= db.seq
       /\ \/ e.del = {} /\ e.log = db.logfile /\ db.imm # {} /\ In(tables, e.add) = db.imm
          \/ e.del # {} /\ e.del = db.inputs /\ e.log = db.log_number
               /\ In(tables, e.add) = In(tables, db.inputs)

RepairInv ==
  pc \in Repairing =>
    /\ \A t \in DOMAIN tables : t < db.next_file
    /\ db.next_file > 0
    /\ db.replay \subseteq DOMAIN logs
    /\ \A n \in (DOMAIN logs \ db.replay) \cup (DOMAIN logs \cap {db.pos}) :
         acked \cap ToSet(logs[n].recs) \subseteq In(tables, DOMAIN tables)
    /\ pc # "repairing" =>
         /\ acked \subseteq In(tables, DOMAIN tables)
         /\ db.adds = DOMAIN tables
         /\ \A e \in In(tables, DOMAIN tables) : e.seq <= db.max
    /\ pc = "installed" =>
         1 \in DOMAIN manifests /\ manifests[1] = NewFile(<<Edit(db.adds, {}, 0, db.next_file, db.max)>>)

RecInv ==
  /\ FileTypes /\ ProcessTypes
  /\ Bounded /\ Kept /\ CurrentInv /\ OpenedInv /\ CreatingInv /\ NumbersInv
  /\ ReplayInv /\ RecoveredInv /\ OpenInv /\ BaseInv /\ JobInv /\ RepairInv
-----------------------------------------------------------------------------
\* The smallest of some numbers, and the largest of some that have a bound.
LEMMA MinIsIn ==
  ASSUME NEW S \in SUBSET Nat, NEW k \in S
  PROVE  Min(S) \in S /\ \A n \in S : Min(S) <= n
<1>1. PICK x \in S : \A y \in S : ~(<<y, x>> \in OpToRel(<, Nat))
  BY NatLessThanWellFounded, WFMin
<1>2. \A y \in S : x <= y
  <2> TAKE y \in S
  <2>1. x \in Nat /\ y \in Nat
    OBVIOUS
  <2>2. y < x => <<y, x>> \in OpToRel(<, Nat)
    BY <2>1 DEF OpToRel
  <2>3. ~(y < x)
    BY <1>1, <2>2, Zenon
  <2> QED  BY <2>1, <2>3
<1> QED  BY <1>2 DEF Min

LEMMA MaxIsIn ==
  ASSUME NEW S \in SUBSET Nat, NEW k \in S, NEW b \in Nat, \A n \in S : n <= b
  PROVE  Max(S) \in S /\ \A n \in S : Max(S) >= n
<1> DEFINE above == {c \in Nat : \A n \in S : n <= c}
<1>1. b \in above /\ above \subseteq Nat
  OBVIOUS
<1>2. PICK x \in above : \A y \in above : x <= y
  BY <1>1, MinIsIn
<1>3. x \in S
  <2> SUFFICES ASSUME x \notin S PROVE FALSE
    OBVIOUS
  <2>1. \A n \in S : n <= x - 1
    BY <1>2
  <2>2. x - 1 \in above
    BY <2>1, <1>2
  <2> QED  BY <2>2, <1>2
<1>4. \A n \in S : x >= n
  BY <1>2
<1> QED  BY <1>3, <1>4 DEF Max

-----------------------------------------------------------------------------
(***************************************************************************)
(* What a crash leaves of a file.                                          *)
(***************************************************************************)

\* A file may survive as a whole.
LEMMA LeftoverWhole ==
  ASSUME NEW S, NEW f \in [recs : Seq(S), synced : Nat], f.synced <= Len(f.recs)
  PROVE  f.recs \in Leftovers(f) /\ Leftovers(f) \subseteq Seq(S)
<1>1. SubSeq(f.recs, 1, Len(f.recs)) = f.recs
  BY SubSeqFull
<1>2. \A n \in f.synced..Len(f.recs) : SubSeq(f.recs, 1, n) \in Seq(S)
  <2> TAKE n \in f.synced..Len(f.recs)
  <2>1. \A i \in 1..n : f.recs[i] \in S
    OBVIOUS
  <2> QED  BY <2>1, SubSeqProperties
<1> QED  BY <1>1, <1>2 DEF Leftovers

\* A synced file survives as it is.
LEMMA LeftoverSynced ==
  ASSUME NEW S, NEW f \in [recs : Seq(S), synced : Nat], f.synced = Len(f.recs)
  PROVE  Leftovers(f) = {f.recs}
<1>1. SubSeq(f.recs, 1, Len(f.recs)) = f.recs
  BY SubSeqFull
<1>2. f.synced..Len(f.recs) = {Len(f.recs)}
  OBVIOUS
<1> QED  BY <1>1, <1>2 DEF Leftovers

LEMMA SyncedFile ==
  ASSUME NEW S, NEW f \in [recs : Seq(S), synced : Nat]
  PROVE  /\ Synced(f) \in [recs : Seq(S), synced : Nat]
         /\ Synced(f).recs = f.recs /\ Synced(f).synced = Len(f.recs)
         /\ Leftovers(Synced(f)) = {f.recs}
<1>1. /\ Synced(f) \in [recs : Seq(S), synced : Nat]
      /\ Synced(f).recs = f.recs /\ Synced(f).synced = Len(f.recs)
  BY DEF Synced
<1> QED  BY <1>1, LeftoverSynced

\* A record that was appended survives or not.
LEMMA AppendedFile ==
  ASSUME NEW S, NEW f \in [recs : Seq(S), synced : Nat], f.synced <= Len(f.recs), NEW e \in S
  PROVE  /\ Appended(f, e) \in [recs : Seq(S), synced : Nat]
         /\ Appended(f, e).recs = Append(f.recs, e) /\ Appended(f, e).synced = f.synced
         /\ Leftovers(Appended(f, e)) = Leftovers(f) \cup {Append(f.recs, e)}
<1> DEFINE g == Appended(f, e)
<1>1. g \in [recs : Seq(S), synced : Nat] /\ g.recs = Append(f.recs, e) /\ g.synced = f.synced
  BY DEF Appended
<1>2. Len(g.recs) = Len(f.recs) + 1 /\ Append(f.recs, e) \in Seq(S)
  BY <1>1
<1>3. SubSeq(g.recs, 1, Len(f.recs) + 1) = Append(f.recs, e)
  BY <1>1, <1>2, SubSeqFull
<1>4. \A n \in f.synced..Len(f.recs) : SubSeq(g.recs, 1, n) = SubSeq(f.recs, 1, n)
  <2> TAKE n \in f.synced..Len(f.recs)
  <2>1. \A i \in 1..n : f.recs[i] \in S /\ Append(f.recs, e)[i] = f.recs[i]
    OBVIOUS
  <2>2. /\ SubSeq(f.recs, 1, n) \in Seq(S) /\ Len(SubSeq(f.recs, 1, n)) = n
        /\ \A i \in 1..n : SubSeq(f.recs, 1, n)[i] = f.recs[i]
    BY <2>1, SubSeqProperties
  <2>3. /\ SubSeq(g.recs, 1, n) \in Seq(S) /\ Len(SubSeq(g.recs, 1, n)) = n
        /\ \A i \in 1..n : SubSeq(g.recs, 1, n)[i] = f.recs[i]
    BY <2>1, <1>1, SubSeqProperties
  <2> QED  BY <2>2, <2>3, SeqEqual
<1>5. f.synced..Len(g.recs) = (f.synced..Len(f.recs)) \cup {Len(f.recs) + 1}
  BY <1>2
<1>6. Leftovers(g) = {SubSeq(g.recs, 1, n) : n \in f.synced..Len(g.recs)}
  BY <1>1 DEF Leftovers
<1>7. Leftovers(f) = {SubSeq(f.recs, 1, n) : n \in f.synced..Len(f.recs)}
  BY DEF Leftovers
<1> HIDE DEF g
<1>8. Leftovers(g) = Leftovers(f) \cup {Append(f.recs, e)}
  <2> DEFINE I == f.synced..Len(f.recs)
             k == Len(f.recs) + 1
  <2>1. Leftovers(g) = {SubSeq(g.recs, 1, n) : n \in I \cup {k}}
    BY <1>5, <1>6
  <2>2. Leftovers(f) = {SubSeq(f.recs, 1, n) : n \in I}
    BY <1>7
  <2>3. (\A n \in I : SubSeq(g.recs, 1, n) = SubSeq(f.recs, 1, n)) /\ SubSeq(g.recs, 1, k) = Append(f.recs, e)
    BY <1>3, <1>4
  <2> HIDE DEF I, k
  <2> QED  BY <2>1, <2>2, <2>3
<1> QED  BY <1>1, <1>8 DEF g

LEMMA AppendToOne ==
  ASSUME NEW S, NEW a \in S, NEW b \in S
  PROVE  Append(<<a>>, b) = <<a, b>>
<1>1. <<a>> \in Seq(S) /\ <<a, b>> \in Seq(S) /\ Len(<<a>>) = 1 /\ Len(<<a, b>>) = 2
  OBVIOUS
<1>2. Append(<<a>>, b) \in Seq(S) /\ Len(Append(<<a>>, b)) = 2
  BY <1>1
<1>3. \A i \in 1..2 : Append(<<a>>, b)[i] = <<a, b>>[i]
  <2> SUFFICES Append(<<a>>, b)[1] = a /\ Append(<<a>>, b)[2] = b
    OBVIOUS
  <2> QED  BY <1>1
<1> QED  BY <1>1, <1>2, <1>3, SeqEqual

\* A new file, of which nothing is synced.
LEMMA NewFileOne ==
  ASSUME NEW S, NEW a \in S
  PROVE  /\ NewFile(<<a>>) \in [recs : Seq(S), synced : Nat]
         /\ NewFile(<<a>>).recs = <<a>> /\ NewFile(<<a>>).synced = 0
         /\ Leftovers(NewFile(<<a>>)) = {<<>>, <<a>>}
<1> DEFINE f == NewFile(<<>>)
<1>1. f \in [recs : Seq(S), synced : Nat] /\ f.synced <= Len(f.recs) /\ f.recs = <<>> /\ f.synced = Len(f.recs)
  BY DEF NewFile
<1>2. Leftovers(f) = {<<>>}
  BY <1>1, LeftoverSynced
<1>3. NewFile(<<a>>) = Appended(f, a) /\ Append(<<>>, a) = <<a>>
  BY DEF NewFile, Appended
<1> HIDE DEF f
<1> QED  BY <1>1, <1>2, <1>3, AppendedFile

LEMMA NewFileTwo ==
  ASSUME NEW S, NEW a \in S, NEW b \in S
  PROVE  /\ NewFile(<<a, b>>) \in [recs : Seq(S), synced : Nat]
         /\ NewFile(<<a, b>>).recs = <<a, b>> /\ NewFile(<<a, b>>).synced = 0
         /\ Leftovers(NewFile(<<a, b>>)) = {<<>>, <<a>>, <<a, b>>}
<1> DEFINE f == NewFile(<<a>>)
<1>1. f \in [recs : Seq(S), synced : Nat] /\ f.recs = <<a>> /\ f.synced = 0 /\ Leftovers(f) = {<<>>, <<a>>}
  BY NewFileOne
<1>2. f.synced <= Len(f.recs) /\ Append(<<a>>, b) = <<a, b>>
  <2>1. f.synced <= Len(f.recs)
    BY <1>1
  <2> QED  BY <2>1, AppendToOne
<1>3. NewFile(<<a, b>>) = Appended(f, b)
  BY <1>2 DEF NewFile, Appended
<1> HIDE DEF f
<1>4. /\ Appended(f, b) \in [recs : Seq(S), synced : Nat]
      /\ Appended(f, b).recs = Append(f.recs, b) /\ Appended(f, b).synced = f.synced
      /\ Leftovers(Appended(f, b)) = Leftovers(f) \cup {Append(f.recs, b)}
  <2>1. f \in [recs : Seq(S), synced : Nat]
    BY <1>1
  <2>2. f.synced <= Len(f.recs)
    BY <1>2
  <2> QED  BY <2>1, <2>2, AppendedFile
<1>5. Leftovers(NewFile(<<a, b>>)) = {<<>>, <<a>>} \cup {<<a, b>>}
  BY <1>1, <1>2, <1>3, <1>4
<1>6. NewFile(<<a, b>>).recs = <<a, b>> /\ NewFile(<<a, b>>).synced = 0
  BY <1>1, <1>2, <1>3, <1>4
<1> QED  BY <1>3, <1>4, <1>5, <1>6

LEMMA EmptyFile ==
  ASSUME NEW S
  PROVE  /\ NewFile(<<>>) \in [recs : Seq(S), synced : Nat]
         /\ NewFile(<<>>).recs = <<>> /\ NewFile(<<>>).synced = 0
         /\ ToSet(NewFile(<<>>).recs) = {} /\ OnDevice(NewFile(<<>>)) = {}
BY DEF NewFile, ToSet, OnDevice

\* A file that survived a crash is on the device.
LEMMA SurvivingFile ==
  ASSUME NEW S, NEW f \in [recs : Seq(S), synced : Nat], f.synced <= Len(f.recs), NEW g \in Survivors(f)
  PROVE  /\ g \in [recs : Seq(S), synced : Nat]
         /\ g.recs \in Leftovers(f) /\ g.synced = Len(g.recs)
         /\ Leftovers(g) = {g.recs}
         /\ f.synced <= Len(g.recs) /\ Len(g.recs) <= Len(f.recs)
         /\ \A i \in 1..Len(g.recs) : g.recs[i] = f.recs[i]
<1>1. PICK n \in f.synced..Len(f.recs) : g = Synced(NewFile(SubSeq(f.recs, 1, n)))
  BY DEF Survivors, Leftovers
<1> DEFINE p == SubSeq(f.recs, 1, n)
<1>2. \A i \in 1..n : f.recs[i] \in S
  OBVIOUS
<1>3. p \in Seq(S) /\ Len(p) = n /\ \A i \in 1..n : p[i] = f.recs[i]
  BY <1>2, SubSeqProperties
<1>4. p \in Leftovers(f)
  BY DEF Leftovers
<1>5. g = Synced(NewFile(p))
  BY <1>1
<1> HIDE DEF p
<1>6. NewFile(p) \in [recs : Seq(S), synced : Nat] /\ NewFile(p).recs = p
  BY <1>3 DEF NewFile
<1> HIDE DEF NewFile
<1>7. g \in [recs : Seq(S), synced : Nat] /\ g.recs = p /\ g.synced = Len(p) /\ Leftovers(g) = {p}
  BY <1>5, <1>6, SyncedFile
<1> QED  BY <1>3, <1>4, <1>7
-----------------------------------------------------------------------------
(***************************************************************************)
(* What a manifest says.                                                   *)
(***************************************************************************)

\* The last edit counts, if it gives the number.
LEMMA LastGivenLast ==
  ASSUME NEW k \in Nat \ {0}, NEW numbers, DOMAIN numbers = 1..k, numbers[k] # NoFile
  PROVE  LastGiven(numbers) = numbers[k]
<1> DEFINE given == {i \in DOMAIN numbers : numbers[i] # NoFile}
<1>1. given \subseteq 1..k /\ k \in given
  OBVIOUS
<1> HIDE DEF given
<1>2. Max(given) = k
  <2>1. \A x \in given : (\A y \in given : x >= y) => x = k
    BY <1>1
  <2>2. \A y \in given : k >= y
    BY <1>1
  <2> QED  BY <1>1, <2>1, <2>2 DEF Max
<1> QED  BY <1>1, <1>2 DEF LastGiven, given

LEMMA LastGivenNone ==
  ASSUME NEW numbers, \A i \in DOMAIN numbers : numbers[i] = NoFile
  PROVE  LastGiven(numbers) = NoFile
BY DEF LastGiven

\* What recovery reads from a manifest whose last edit gives the numbers, and
\* that it reads nothing from one that was cut before.
LEMMA NumbersRead ==
  ASSUME NEW p \in Seq(Edits), Numbered(p)
  PROVE  /\ Len(p) > 0 /\ Last(p) \in FullEdits
         /\ NextFile(p) = Last(p).next /\ LogNumber(p) = Last(p).log
         /\ LastSequence(p) = Last(p).seq
<1>1. Len(p) \in Nat \ {0} /\ Last(p) = p[Len(p)] /\ p[Len(p)] \in Edits /\ DOMAIN p = 1..Len(p)
  BY DEF Numbered, Last
<1>2. Last(p) \in FullEdits
  BY <1>1 DEF Numbered, Edits, Snapshots
<1>3. Last(p).next \in Nat /\ Last(p).log \in Nat /\ Last(p).seq \in Nat
  BY <1>2 DEF FullEdits
<1>4. \A n \in Nat : n # NoFile
  BY RecoveryAssumption
<1> DEFINE next == [i \in DOMAIN p |-> p[i].next]
           log == [i \in DOMAIN p |-> p[i].log]
           seq == [i \in DOMAIN p |-> p[i].seq]
<1>5. /\ DOMAIN next = 1..Len(p) /\ next[Len(p)] = Last(p).next
      /\ DOMAIN log = 1..Len(p) /\ log[Len(p)] = Last(p).log
      /\ DOMAIN seq = 1..Len(p) /\ seq[Len(p)] = Last(p).seq
  BY <1>1
<1>6. NextFile(p) = LastGiven(next) /\ LogNumber(p) = LastGiven(log) /\ LastSequence(p) = LastGiven(seq)
  BY DEF NextFile, LogNumber, LastSequence
<1> HIDE DEF next, log, seq
<1>7. LastGiven(next) = Last(p).next
  BY <1>1, <1>3, <1>4, <1>5, LastGivenLast
<1>8. LastGiven(log) = Last(p).log
  BY <1>1, <1>3, <1>4, <1>5, LastGivenLast
<1>9. LastGiven(seq) = Last(p).seq
  BY <1>1, <1>3, <1>4, <1>5, LastGivenLast
<1> QED  BY <1>1, <1>2, <1>6, <1>7, <1>8, <1>9

LEMMA NothingRead ==
  ASSUME NEW f \in ManifestFiles, ~Numbered(f.recs)
  PROVE  NextFile(f.recs) = NoFile
<1> DEFINE p == f.recs
           next == [i \in DOMAIN p |-> p[i].next]
<1>1. p \in Seq(Edits) /\ (\A i \in 2..Len(p) : p[i] \in FullEdits) /\ DOMAIN p = 1..Len(p) /\ Len(p) \in Nat
  BY DEF ManifestFiles
<1>2. \A n \in Nat : n # NoFile
  BY RecoveryAssumption
<1> HIDE DEF p
<1>3. Len(p) <= 1
  <2> SUFFICES ASSUME Len(p) > 1 PROVE FALSE
    BY <1>1
  <2>1. p[Len(p)].next \in Nat /\ p # <<>>
    BY <1>1 DEF FullEdits
  <2> QED  BY <2>1, <1>2 DEF Numbered, Last, p
<1>4. \A i \in DOMAIN p : p[i].next = NoFile
  <2> TAKE i \in DOMAIN p
  <2>1. Len(p) = 1 /\ i = 1 /\ p # <<>>
    BY <1>1, <1>3
  <2> QED  BY <2>1 DEF Numbered, Last, p
<1>5. LastGiven(next) = NoFile
  BY <1>4, LastGivenNone
<1> QED  BY <1>5 DEF NextFile, p

LEMMA EmptyRead == NextFile(<<>>) = NoFile
<1>1. \A i \in DOMAIN [j \in DOMAIN <<>> |-> <<>>[j].next] : FALSE
  OBVIOUS
<1> QED  BY <1>1, LastGivenNone DEF NextFile

\* An edit more.
LEMMA AppliedAppend ==
  ASSUME NEW p \in Seq(Edits), NEW e \in Edits
  PROVE  /\ Applied(Append(p, e)) = (Applied(p) \ e.del) \cup e.add
         /\ Last(Append(p, e)) = e /\ Append(p, e) # <<>> /\ Append(p, e) \in Seq(Edits)
         /\ Front(Append(p, e)) = p
<1> DEFINE q == Append(p, e)
           k == Len(p)
<1>1. /\ q \in Seq(Edits) /\ Len(q) = k + 1 /\ k \in Nat /\ DOMAIN p = 1..k /\ DOMAIN q = 1..(k + 1)
      /\ q[k + 1] = e /\ \A i \in 1..k : q[i] = p[i]
  OBVIOUS
<1>2. Len(p) = k /\ Last(q) = e /\ q # <<>>
  BY <1>1 DEF Last
<1>3. Front(q) = p
  <2>1. \A i \in 1..k : q[i] \in Edits
    BY <1>1
  <2>2. SubSeq(q, 1, k) \in Seq(Edits) /\ Len(SubSeq(q, 1, k)) = k /\ \A i \in 1..k : SubSeq(q, 1, k)[i] = p[i]
    BY <1>1, <2>1, SubSeqProperties
  <2>3. SubSeq(q, 1, k) = p
    BY <2>2, SeqEqual
  <2> QED  BY <1>1, <2>3 DEF Front
<1> HIDE DEF q, k
<1>4. \A t : t \in Applied(p) <=> \E i \in 1..k : t \in p[i].add /\ \A j \in (i + 1)..k : t \notin p[j].del
  BY <1>1, <1>2 DEF Applied, ToSet
<1>5. \A t : t \in Applied(q) <=>
         \E i \in 1..(k + 1) : t \in q[i].add /\ \A j \in (i + 1)..(k + 1) : t \notin q[j].del
  BY <1>1 DEF Applied, ToSet
<1>6. ASSUME NEW t PROVE t \in Applied(q) <=> t \in (Applied(p) \ e.del) \cup e.add
  <2>1. ASSUME t \in Applied(q) PROVE t \in (Applied(p) \ e.del) \cup e.add
    <3>1. PICK i \in 1..(k + 1) : t \in q[i].add /\ \A j \in (i + 1)..(k + 1) : t \notin q[j].del
      BY <1>5, <2>1
    <3>2. CASE i = k + 1
      BY <3>1, <3>2, <1>1
    <3>3. CASE i # k + 1
      <4>1. i \in 1..k /\ k + 1 \in (i + 1)..(k + 1)
        BY <3>3, <1>1
      <4>2. t \in p[i].add /\ t \notin e.del
        BY <4>1, <3>1, <1>1
      <4>3. \A j \in (i + 1)..k : j \in (i + 1)..(k + 1) /\ q[j] = p[j]
        BY <4>1, <1>1
      <4> QED  BY <4>1, <4>2, <4>3, <3>1, <1>4
    <3> QED  BY <3>2, <3>3
  <2>2. ASSUME t \in e.add PROVE t \in Applied(q)
    <3>1. k + 1 \in 1..(k + 1) /\ \A j \in (k + 1 + 1)..(k + 1) : FALSE
      BY <1>1
    <3> QED  BY <2>2, <3>1, <1>1, <1>5
  <2>3. ASSUME t \in Applied(p), t \notin e.del PROVE t \in Applied(q)
    <3>1. PICK i \in 1..k : t \in p[i].add /\ \A j \in (i + 1)..k : t \notin p[j].del
      BY <2>3, <1>4
    <3>2. i \in 1..(k + 1) /\ t \in q[i].add
      BY <3>1, <1>1
    <3>3. \A j \in (i + 1)..(k + 1) : t \notin q[j].del
      <4> TAKE j \in (i + 1)..(k + 1)
      <4>1. CASE j = k + 1
        BY <4>1, <2>3, <1>1
      <4>2. CASE j # k + 1
        <5>1. j \in (i + 1)..k /\ j \in 1..k
          BY <4>2, <1>1
        <5> QED  BY <5>1, <3>1, <1>1
      <4> QED  BY <4>1, <4>2
    <3> QED  BY <3>2, <3>3, <1>5
  <2> QED  BY <2>1, <2>2, <2>3
<1>7. Applied(q) = (Applied(p) \ e.del) \cup e.add
  BY <1>6
<1> QED  BY <1>1, <1>2, <1>3, <1>7 DEF q

\* The manifests of one and of two edits.
LEMMA AppliedOne ==
  ASSUME NEW a \in Edits
  PROVE  Applied(<<a>>) = a.add /\ <<a>> \in Seq(Edits) /\ Last(<<a>>) = a /\ <<a>> # <<>>
<1>1. <<>> \in Seq(Edits) /\ Append(<<>>, a) = <<a>>
  OBVIOUS
<1>2. Applied(<<>>) = {}
  BY DEF Applied, ToSet
<1> QED  BY <1>1, <1>2, AppliedAppend

LEMMA AppliedTwo ==
  ASSUME NEW a \in Edits, NEW b \in Edits, b.del = {}
  PROVE  /\ Applied(<<a, b>>) = a.add \cup b.add
         /\ <<a, b>> \in Seq(Edits) /\ Last(<<a, b>>) = b /\ <<a, b>> # <<>>
<1>1. <<a>> \in Seq(Edits) /\ Applied(<<a>>) = a.add
  BY AppliedOne
<1>2. Append(<<a>>, b) = <<a, b>>
  BY AppendToOne
<1>3. /\ Applied(Append(<<a>>, b)) = (Applied(<<a>>) \ b.del) \cup b.add
      /\ Last(Append(<<a>>, b)) = b /\ Append(<<a>>, b) # <<>> /\ Append(<<a>>, b) \in Seq(Edits)
  BY <1>1, AppliedAppend
<1>4. (Applied(<<a>>) \ b.del) \cup b.add = a.add \cup b.add
  BY <1>1
<1> QED  BY <1>2, <1>3, <1>4, Zenon
-----------------------------------------------------------------------------
(***************************************************************************)
(* What tables and logs hold, as they change.                              *)
(***************************************************************************)

LEMMA InTables == ASSUME NEW T, NEW V, NEW e PROVE e \in In(T, V) <=> \E t \in V : e \in T[t]
BY DEF In

LEMMA InLogs ==
  ASSUME NEW G, NEW min, NEW e
  PROVE  /\ e \in Logged(G, min) <=> \E n \in DOMAIN G : n >= min /\ e \in ToSet(G[n].recs)
         /\ e \in LoggedSafely(G, min) <=> \E n \in DOMAIN G : n >= min /\ e \in OnDevice(G[n])
BY DEF Logged, LoggedSafely

\* Tables that stay, and logs that only grow.
SameTables(T, T2, V) == \A t \in V : t \in DOMAIN T2 /\ T2[t] = T[t]
MoreLogged(G, G2, min) ==
  \A n \in DOMAIN G : n >= min =>
    n \in DOMAIN G2 /\ ToSet(G[n].recs) \subseteq ToSet(G2[n].recs) /\ OnDevice(G[n]) \subseteq OnDevice(G2[n])

LEMMA SameIn == ASSUME NEW T, NEW T2, NEW V, SameTables(T, T2, V) PROVE In(T2, V) = In(T, V)
BY DEF SameTables, In

LEMMA InMonotone == ASSUME NEW T, NEW V, NEW W, V \subseteq W PROVE In(T, V) \subseteq In(T, W)
BY DEF In

LEMMA InUnion == ASSUME NEW T, NEW V, NEW W PROVE In(T, V \cup W) = In(T, V) \cup In(T, W)
BY DEF In

LEMMA MoreIn ==
  ASSUME NEW G, NEW G2, NEW min, MoreLogged(G, G2, min)
  PROVE  Logged(G, min) \subseteq Logged(G2, min) /\ LoggedSafely(G, min) \subseteq LoggedSafely(G2, min)
<1>1. ASSUME NEW e \in Logged(G, min) PROVE e \in Logged(G2, min)
  BY InLogs DEF MoreLogged
<1>2. ASSUME NEW e \in LoggedSafely(G, min) PROVE e \in LoggedSafely(G2, min)
  BY InLogs DEF MoreLogged
<1> QED  BY <1>1, <1>2

LEMMA HoldsStays ==
  ASSUME NEW T, NEW T2, NEW G, NEW G2, NEW V, NEW min, NEW A, NEW A2, NEW D, NEW D2,
         Holds(T, G, V, min, A, D), SameTables(T, T2, V), MoreLogged(G, G2, min),
         A2 \subseteq A \cup In(T2, V) \cup Logged(G2, min),
         D2 \subseteq D \cup In(T2, V) \cup LoggedSafely(G2, min)
  PROVE  Holds(T2, G2, V, min, A2, D2)
<1>1. In(T2, V) = In(T, V)
  BY SameIn
<1>2. Logged(G, min) \subseteq Logged(G2, min) /\ LoggedSafely(G, min) \subseteq LoggedSafely(G2, min)
  BY MoreIn
<1> QED  BY <1>1, <1>2 DEF Holds

\* More tables and more logs hold it too.
LEMMA HoldsMore ==
  ASSUME NEW T, NEW G, NEW V, NEW W, NEW min \in Nat, NEW A, NEW D, DOMAIN G \subseteq Nat,
         Holds(T, G, V, min, A, D), V \subseteq W
  PROVE  Holds(T, G, W, 0, A, D)
<1>1. In(T, V) \subseteq In(T, W)
  BY InMonotone
<1>2. Logged(G, min) \subseteq Logged(G, 0) /\ LoggedSafely(G, min) \subseteq LoggedSafely(G, 0)
  BY DEF Logged, LoggedSafely
<1> QED  BY <1>1, <1>2 DEF Holds

\* A manifest stays sound while its tables and logs stay, if what must survive
\* is that or new entries that are in its logs or tables.
LEMMA SoundStays ==
  ASSUME NEW p, NEW T, NEW T2, NEW G, NEW G2, NEW A, NEW A2, NEW D, NEW D2,
         Sound(p, T, G, A, D),
         SameTables(T, T2, Applied(p)), MoreLogged(G, G2, Last(p).log),
         A2 \subseteq A \cup In(T2, Applied(p)) \cup Logged(G2, Last(p).log),
         D2 \subseteq D \cup In(T2, Applied(p)) \cup LoggedSafely(G2, Last(p).log)
  PROVE  Sound(p, T2, G2, A2, D2)
<1>1. In(T2, Applied(p)) = In(T, Applied(p))
  BY SameIn
<1>2. Applied(p) \subseteq DOMAIN T2
  BY DEF SameTables
<1>3. Holds(T2, G2, Applied(p), Last(p).log, A2, D2)
  BY HoldsStays DEF Sound
<1> QED  BY <1>1, <1>2, <1>3 DEF Sound

\* What is on the device survives a machine that stops.
LEMMA TornLogs ==
  ASSUME NEW G, DOMAIN G \subseteq Nat, G \in [DOMAIN G -> LogFiles], NEW G2 \in Torn(G)
  PROVE  /\ DOMAIN G2 = DOMAIN G /\ G2 \in [DOMAIN G -> LogFiles]
         /\ \A n \in DOMAIN G : /\ OnDevice(G[n]) \subseteq OnDevice(G2[n])
                                /\ OnDevice(G2[n]) = ToSet(G2[n].recs)
                                /\ ToSet(G2[n].recs) \subseteq ToSet(G[n].recs)
<1>1. DOMAIN G2 = DOMAIN G /\ \A n \in DOMAIN G : G2[n] \in Survivors(G[n])
  BY DEF Torn
<1>2. ASSUME NEW n \in DOMAIN G
      PROVE  /\ G2[n] \in LogFiles /\ OnDevice(G[n]) \subseteq OnDevice(G2[n])
             /\ OnDevice(G2[n]) = ToSet(G2[n].recs) /\ ToSet(G2[n].recs) \subseteq ToSet(G[n].recs)
  <2> DEFINE f == G[n]
             g == G2[n]
  <2>1. f \in [recs : Seq(Entries), synced : Nat] /\ f.synced <= Len(f.recs)
        /\ \A i, j \in 1..Len(f.recs) : i <= j => f.recs[i].seq <= f.recs[j].seq
    BY DEF LogFiles
  <2>2. g \in Survivors(f)
    BY <1>1
  <2> HIDE DEF f, g
  <2>3. /\ g \in [recs : Seq(Entries), synced : Nat] /\ g.synced = Len(g.recs)
        /\ f.synced <= Len(g.recs) /\ Len(g.recs) <= Len(f.recs)
        /\ \A i \in 1..Len(g.recs) : g.recs[i] = f.recs[i]
    BY <2>1, <2>2, SurvivingFile
  <2>4. Len(g.recs) \in Nat /\ Len(f.recs) \in Nat /\ DOMAIN g.recs = 1..Len(g.recs) /\ DOMAIN f.recs = 1..Len(f.recs)
    BY <2>1, <2>3
  <2>5. \A i, j \in 1..Len(g.recs) : i <= j => g.recs[i].seq <= g.recs[j].seq
    BY <2>1, <2>3, <2>4
  <2>6. g \in LogFiles
    BY <2>3, <2>4, <2>5 DEF LogFiles
  <2>7. OnDevice(f) \subseteq OnDevice(g)
    <3> SUFFICES ASSUME NEW i \in 1..f.synced PROVE f.recs[i] \in OnDevice(g)
      BY DEF OnDevice
    <3>1. i \in 1..Len(g.recs)
      BY <2>1, <2>3, <2>4
    <3> QED  BY <3>1, <2>3 DEF OnDevice
  <2>8. OnDevice(g) = ToSet(g.recs)
    BY <2>3, <2>4 DEF OnDevice, ToSet
  <2>9. ToSet(g.recs) \subseteq ToSet(f.recs)
    <3> SUFFICES ASSUME NEW i \in 1..Len(g.recs) PROVE g.recs[i] \in ToSet(f.recs)
      BY <2>4 DEF ToSet
    <3>1. i \in 1..Len(f.recs)
      BY <2>3, <2>4
    <3> QED  BY <3>1, <2>3, <2>4 DEF ToSet
  <2> QED  BY <2>6, <2>7, <2>8, <2>9 DEF f, g
<1>3. G2 \in [DOMAIN G -> LogFiles]
  <2>1. G2 \in [DOMAIN G -> UNION {Survivors(G[n]) : n \in DOMAIN G}]
    BY DEF Torn
  <2> QED  BY <2>1, <1>2
<1> QED  BY <1>1, <1>2, <1>3

LEMMA TornManifests ==
  ASSUME NEW M, DOMAIN M \subseteq Nat, M \in [DOMAIN M -> ManifestFiles], NEW M2 \in Torn(M)
  PROVE  /\ DOMAIN M2 = DOMAIN M /\ M2 \in [DOMAIN M -> ManifestFiles]
         /\ \A n \in DOMAIN M : M2[n].recs \in Leftovers(M[n]) /\ Leftovers(M2[n]) = {M2[n].recs}
<1>1. DOMAIN M2 = DOMAIN M /\ \A n \in DOMAIN M : M2[n] \in Survivors(M[n])
  BY DEF Torn
<1>2. ASSUME NEW n \in DOMAIN M
      PROVE  M2[n] \in ManifestFiles /\ M2[n].recs \in Leftovers(M[n]) /\ Leftovers(M2[n]) = {M2[n].recs}
  <2> DEFINE f == M[n]
             g == M2[n]
  <2>1. f \in [recs : Seq(Edits), synced : Nat] /\ f.synced <= Len(f.recs)
        /\ \A i \in 2..Len(f.recs) : f.recs[i] \in FullEdits
    BY DEF ManifestFiles
  <2>2. g \in Survivors(f)
    BY <1>1
  <2> HIDE DEF f, g
  <2>3. /\ g \in [recs : Seq(Edits), synced : Nat] /\ g.synced = Len(g.recs)
        /\ g.recs \in Leftovers(f) /\ Leftovers(g) = {g.recs}
        /\ Len(g.recs) <= Len(f.recs)
        /\ \A i \in 1..Len(g.recs) : g.recs[i] = f.recs[i]
    BY <2>1, <2>2, SurvivingFile
  <2>4. Len(g.recs) \in Nat /\ Len(f.recs) \in Nat
    BY <2>1, <2>3
  <2>5. \A i \in 2..Len(g.recs) : g.recs[i] \in FullEdits
    BY <2>1, <2>3, <2>4
  <2> QED  BY <2>3, <2>4, <2>5 DEF ManifestFiles, f, g
<1>3. M2 \in [DOMAIN M -> ManifestFiles]
  <2>1. M2 \in [DOMAIN M -> UNION {Survivors(M[n]) : n \in DOMAIN M}]
    BY DEF Torn
  <2> QED  BY <2>1, <1>2
<1> QED  BY <1>1, <1>2, <1>3
-----------------------------------------------------------------------------
(***************************************************************************)
(* Steps that leave much alone.                                            *)
(***************************************************************************)

LEMMA FilesUnchanged ==
  ASSUME FileTypes, Bounded, Kept, UNCHANGED <<files, acked, durable>>
  PROVE  FileTypes' /\ Bounded' /\ Kept'
BY DEF FileTypes, Bounded, Kept, files

Mending == Repairing \cup {"unrepaired"}

LEMMA CurrentUnchanged ==
  ASSUME CurrentInv, OpenedInv, UNCHANGED <<current, manifests, logs, tables, acked, durable, opened>>,
         pc \notin Mending, pc' \notin Mending \cup {"corrupt"}
  PROVE  CurrentInv' /\ OpenedInv'
BY DEF CurrentInv, OpenedInv, Mending

\* The manifest stays what it is, and tables and logs keep what it needs.
StaysSound(p) ==
  /\ SameTables(tables, tables', Applied(p))
  /\ MoreLogged(logs, logs', Last(p).log)
  /\ acked' \subseteq acked \cup In(tables', Applied(p)) \cup Logged(logs', Last(p).log)
  /\ durable' \subseteq durable \cup In(tables', Applied(p)) \cup LoggedSafely(logs', Last(p).log)

LEMMA CurrentStays ==
  ASSUME CurrentInv, OpenedInv, UNCHANGED <<current, manifests, opened>>,
         pc \notin Mending, pc' \notin Mending \cup {"corrupt"},
         current = NoFile => acked' = {},
         current \in DOMAIN manifests =>
           \A p \in Leftovers(manifests[current]) : Numbered(p) => StaysSound(p)
  PROVE  CurrentInv' /\ OpenedInv'
<1>1. ASSUME current \in DOMAIN manifests, NEW p \in Leftovers(manifests[current]), Numbered(p)
      PROVE  Sound(p, tables', logs', acked', durable')
  <2>1. Sound(p, tables, logs, acked, durable)
    BY <1>1 DEF CurrentInv, Mending
  <2>2. StaysSound(p)
    BY <1>1
  <2> QED  BY <2>1, <2>2, SoundStays DEF StaysSound
<1>2. CurrentInv'
  BY <1>1 DEF CurrentInv, Mending
<1> QED  BY <1>2 DEF OpenedInv, Mending

\* The parts of the invariant that speak of an open database, of one that is
\* being opened, and of a repair.
LEMMA NotOpen ==
  ASSUME pc' \notin Opening \cup {"open"}
  PROVE  NumbersInv' /\ ReplayInv' /\ RecoveredInv' /\ OpenInv' /\ BaseInv' /\ JobInv'
BY DEF NumbersInv, ReplayInv, RecoveredInv, OpenInv, BaseInv, JobInv, Opening

LEMMA NotRunning ==
  ASSUME pc' # "open"
  PROVE  OpenInv' /\ BaseInv' /\ JobInv'
BY DEF OpenInv, BaseInv, JobInv

LEMMA NotMending ==
  ASSUME pc' \notin Repairing
  PROVE  RepairInv'
BY DEF RepairInv

LEMMA Budgeted ==
  ASSUME ProcessTypes, Succeeds \/ Fails \/ Stops
  PROVE  left' \in [writes : Nat, crashes : Nat, failures : Nat, compactions : Nat, repairs : Nat]
BY DEF ProcessTypes, Succeeds, Fails, Stops

LEMMA FreshTypes ==
  /\ Fresh \in DBs /\ NoJob \in [stage : {"none", "built", "appended", "synced"}, edit : FullEdits]
  /\ NoJob.stage = "none" /\ Fresh.inputs = {} /\ Fresh.tail = "whole"
BY DEF Fresh, DBs, NoJob, Edit, FullEdits

\* A step after which nothing is going on.
Idles ==
  /\ pc' \in Resting /\ db' = Fresh /\ job' = NoJob
  /\ writes' = writes /\ acked' \subseteq acked /\ durable' \subseteq acked' /\ (Succeeds \/ Fails \/ Stops)

LEMMA IdleTypes == ASSUME ProcessTypes, Idles PROVE ProcessTypes'
<1>1. left' \in [writes : Nat, crashes : Nat, failures : Nat, compactions : Nat, repairs : Nat]
  BY Budgeted DEF Idles
<1> QED  BY <1>1, FreshTypes DEF Idles, ProcessTypes, Resting

\* Open fails or the process stops, and the files stay as they are.
LEMMA Idling ==
  ASSUME RecInv, Idles, UNCHANGED <<files, acked, durable, opened>>,
         pc \notin Mending, pc' \in {"closed", "creating", "reading"},
         pc' = "creating" => current = NoFile
  PROVE  RecInv'
<1>1. FileTypes' /\ Bounded' /\ Kept'
  BY FilesUnchanged DEF RecInv
<1>2. CurrentInv' /\ OpenedInv'
  BY CurrentUnchanged DEF RecInv, files, Mending, Repairing
<1>3. ProcessTypes'
  BY IdleTypes DEF RecInv
<1>4. NumbersInv' /\ ReplayInv' /\ RecoveredInv' /\ OpenInv' /\ BaseInv' /\ JobInv'
  BY NotOpen DEF Opening
<1>5. RepairInv'
  BY NotMending DEF Repairing
<1>6. CreatingInv'
  BY DEF CreatingInv, files
<1> QED  BY <1>1, <1>2, <1>3, <1>4, <1>5, <1>6 DEF RecInv

\* The same for a failed step of Open.
LEMMA GivingUp ==
  ASSUME RecInv, GiveUp, UNCHANGED files, pc \notin Mending, pc # "open"
  PROVE  RecInv'
<1>1. job = NoJob /\ durable \subseteq acked
  BY DEF RecInv, ProcessTypes
<1>2. Idles /\ pc' = "closed" /\ UNCHANGED <<acked, durable, opened>>
  BY <1>1 DEF GiveUp, Idles, Resting, history
<1> QED  BY <1>2, Idling
-----------------------------------------------------------------------------
(***************************************************************************)
(* Opening: up to the reading of the manifest.                             *)
(***************************************************************************)

LEMMA ManifestOfOne ==
  ASSUME NEW a \in Edits
  PROVE  NewFile(<<a>>) \in ManifestFiles
<1>1. NewFile(<<a>>) \in [recs : Seq(Edits), synced : Nat] /\ NewFile(<<a>>).recs = <<a>> /\ NewFile(<<a>>).synced = 0
  BY NewFileOne
<1>2. Len(<<a>>) = 1
  OBVIOUS
<1> QED  BY <1>1, <1>2 DEF ManifestFiles

LEMMA ManifestOfTwo ==
  ASSUME NEW a \in Edits, NEW b \in FullEdits
  PROVE  NewFile(<<a, b>>) \in ManifestFiles
<1>1. b \in Edits
  BY DEF Edits
<1>2. NewFile(<<a, b>>) \in [recs : Seq(Edits), synced : Nat] /\ NewFile(<<a, b>>).recs = <<a, b>> /\ NewFile(<<a, b>>).synced = 0
  BY <1>1, NewFileTwo
<1>3. Len(<<a, b>>) = 2 /\ \A i \in 2..2 : <<a, b>>[i] = b
  OBVIOUS
<1> QED  BY <1>2, <1>3 DEF ManifestFiles

LEMMA OpenStep == ASSUME RecInv, Open PROVE RecInv'
<1>1. db = Fresh /\ job = NoJob /\ durable \subseteq acked
  BY DEF RecInv, ProcessTypes, Open, Resting
<1>2. Idles /\ pc' \in {"creating", "reading"} /\ (pc' = "creating" => current = NoFile)
  BY <1>1 DEF Open, Idles, Resting, history, Succeeds
<1>3. UNCHANGED <<files, acked, durable, opened>> /\ pc \notin Mending
  BY DEF Open, history, Mending, Repairing
<1> QED  BY <1>2, <1>3, Idling

LEMMA NewDBStep == ASSUME RecInv, NewDB PROVE RecInv'
<1>1. current = NoFile /\ acked = {} /\ opened = FALSE /\ db = Fresh /\ job = NoJob /\ durable \subseteq acked
  BY DEF RecInv, ProcessTypes, NewDB, Resting, CreatingInv, CurrentInv, Repairing
<1>2. NoFile \notin Nat
  BY RecoveryAssumption
<1>3. FirstEdit \in Edits
  BY DEF FirstEdit, Edit, Edits, FullEdits
<1>4. UNCHANGED <<current, logs, tables, writes, acked, durable, opened>> /\ db' = Fresh /\ job' = NoJob
      /\ (Succeeds \/ Fails)
  BY <1>1 DEF NewDB, GiveUp, history
<1>5. FileTypes' /\ CreatingInv' /\ pc' \in {"created", "closed"}
  <2>1. CASE Succeeds /\ manifests' = Put(manifests, 1, NewFile(<<FirstEdit>>)) /\ pc' = "created"
    <3>1. NewFile(<<FirstEdit>>) \in ManifestFiles
      BY <1>3, ManifestOfOne
    <3>2. DOMAIN manifests' = DOMAIN manifests \cup {1} /\ manifests'[1] = NewFile(<<FirstEdit>>)
          /\ manifests' \in [DOMAIN manifests \cup {1} -> ManifestFiles]
      <4>1. manifests \in [DOMAIN manifests -> ManifestFiles]
        BY DEF RecInv, FileTypes
      <4> DEFINE x == NewFile(<<FirstEdit>>)
      <4>2. manifests' = Put(manifests, 1, x) /\ x \in ManifestFiles
        BY <2>1, <3>1
      <4> HIDE DEF x
      <4>3. DOMAIN manifests' = DOMAIN manifests \cup {1} /\ manifests'[1] = x
            /\ manifests' \in [DOMAIN manifests \cup {1} -> ManifestFiles]
        BY <4>1, <4>2 DEF Put
      <4> QED  BY <4>3 DEF x
    <3>3. FileTypes'
      BY <3>2, <1>4 DEF RecInv, FileTypes
    <3> QED  BY <2>1, <3>2, <3>3, <1>1, <1>4 DEF CreatingInv
  <2>2. CASE GiveUp /\ manifests' = Keep(manifests, DOMAIN manifests \ {1})
    <3>1. DOMAIN manifests' \subseteq DOMAIN manifests /\ manifests' \in [DOMAIN manifests' -> ManifestFiles]
      <4>1. manifests \in [DOMAIN manifests -> ManifestFiles]
        BY DEF RecInv, FileTypes
      <4> QED  BY <2>2, <4>1 DEF Keep
    <3> QED  BY <2>2, <3>1, <1>4 DEF RecInv, FileTypes, CreatingInv, GiveUp
  <2> QED  BY <2>1, <2>2 DEF NewDB, FirstEdit
<1>6. Bounded' /\ Kept'
  BY <1>4 DEF RecInv, Bounded, Kept
<1>7. CurrentInv' /\ OpenedInv'
  BY <1>1, <1>2, <1>4, <1>5 DEF CurrentInv, OpenedInv, FileTypes
<1>8. ProcessTypes'
  BY <1>1, <1>4, <1>5, IdleTypes DEF RecInv, Idles, Resting
<1>9. NumbersInv' /\ ReplayInv' /\ RecoveredInv' /\ OpenInv' /\ BaseInv' /\ JobInv' /\ RepairInv'
  BY <1>5, NotOpen, NotMending DEF Opening, Repairing
<1> QED  BY <1>5, <1>6, <1>7, <1>8, <1>9 DEF RecInv

LEMMA NameFirstManifestStep == ASSUME RecInv, NameFirstManifest PROVE RecInv'
<1>1. CASE GiveUp /\ UNCHANGED files
  BY <1>1, GivingUp DEF NameFirstManifest, Mending, Repairing
<1>2. CASE /\ Succeeds /\ current' = 1 /\ pc' = "reading"
           /\ UNCHANGED <<manifests, logs, tables, db, job, history>>
  <2>1. current = NoFile /\ acked = {} /\ opened = FALSE /\ db = Fresh /\ job = NoJob /\ durable = {}
        /\ 1 \in DOMAIN manifests /\ manifests[1] = NewFile(<<FirstEdit>>)
    BY DEF RecInv, ProcessTypes, NameFirstManifest, Resting, CreatingInv, CurrentInv, Repairing
  <2>2. FirstEdit \in Edits /\ FirstEdit.add = {} /\ FirstEdit.log = 0 /\ FirstEdit.next = 2 /\ FirstEdit.seq = 0
    BY DEF FirstEdit, Edit, Edits, FullEdits
  <2>3. Leftovers(manifests[1]) = {<<>>, <<FirstEdit>>} /\ manifests[1].recs = <<FirstEdit>>
    BY <2>1, <2>2, NewFileOne
  <2>4. Applied(<<FirstEdit>>) = {} /\ Last(<<FirstEdit>>) = FirstEdit /\ <<FirstEdit>> # <<>>
    BY <2>2, AppliedOne
  <2>5. FileTypes' /\ Bounded' /\ Kept' /\ CreatingInv'
    BY <1>2 DEF RecInv, FileTypes, Bounded, Kept, CreatingInv, history
  <2>6. Sound(<<FirstEdit>>, tables, logs, {}, {})
    BY <2>2, <2>4 DEF Sound, In, Holds
  <2>7. \A p \in Leftovers(manifests[1]) : Numbered(p) => p = <<FirstEdit>>
    BY <2>3 DEF Numbered
  <2>8. Numbered(<<FirstEdit>>)
    BY <2>2, <2>4, RecoveryAssumption DEF Numbered
  <2> HIDE DEF FirstEdit
  <2>9. CurrentInv'
    <3>1. current' # NoFile /\ acked' = {} /\ durable' = {} /\ current' = 1 /\ UNCHANGED <<manifests, logs, tables>>
      BY <1>2, <2>1, RecoveryAssumption DEF history
    <3>2. ASSUME NEW p \in Leftovers(manifests[1]), Numbered(p)
          PROVE  /\ Sound(p, tables, logs, {}, {}) /\ Numbered(manifests[1].recs)
                 /\ Last(p).next <= Last(manifests[1].recs).next
      BY <3>2, <2>2, <2>3, <2>4, <2>6, <2>7, <2>8
    <3> QED  BY <3>1, <3>2 DEF CurrentInv
  <2>10. OpenedInv'
    BY <1>2, <2>1 DEF OpenedInv, history
  <2>11. ProcessTypes'
    BY <1>2, <2>1, IdleTypes DEF RecInv, Idles, Resting, history
  <2>12. NumbersInv' /\ ReplayInv' /\ RecoveredInv' /\ OpenInv' /\ BaseInv' /\ JobInv' /\ RepairInv'
    BY <1>2, NotOpen, NotMending DEF Opening, Repairing
  <2> QED  BY <2>5, <2>9, <2>10, <2>11, <2>12 DEF RecInv
<1> QED  BY <1>1, <1>2 DEF NameFirstManifest

\* What an Open has that has read the manifest p.
LEMMA ManifestRead ==
  ASSUME NEW p \in Seq(Edits), Numbered(p), FileTypes
  PROVE  LET d == ReadManifest(p)
         IN /\ d \in DBs
            /\ d.version = Applied(p) /\ d.manifest = Last(p).next /\ d.next_file = Last(p).next + 1
            /\ d.seq = Last(p).seq /\ d.log_number = Last(p).log
            /\ d.replay = {n \in DOMAIN logs : n >= Last(p).log}
            /\ d.adds = {} /\ d.pos = 0 /\ d.max = 0 /\ d.mem = {} /\ d.imm = {}
            /\ d.inputs = {} /\ d.tail = "whole"
<1>1. /\ Last(p) \in FullEdits
      /\ NextFile(p) = Last(p).next /\ LogNumber(p) = Last(p).log /\ LastSequence(p) = Last(p).seq
  BY NumbersRead
<1>2. Last(p).next \in Nat /\ Last(p).log \in Nat /\ Last(p).seq \in Nat
  BY <1>1 DEF FullEdits
<1>3. Applied(p) \subseteq Nat
  <2>1. \A i \in DOMAIN p : p[i] \in Edits
    OBVIOUS
  <2>2. \A e \in Edits : e.add \subseteq Nat
    BY DEF Edits, FullEdits, Snapshots
  <2> QED  BY <2>1, <2>2 DEF Applied
<1>4. {n \in DOMAIN logs : n >= Last(p).log} \subseteq Nat
  BY DEF FileTypes
<1>5. ReadManifest(p) =
        [Fresh EXCEPT !.version = Applied(p), !.manifest = Last(p).next, !.next_file = Last(p).next + 1,
                      !.seq = Last(p).seq, !.log_number = Last(p).log,
                      !.replay = {n \in DOMAIN logs : n >= Last(p).log}]
  BY <1>1 DEF ReadManifest, LogsToReplay
<1> DEFINE V == Applied(p)
           next == Last(p).next
           log == Last(p).log
           seq == Last(p).seq
           replay == {n \in DOMAIN logs : n >= Last(p).log}
<1>6. ReadManifest(p) = [Fresh EXCEPT !.version = V, !.manifest = next, !.next_file = next + 1,
                                      !.seq = seq, !.log_number = log, !.replay = replay]
  BY <1>5
<1>7. V \subseteq Nat /\ next \in Nat /\ log \in Nat /\ seq \in Nat /\ replay \subseteq Nat /\ next + 1 \in Nat
  BY <1>2, <1>3, <1>4
<1> HIDE DEF V, next, log, seq, replay
<1>8. LET d == ReadManifest(p)
      IN /\ d \in DBs
         /\ d.version = V /\ d.manifest = next /\ d.next_file = next + 1
         /\ d.seq = seq /\ d.log_number = log /\ d.replay = replay
         /\ d.adds = {} /\ d.pos = 0 /\ d.max = 0 /\ d.mem = {} /\ d.imm = {}
         /\ d.inputs = {} /\ d.tail = "whole"
  <2>1. ReadManifest(p) \in DBs
    <3>1. Fresh \in DBs
      BY FreshTypes
    <3> DEFINE c == [Fresh EXCEPT !.version = V, !.manifest = next, !.next_file = next + 1]
    <3>2. c \in DBs
      BY <1>7, <3>1 DEF DBs
    <3>3. ReadManifest(p) = [c EXCEPT !.seq = seq, !.log_number = log, !.replay = replay]
      BY <1>6
    <3> HIDE DEF c
    <3> QED  BY <1>7, <3>2, <3>3 DEF DBs
  <2>2. /\ Fresh.adds = {} /\ Fresh.pos = 0 /\ Fresh.max = 0 /\ Fresh.mem = {} /\ Fresh.imm = {} /\ Fresh \in DBs
    BY FreshTypes DEF Fresh
  <2>3. LET d == ReadManifest(p)
        IN /\ d.version = V /\ d.manifest = next /\ d.next_file = next + 1
           /\ d.seq = seq /\ d.log_number = log /\ d.replay = replay
           /\ d.adds = Fresh.adds /\ d.pos = Fresh.pos /\ d.max = Fresh.max /\ d.mem = Fresh.mem /\ d.imm = Fresh.imm
           /\ d.inputs = Fresh.inputs /\ d.tail = Fresh.tail
    BY <1>6, <2>2 DEF DBs
  <2> QED  BY <2>1, <2>2, <2>3, FreshTypes
<1> QED  BY <1>8 DEF V, next, log, seq, replay

LEMMA ReadCurrentStep == ASSUME RecInv, ReadCurrent PROVE RecInv'
<1> DEFINE m == manifests[current]
           edits == IF current \in DOMAIN manifests THEN m.recs ELSE <<>>
           corrupt == \/ damaged
                      \/ NoFile \in {NextFile(edits), LogNumber(edits), LastSequence(edits)}
                      \/ ~(Applied(edits) \subseteq DOMAIN tables)
<1>1. /\ pc = "reading" /\ UNCHANGED <<files, job, history, left>>
      /\ \/ corrupt /\ pc' = "corrupt" /\ UNCHANGED db
         \/ ~corrupt /\ pc' = "replaying" /\ db' = ReadManifest(edits)
  BY DEF ReadCurrent
<1>2. db = Fresh /\ job = NoJob /\ pc \notin Mending
  BY <1>1 DEF RecInv, ProcessTypes, Resting, Mending, Repairing
<1>3. FileTypes' /\ Bounded' /\ Kept'
  BY <1>1, FilesUnchanged DEF RecInv, history
<1>4. CreatingInv'
  BY <1>1 DEF CreatingInv
<1>5. ASSUME Numbered(edits)
      PROVE  /\ current \in DOMAIN manifests /\ edits = m.recs /\ m.recs \in Seq(Edits)
             /\ m.recs \in Leftovers(m)
             /\ Sound(m.recs, tables, logs, acked, durable) /\ (corrupt => damaged)
  <2>1. current \in DOMAIN manifests /\ edits = m.recs
    BY <1>5 DEF Numbered
  <2>2. m \in [recs : Seq(Edits), synced : Nat] /\ m.synced <= Len(m.recs)
    BY <2>1 DEF RecInv, FileTypes, ManifestFiles
  <2> HIDE DEF m
  <2>3. m.recs \in Seq(Edits) /\ m.recs \in Leftovers(m)
    BY <2>2, LeftoverWhole
  <2>4. Sound(m.recs, tables, logs, acked, durable)
    BY <2>1, <2>3, <1>2, <1>5 DEF RecInv, CurrentInv, Mending, m
  <2>5. Applied(m.recs) \subseteq DOMAIN tables
    BY <2>4 DEF Sound
  <2>6. /\ Last(m.recs) \in FullEdits /\ NextFile(m.recs) = Last(m.recs).next
        /\ LogNumber(m.recs) = Last(m.recs).log /\ LastSequence(m.recs) = Last(m.recs).seq
    BY <2>1, <2>3, <1>5, NumbersRead
  <2>7. NoFile \notin {NextFile(m.recs), LogNumber(m.recs), LastSequence(m.recs)}
    BY <2>6, RecoveryAssumption DEF FullEdits
  <2> QED  BY <2>1, <2>3, <2>4, <2>5, <2>7
<1>6. ASSUME ~Numbered(edits) PROVE corrupt
  <2>1. CASE current \in DOMAIN manifests
    <3>1. m \in ManifestFiles /\ edits = m.recs
      BY <2>1 DEF RecInv, FileTypes
    <3> HIDE DEF m
    <3>2. NextFile(m.recs) = NoFile
      BY <3>1, <1>6, NothingRead
    <3> QED  BY <3>1, <3>2
  <2>2. CASE current \notin DOMAIN manifests
    BY <2>2, EmptyRead
  <2> QED  BY <2>1, <2>2
<1> HIDE DEF corrupt
<1>7. CASE corrupt /\ pc' = "corrupt" /\ UNCHANGED db
  <2>1. ~Numbered(edits) \/ damaged
    BY <1>5, <1>7
  <2>2. opened = TRUE => damaged
    <3> SUFFICES ASSUME opened = TRUE, ~damaged PROVE FALSE
      OBVIOUS
    <3>1. current \in DOMAIN manifests /\ \A p \in Leftovers(m) : Numbered(p)
      BY DEF RecInv, OpenedInv
    <3>2. m \in [recs : Seq(Edits), synced : Nat] /\ m.synced <= Len(m.recs) /\ edits = m.recs
      BY <3>1 DEF RecInv, FileTypes, ManifestFiles
    <3> HIDE DEF m
    <3>3. m.recs \in Leftovers(m)
      BY <3>2, LeftoverWhole
    <3> QED  BY <2>1, <3>1, <3>2, <3>3
  <2>3. OpenedInv'
    BY <2>2, <1>1, <1>7 DEF RecInv, OpenedInv, files, history, Repairing
  <2>4. CurrentInv'
    BY <1>1, <1>2 DEF RecInv, CurrentInv, files, history, Mending
  <2>5. ProcessTypes'
    BY <1>1, <1>2, <1>7 DEF RecInv, ProcessTypes, Resting, history
  <2>6. NumbersInv' /\ ReplayInv' /\ RecoveredInv' /\ OpenInv' /\ BaseInv' /\ JobInv' /\ RepairInv'
    BY <1>7, NotOpen, NotMending DEF Opening, Repairing
  <2> QED  BY <1>3, <1>4, <2>3, <2>4, <2>5, <2>6 DEF RecInv
<1>8. CASE ~corrupt /\ pc' = "replaying" /\ db' = ReadManifest(edits)
  <2> DEFINE p == m.recs
  <2>1. /\ Numbered(p) /\ current \in DOMAIN manifests /\ edits = p /\ p \in Seq(Edits)
        /\ p \in Leftovers(m) /\ Sound(p, tables, logs, acked, durable)
    BY <1>5, <1>6, <1>8
  <2>2. db' = ReadManifest(p)
    BY <2>1, <1>8
  <2> HIDE DEF p, edits
  <2>3. /\ db' \in DBs
        /\ db'.version = Applied(p) /\ db'.manifest = Last(p).next /\ db'.next_file = Last(p).next + 1
        /\ db'.seq = Last(p).seq /\ db'.log_number = Last(p).log
        /\ db'.replay = {n \in DOMAIN logs : n >= Last(p).log}
        /\ db'.adds = {} /\ db'.pos = 0 /\ db'.max = 0 /\ db'.mem = {} /\ db'.imm = {}
        /\ db'.inputs = {} /\ db'.tail = "whole"
    BY <2>1, <2>2, ManifestRead DEF RecInv
  <2>4. Last(p).next \in Nat /\ Last(p).log \in Nat /\ Last(p).seq \in Nat
    BY <2>1, NumbersRead DEF FullEdits
  <2>5. CurrentInv' /\ OpenedInv'
    BY <1>1, <1>2, <1>8, CurrentUnchanged DEF RecInv, files, history, Mending, Repairing
  <2>6. ProcessTypes'
    BY <1>1, <1>2, <1>8, <2>3 DEF RecInv, ProcessTypes, Resting, Opening, history
  <2>7. NumbersInv'
    <3>1. \A q \in Leftovers(m) : Numbered(q) => Last(q).next <= Last(p).next /\ Last(q).next \in Nat
      <4> SUFFICES ASSUME NEW q \in Leftovers(m), Numbered(q)
                   PROVE  Last(q).next <= Last(p).next /\ Last(q).next \in Nat
        OBVIOUS
      <4>1. m \in [recs : Seq(Edits), synced : Nat] /\ m.synced <= Len(m.recs)
        BY <2>1 DEF RecInv, FileTypes, ManifestFiles
      <4> HIDE DEF m
      <4>2. q \in Seq(Edits)
        BY <4>1, LeftoverWhole
      <4>3. Last(q).next \in Nat
        BY <4>2, NumbersRead DEF FullEdits
      <4> QED  BY <4>3, <2>1, <1>2 DEF RecInv, CurrentInv, Mending, m, p
    <3>2. Applied(p) \subseteq DOMAIN tables /\ (\A t \in Applied(p) : t < Last(p).next) /\ Last(p).log < Last(p).next
      BY <2>1 DEF Sound
    <3>3. \A t \in Applied(p) : t \in Nat
      BY <3>2 DEF RecInv, FileTypes
    <3>4. manifests' = manifests /\ current' = current /\ tables' = tables
      BY <1>1 DEF files
    <3>5. \A q \in Leftovers(m) : Numbered(q) => Last(q).next <= db'.next_file
      BY <3>1, <2>3, <2>4
    <3>6. db'.manifest \in Nat /\ db'.manifest < db'.next_file /\ db'.log_number < db'.next_file
      BY <2>3, <2>4, <3>2
    <3>7. \A t \in db'.version \cup db'.adds : t < db'.next_file
      BY <2>3, <2>4, <3>2, <3>3
    <3> QED  BY <3>2, <3>4, <3>5, <3>6, <3>7, <2>3 DEF NumbersInv
  <2>8. ReplayInv'
    <3>1. UNCHANGED <<tables, logs, acked, durable, current, opened>>
      BY <1>1 DEF files, history
    <3>2. Holds(tables, logs, db'.version, db'.log_number, acked, durable)
          /\ (\A e \in In(tables, db'.version) : e.seq <= db'.seq)
      BY <2>1, <2>3 DEF Sound
    <3>3. In(tables, db'.adds) = {} /\ db'.replay \subseteq DOMAIN logs
      BY <2>3 DEF In
    <3>4. \A n \in DOMAIN logs \ db'.replay : n < db'.next_file /\ ~(n >= db'.log_number)
      <4>1. \A n \in DOMAIN logs : n \in Nat
        BY DEF RecInv, FileTypes
      <4>2. Last(p).log < Last(p).next
        BY <2>1 DEF Sound
      <4> QED  BY <4>1, <4>2, <2>3, <2>4
    <3>5. ASSUME db'.replay # {} PROVE logs[Min(db'.replay)].recs \in Seq(Entries)
      <4>1. PICK n : n \in db'.replay
        BY <3>5
      <4>2. db'.replay \subseteq Nat
        BY <2>3 DEF RecInv, FileTypes
      <4>3. Min(db'.replay) \in db'.replay
        BY <4>1, <4>2, MinIsIn
      <4> QED  BY <4>3, <3>3 DEF RecInv, FileTypes, LogFiles
    <3>6. db'.replay # {} => 0 <= Len(logs[Min(db'.replay)].recs)
      BY <3>5
    <3>7. opened = TRUE => current < db'.manifest
      BY <2>1, <2>3 DEF RecInv, OpenedInv
    <3> QED  BY <3>1, <3>2, <3>3, <3>4, <3>6, <3>7, <2>3 DEF ReplayInv
  <2>9. RecoveredInv' /\ OpenInv' /\ BaseInv' /\ JobInv' /\ RepairInv'
    BY <1>8, NotRunning, NotMending DEF RecoveredInv, Repairing
  <2> QED  BY <1>3, <1>4, <2>5, <2>6, <2>7, <2>8, <2>9 DEF RecInv
<1> QED  BY <1>1, <1>7, <1>8
-----------------------------------------------------------------------------
(***************************************************************************)
(* Opening: the logs.                                                      *)
(***************************************************************************)

LEMMA MaxOfTwo ==
  ASSUME NEW a \in Nat, NEW b \in Nat
  PROVE  Max({a, b}) \in Nat /\ Max({a, b}) >= a /\ Max({a, b}) >= b
<1>1. {a, b} \in SUBSET Nat /\ a \in {a, b} /\ a + b \in Nat /\ \A n \in {a, b} : n <= a + b
  OBVIOUS
<1>2. Max({a, b}) \in {a, b} /\ \A n \in {a, b} : Max({a, b}) >= n
  BY <1>1, MaxIsIn
<1> QED  BY <1>2

\* The numbers of what a crash may leave of the current manifest.
LEMMA CurrentNext ==
  ASSUME FileTypes, current \in DOMAIN manifests, NEW p \in Leftovers(manifests[current]), Numbered(p)
  PROVE  p \in Seq(Edits) /\ Last(p) \in FullEdits /\ Last(p).next \in Nat /\ Last(p).log \in Nat
         /\ Last(p).seq \in Nat
<1> DEFINE m == manifests[current]
<1>1. m \in [recs : Seq(Edits), synced : Nat] /\ m.synced <= Len(m.recs) /\ p \in Leftovers(m)
  BY DEF FileTypes, ManifestFiles
<1> HIDE DEF m
<1>2. p \in Seq(Edits)
  BY <1>1, LeftoverWhole
<1> QED  BY <1>2, NumbersRead DEF FullEdits

\* What is in a table or in a log.
LEMMA EntriesInFiles ==
  FileTypes' => \A e \in In(tables', DOMAIN tables') \cup Logged(logs', 0) : e \in Entries
<1> SUFFICES ASSUME FileTypes', NEW e \in In(tables', DOMAIN tables') \cup Logged(logs', 0) PROVE e \in Entries
  OBVIOUS
<1>1. CASE e \in In(tables', DOMAIN tables')
  <2>1. PICK t \in DOMAIN tables' : e \in tables'[t]
    BY <1>1, InTables
  <2> QED  BY <2>1 DEF FileTypes
<1>2. CASE e \in Logged(logs', 0)
  <2>1. PICK n \in DOMAIN logs' : e \in ToSet(logs'[n].recs)
    BY <1>2, InLogs
  <2>2. logs'[n].recs \in Seq(Entries)
    BY <2>1 DEF FileTypes, LogFiles
  <2> QED  BY <2>1, <2>2 DEF ToSet
<1> QED  BY <1>1, <1>2

\* A table with a number that is not taken, while the database is not repaired.
LEMMA NewTable ==
  ASSUME RecInv, pc \in Opening \cup {"open"}, pc' \in Opening \cup {"open"},
         UNCHANGED <<current, manifests, logs, acked, durable, opened>>,
         NEW X, X \subseteq Entries, tables' = Put(tables, db.next_file, X),
         X \subseteq Logged(logs, 0) \/ \A e \in X : e.seq <= db.seq,
         Holds(tables, logs, db.version, db.log_number, acked, durable)
  PROVE  /\ FileTypes' /\ Bounded' /\ Kept' /\ CurrentInv' /\ OpenedInv'
         /\ db.next_file \in DOMAIN tables' /\ DOMAIN tables \subseteq DOMAIN tables'
         /\ tables'[db.next_file] = X
         /\ \A t \in DOMAIN tables : t < db.next_file => tables'[t] = tables[t]
         /\ SameTables(tables, tables', db.version \cup db.adds)
<1> DEFINE nf == db.next_file
<1>1. nf \in Nat /\ db.log_number \in Nat
  BY DEF RecInv, ProcessTypes, DBs
<1>2. tables \in [DOMAIN tables -> SUBSET Entries] /\ DOMAIN tables \subseteq Nat /\ DOMAIN logs \subseteq Nat
  BY DEF RecInv, FileTypes
<1>3. /\ DOMAIN tables' = DOMAIN tables \cup {nf} /\ tables'[nf] = X
      /\ tables' \in [DOMAIN tables \cup {nf} -> SUBSET Entries]
      /\ \A t \in DOMAIN tables : t # nf => tables'[t] = tables[t]
  BY <1>2 DEF Put
<1> HIDE DEF nf
<1>4. \A t \in DOMAIN tables : t < nf => tables'[t] = tables[t]
  BY <1>1, <1>2, <1>3
<1>5. FileTypes'
  BY <1>1, <1>2, <1>3 DEF RecInv, FileTypes
<1>6. Bounded'
  <2>1. PICK b \in Nat : \A n \in DOMAIN logs \cup DOMAIN tables : n <= b
    BY DEF RecInv, Bounded
  <2>2. b + nf \in Nat /\ \A n \in DOMAIN logs' \cup DOMAIN tables' : n <= b + nf
    BY <1>1, <1>2, <1>3, <2>1
  <2>3. PICK c \in Nat : \A e \in In(tables, DOMAIN tables) \cup Logged(logs, 0) : e.seq <= c
    BY DEF RecInv, Bounded
  <2>4. ASSUME NEW e \in In(tables', DOMAIN tables')
        PROVE  e \in In(tables, DOMAIN tables) \cup Logged(logs, 0) \/ (e.seq <= db.seq /\ e \in Entries)
    <3>1. PICK t \in DOMAIN tables' : e \in tables'[t]
      BY InTables
    <3>2. e \in X \/ (t \in DOMAIN tables /\ e \in tables[t])
      BY <3>1, <1>3
    <3> QED  BY <3>2, InTables
  <2>5. db.seq \in Nat /\ c + db.seq \in Nat
    BY DEF RecInv, ProcessTypes, DBs
  <2>6. ASSUME NEW e \in In(tables', DOMAIN tables') \cup Logged(logs', 0) PROVE e.seq <= c + db.seq
    <3>1. e \in Entries
      BY EntriesInFiles, <1>5
    <3>2. e.seq \in Nat
      BY <3>1 DEF Entries
    <3>3. e.seq <= c \/ e.seq <= db.seq
      BY <2>3, <2>4, <2>6
    <3> QED  BY <3>2, <3>3, <2>5
  <2> QED  BY <2>2, <2>5, <2>6 DEF Bounded
<1>7. SameTables(tables, tables', db.version \cup db.adds)
  <2>1. \A t \in db.version \cup db.adds : t \in DOMAIN tables /\ t < nf
    BY DEF RecInv, NumbersInv, nf
  <2> QED  BY <2>1, <1>3, <1>4 DEF SameTables
<1>8. Kept'
  <2>1. SameTables(tables, tables', db.version) /\ MoreLogged(logs, logs', db.log_number)
    BY <1>7 DEF SameTables, MoreLogged
  <2>2. Holds(tables', logs', db.version, db.log_number, acked', durable')
    BY <2>1, HoldsStays
  <2>3. db.version \subseteq DOMAIN tables' /\ DOMAIN logs' \subseteq Nat
    BY <2>1, <1>2 DEF SameTables
  <2>4. Holds(tables', logs', DOMAIN tables', 0, acked', durable')
    BY <2>2, <2>3, <1>1, HoldsMore
  <2> QED  BY <2>4 DEF Kept
<1>9. CurrentInv' /\ OpenedInv'
  <2>1. ASSUME current \in DOMAIN manifests, NEW p \in Leftovers(manifests[current]), Numbered(p)
        PROVE  StaysSound(p)
    <3>1. pc \notin Repairing \cup {"unrepaired"}
      BY DEF Opening, Repairing
    <3>2. Sound(p, tables, logs, acked, durable)
      BY <2>1, <3>1 DEF RecInv, CurrentInv
    <3>3. Last(p).next <= nf
      BY <2>1 DEF RecInv, NumbersInv, nf
    <3>4. Last(p).next \in Nat
      BY <2>1, CurrentNext DEF RecInv
    <3>5. \A t \in Applied(p) : t \in DOMAIN tables /\ t \in Nat /\ t < Last(p).next
      BY <3>2, <1>2 DEF Sound
    <3>6. \A t \in Applied(p) : t \in DOMAIN tables' /\ tables'[t] = tables[t]
      BY <3>3, <3>4, <3>5, <1>1, <1>3, <1>4
    <3> QED  BY <3>6 DEF StaysSound, SameTables, MoreLogged
  <2>2. pc \notin Mending /\ pc' \notin Mending \cup {"corrupt"}
    BY DEF Opening, Mending, Repairing
  <2>3. current = NoFile => acked' = {}
    BY <2>2 DEF RecInv, CurrentInv, Mending
  <2> QED  BY <2>1, <2>2, <2>3, CurrentStays DEF RecInv
<1> QED  BY <1>3, <1>4, <1>5, <1>6, <1>7, <1>8, <1>9 DEF nf

LEMMA ReplayTableStep == ASSUME RecInv, ReplayTable PROVE RecInv'
<1> DEFINE L == Min(db.replay)
           recs == logs[L].recs
           nf == db.next_file
<1>1. pc = "replaying" /\ db.replay # {}
  BY DEF ReplayTable
<1>2. CASE GiveUp /\ UNCHANGED files
  BY <1>1, <1>2, GivingUp DEF Mending, Repairing
<1>3. ASSUME Succeeds, NEW n \in (db.pos + 1)..Len(recs),
             tables' = Put(tables, nf, {recs[i] : i \in (db.pos + 1)..n}),
             db' = [Replayed(db, n) EXCEPT !.max = Max({@, recs[n].seq})],
             UNCHANGED <<current, manifests, logs, pc, job, history>>
      PROVE  RecInv'
  <2> DEFINE X == {recs[i] : i \in (db.pos + 1)..n}
  <2>1. db \in DBs /\ db.next_file \in Nat /\ db.pos \in Nat /\ db.max \in Nat /\ db.adds \subseteq Nat
    BY DEF RecInv, ProcessTypes, DBs
  <2>2. /\ L \in db.replay /\ L \in DOMAIN logs /\ recs \in Seq(Entries) /\ logs[L] \in LogFiles
        /\ db.pos <= Len(recs) /\ Len(recs) \in Nat
    <3>1. db.replay \subseteq DOMAIN logs /\ DOMAIN logs \subseteq Nat /\ logs \in [DOMAIN logs -> LogFiles]
      BY <1>1 DEF RecInv, ReplayInv, FileTypes
    <3>2. PICK k : k \in db.replay
      BY <1>1
    <3>3. L \in db.replay
      BY <3>1, <3>2, MinIsIn
    <3>4. recs \in Seq(Entries) /\ logs[L] \in LogFiles
      BY <3>1, <3>3 DEF LogFiles
    <3>5. db.pos <= Len(recs)
      BY <1>1 DEF RecInv, ReplayInv
    <3> QED  BY <3>1, <3>3, <3>4, <3>5
  <2>3. \A i \in 1..n : i \in 1..Len(recs) /\ recs[i] \in Entries /\ recs[i].seq <= recs[n].seq
    <3>1. \A i, j \in 1..Len(recs) : i <= j => recs[i].seq <= recs[j].seq
      BY <2>2 DEF LogFiles
    <3>2. n \in Nat /\ n \in 1..Len(recs)
      BY <2>1, <2>2
    <3> HIDE DEF recs
    <3> QED  BY <3>1, <3>2, <2>2
  <2>4. n \in Nat /\ (\A i \in (db.pos + 1)..n : i \in 1..n) /\ n \in 1..n
    BY <2>1, <2>2
  <2>5. X \subseteq Entries /\ X \subseteq ToSet(recs) /\ recs[n].seq \in Nat
    BY <2>3, <2>4 DEF ToSet, Entries
  <2>6. X \subseteq Logged(logs, 0)
    <3> SUFFICES ASSUME NEW e \in X PROVE e \in Logged(logs, 0)
      OBVIOUS
    <3>1. L >= 0 /\ e \in ToSet(recs)
      BY <2>2, <2>5 DEF RecInv, FileTypes
    <3> QED  BY <3>1, <2>2, InLogs
  <2> DEFINE mx == Max({db.max, recs[n].seq})
  <2>7. mx \in Nat /\ mx >= db.max /\ mx >= recs[n].seq
    BY <2>1, <2>5, MaxOfTwo
  <2>8. db' = [db EXCEPT !.adds = @ \cup {nf}, !.next_file = @ + 1, !.pos = n, !.max = mx]
    BY <1>3, <2>1 DEF Replayed, DBs
  <2> HIDE DEF mx
  <2>9. /\ db' \in DBs /\ db'.adds = db.adds \cup {nf} /\ db'.next_file = nf + 1 /\ db'.pos = n /\ db'.max = mx
        /\ db'.manifest = db.manifest /\ db'.log_number = db.log_number /\ db'.seq = db.seq
        /\ db'.version = db.version /\ db'.mem = db.mem /\ db'.imm = db.imm /\ db'.replay = db.replay
        /\ db'.inputs = db.inputs /\ db'.tail = db.tail
    <3>1. nf + 1 \in Nat /\ db.adds \cup {nf} \in SUBSET Nat
      BY <2>1
    <3>2. db' \in DBs
      BY <2>1, <2>4, <2>7, <2>8, <3>1 DEF DBs
    <3> QED  BY <2>1, <2>8, <3>2 DEF DBs
  <2>10. UNCHANGED <<current, manifests, logs, acked, durable, opened, pc, job, writes>>
    BY <1>3 DEF history
  <2>11. Holds(tables, logs, db.version, db.log_number, acked, durable)
    BY <1>1 DEF RecInv, ReplayInv
  <2>12. pc \in Opening \cup {"open"} /\ pc' \in Opening \cup {"open"} /\ tables' = Put(tables, nf, X)
    BY <1>1, <1>3 DEF Opening
  <2> HIDE DEF X, L
  <2>13. /\ FileTypes' /\ Bounded' /\ Kept' /\ CurrentInv' /\ OpenedInv'
         /\ nf \in DOMAIN tables' /\ DOMAIN tables \subseteq DOMAIN tables'
         /\ tables'[nf] = X
         /\ \A t \in DOMAIN tables : t < nf => tables'[t] = tables[t]
         /\ SameTables(tables, tables', db.version \cup db.adds)
    <3>1. X \subseteq Entries /\ X \subseteq Logged(logs, 0)
      BY <2>5, <2>6
    <3> QED  BY <2>10, <2>11, <2>12, <3>1, NewTable, Zenon
  <2>14. In(tables', db.version) = In(tables, db.version) /\ In(tables', db'.adds) = In(tables, db.adds) \cup X
    <3>1. SameTables(tables, tables', db.version) /\ SameTables(tables, tables', db.adds)
      BY <2>13 DEF SameTables
    <3>2. In(tables', db.version) = In(tables, db.version) /\ In(tables', db.adds) = In(tables, db.adds)
      BY <3>1, SameIn
    <3>3. In(tables', {nf}) = X
      BY <2>13 DEF In
    <3>4. In(tables', db.adds \cup {nf}) = In(tables', db.adds) \cup In(tables', {nf})
      BY InUnion
    <3> QED  BY <3>2, <3>3, <3>4, <2>9
  <2>15. ProcessTypes'
    <3>1. left' \in [writes : Nat, crashes : Nat, failures : Nat, compactions : Nat, repairs : Nat]
      BY <1>3, Budgeted DEF RecInv
    <3> QED  BY <3>1, <2>9, <2>10, <1>1 DEF RecInv, ProcessTypes, Resting
  <2>16. NumbersInv'
    <3>1. NumbersInv /\ pc \in Opening
      BY <1>1 DEF RecInv, Opening
    <3>2. current \in DOMAIN manifests =>
            \A p \in Leftovers(manifests[current]) : Numbered(p) => Last(p).next <= nf + 1
      <4> SUFFICES ASSUME current \in DOMAIN manifests, NEW p \in Leftovers(manifests[current]), Numbered(p)
                   PROVE  Last(p).next <= nf + 1
        OBVIOUS
      <4>1. Last(p).next <= nf
        BY <3>1 DEF NumbersInv
      <4>2. Last(p).next \in Nat
        BY CurrentNext DEF RecInv
      <4> QED  BY <4>1, <4>2, <2>1
    <3>3. db.manifest \in Nat /\ db.manifest < nf + 1 /\ db.log_number < nf + 1
      BY <3>1, <2>1 DEF NumbersInv, DBs
    <3>4. db.version \cup db'.adds \subseteq DOMAIN tables'
      BY <3>1, <2>9, <2>13 DEF NumbersInv
    <3>5. \A t \in db.version \cup db'.adds : t < nf + 1
      <4>1. \A t \in db.version \cup db.adds : t < nf /\ t \in Nat
        BY <3>1, <2>1 DEF NumbersInv, DBs
      <4> QED  BY <4>1, <2>1, <2>9
    <3> QED  BY <3>2, <3>3, <3>4, <3>5, <2>9, <2>10 DEF NumbersInv
  <2>17. ReplayInv'
    <3>1. ReplayInv /\ db.replay \subseteq DOMAIN logs
      BY <1>1 DEF RecInv, ReplayInv
    <3>2. Holds(tables', logs, db.version, db.log_number, acked, durable)
      BY <2>11, <2>14 DEF Holds
    <3>3. \A e \in In(tables', db.version) : e.seq <= db.seq
      BY <1>1, <2>14, <3>1 DEF ReplayInv
    <3>4. \A e \in In(tables', db'.adds) : e.seq <= mx
      <4> SUFFICES ASSUME NEW e \in In(tables, db.adds) \cup X PROVE e.seq <= mx
        BY <2>14
      <4>1. CASE e \in X
        <5>1. e.seq <= recs[n].seq /\ e.seq \in Nat
          BY <4>1, <2>3, <2>4 DEF X, Entries
        <5> QED  BY <5>1, <2>5, <2>7
      <4>2. CASE e \in In(tables, db.adds)
        <5>1. e.seq <= db.max
          BY <4>2, <1>1, <3>1 DEF ReplayInv
        <5>2. e \in Entries
          <6>1. PICK t \in db.adds : e \in tables[t]
            BY <4>2, InTables
          <6>2. t \in DOMAIN tables
            BY <1>1 DEF RecInv, NumbersInv, Opening
          <6> QED  BY <6>1, <6>2 DEF RecInv, FileTypes
        <5>3. e.seq \in Nat
          BY <5>2 DEF Entries
        <5> QED  BY <5>1, <5>3, <2>1, <2>7
      <4> QED  BY <4>1, <4>2
    <3>5. \A k \in DOMAIN logs \ db.replay :
            k < nf + 1 /\ (k >= db.log_number => ToSet(logs[k].recs) \subseteq In(tables', db'.adds))
      <4> SUFFICES ASSUME NEW k \in DOMAIN logs \ db.replay
                   PROVE  k < nf + 1 /\ (k >= db.log_number => ToSet(logs[k].recs) \subseteq In(tables', db'.adds))
        OBVIOUS
      <4>1. k < nf /\ (k >= db.log_number => ToSet(logs[k].recs) \subseteq In(tables, db.adds))
        BY <1>1, <3>1 DEF ReplayInv
      <4>2. k \in Nat
        BY DEF RecInv, FileTypes
      <4>3. k < nf + 1
        BY <4>1, <4>2, <2>1
      <4> QED  BY <4>1, <4>3, <2>14
    <3>6. \A i \in 1..n : recs[i] \in In(tables', db'.adds)
      <4> SUFFICES ASSUME NEW i \in 1..n PROVE recs[i] \in In(tables, db.adds) \cup X
        BY <2>14
      <4>1. CASE i <= db.pos
        <5>1. i \in 1..db.pos
          BY <4>1, <2>1
        <5> QED  BY <5>1, <1>1, <3>1 DEF ReplayInv, L
      <4>2. CASE ~(i <= db.pos)
        <5>1. i \in (db.pos + 1)..n
          BY <4>2, <2>1, <2>4
        <5> QED  BY <5>1 DEF X
      <4> QED  BY <4>1, <4>2
    <3>7. n <= Len(recs)
      BY <2>2, <2>4
    <3>8. db.mem = {} /\ db.imm = {} /\ (opened = TRUE => current < db.manifest)
      BY <1>1, <3>1 DEF ReplayInv
    <3> QED  BY <2>9, <2>10, <3>1, <3>2, <3>3, <3>4, <3>5, <3>6, <3>7, <3>8 DEF ReplayInv, L
  <2>18. CreatingInv' /\ RecoveredInv' /\ OpenInv' /\ BaseInv' /\ JobInv' /\ RepairInv'
    BY <2>10, <1>1, NotRunning, NotMending DEF CreatingInv, RecoveredInv, Repairing
  <2> QED  BY <2>13, <2>15, <2>16, <2>17, <2>18 DEF RecInv
<1> QED  BY <1>2, <1>3 DEF ReplayTable

LEMMA ReplayNextStep == ASSUME RecInv, ReplayNext PROVE RecInv'
<1> DEFINE L == Min(db.replay)
           nf == db.next_file
<1>1. /\ pc = "replaying" /\ db.replay # {} /\ db.pos = Len(logs[L].recs)
      /\ db' = [db EXCEPT !.next_file = Used(@, L), !.replay = @ \ {L}, !.pos = 0]
      /\ UNCHANGED <<files, pc, job, history, left>>
  BY DEF ReplayNext
<1>2. db \in DBs /\ nf \in Nat /\ db.replay \subseteq Nat /\ ReplayInv /\ NumbersInv
  BY DEF RecInv, ProcessTypes, DBs
<1>3. db.replay \subseteq DOMAIN logs /\ DOMAIN logs \subseteq Nat /\ logs \in [DOMAIN logs -> LogFiles]
  BY <1>1 DEF RecInv, ReplayInv, FileTypes
<1>4. L \in db.replay /\ L \in Nat
  <2>1. PICK k : k \in db.replay
    BY <1>1
  <2> QED  BY <2>1, <1>2, MinIsIn
<1>5. logs[L].recs \in Seq(Entries)
  BY <1>3, <1>4 DEF LogFiles
<1> DEFINE used == Used(nf, L)
<1>6. used \in Nat /\ used >= nf /\ used > L
  BY <1>2, <1>4 DEF Used
<1>7. db' = [db EXCEPT !.next_file = used, !.replay = @ \ {L}, !.pos = 0]
  BY <1>1, <1>2 DEF DBs
<1> HIDE DEF used, L
<1>8. /\ db' \in DBs /\ db'.next_file = used /\ db'.replay = db.replay \ {L} /\ db'.pos = 0
      /\ db'.adds = db.adds /\ db'.max = db.max
      /\ db'.manifest = db.manifest /\ db'.log_number = db.log_number /\ db'.seq = db.seq
      /\ db'.version = db.version /\ db'.mem = db.mem /\ db'.imm = db.imm
      /\ db'.inputs = db.inputs /\ db'.tail = db.tail
  <2>1. db' \in DBs
    BY <1>2, <1>6, <1>7 DEF DBs
  <2> QED  BY <1>2, <1>7, <2>1 DEF DBs
<1>9. UNCHANGED <<current, manifests, logs, tables, acked, durable, opened, pc, job, writes, left>>
  BY <1>1 DEF files, history
<1>10. FileTypes' /\ Bounded' /\ Kept'
  BY <1>1, <1>9, FilesUnchanged DEF RecInv
<1>11. CurrentInv' /\ OpenedInv'
  BY <1>1, <1>9, CurrentUnchanged DEF RecInv, Mending, Repairing
<1>12. ProcessTypes'
  BY <1>1, <1>8, <1>9 DEF RecInv, ProcessTypes, Resting
<1>13. NumbersInv'
  <2>1. pc \in Opening
    BY <1>1 DEF Opening
  <2>2. current \in DOMAIN manifests =>
          \A p \in Leftovers(manifests[current]) : Numbered(p) => Last(p).next <= used
    <3> SUFFICES ASSUME current \in DOMAIN manifests, NEW p \in Leftovers(manifests[current]), Numbered(p)
                 PROVE  Last(p).next <= used
      OBVIOUS
    <3>1. Last(p).next <= nf
      BY <1>2, <2>1 DEF NumbersInv
    <3>2. Last(p).next \in Nat
      BY CurrentNext DEF RecInv
    <3> QED  BY <3>1, <3>2, <1>2, <1>6
  <2>3. db.manifest \in Nat /\ db.manifest < used /\ db.log_number < used
    BY <1>2, <1>6, <2>1 DEF NumbersInv, DBs
  <2>4. \A t \in db.version \cup db.adds : t < used
    <3>1. \A t \in db.version \cup db.adds : t < nf /\ t \in Nat
      BY <1>2, <2>1 DEF NumbersInv, DBs
    <3> QED  BY <3>1, <1>2, <1>6
  <2>5. db.version \cup db.adds \subseteq DOMAIN tables
    BY <1>2, <2>1 DEF NumbersInv
  <2> QED  BY <2>2, <2>3, <2>4, <2>5, <1>8, <1>9 DEF NumbersInv
<1>14. ReplayInv'
  <2>1. /\ Holds(tables, logs, db.version, db.log_number, acked, durable)
        /\ \A e \in In(tables, db.version) : e.seq <= db.seq
        /\ \A e \in In(tables, db.adds) : e.seq <= db.max
        /\ db.mem = {} /\ db.imm = {} /\ (opened = TRUE => current < db.manifest)
    BY <1>1, <1>2 DEF ReplayInv
  <2>2. \A k \in DOMAIN logs \ (db.replay \ {L}) :
          k < used /\ (k >= db.log_number => ToSet(logs[k].recs) \subseteq In(tables, db.adds))
    <3> SUFFICES ASSUME NEW k \in DOMAIN logs \ (db.replay \ {L})
                 PROVE  k < used /\ (k >= db.log_number => ToSet(logs[k].recs) \subseteq In(tables, db.adds))
      OBVIOUS
    <3>1. CASE k = L
      <4>1. \A i \in 1..Len(logs[L].recs) : logs[L].recs[i] \in In(tables, db.adds)
        BY <1>1, <1>2 DEF ReplayInv, L
      <4>2. ToSet(logs[L].recs) \subseteq In(tables, db.adds)
        BY <4>1, <1>5 DEF ToSet
      <4> QED  BY <3>1, <4>2, <1>6
    <3>2. CASE k # L
      <4>1. k \in DOMAIN logs \ db.replay /\ k \in Nat
        BY <3>2, <1>3
      <4>2. k < nf /\ (k >= db.log_number => ToSet(logs[k].recs) \subseteq In(tables, db.adds))
        BY <4>1, <1>1, <1>2 DEF ReplayInv
      <4>3. k < used
        BY <4>1, <4>2, <1>2, <1>6
      <4> QED  BY <4>2, <4>3
    <3> QED  BY <3>1, <3>2
  <2>3. db'.replay # {} => 0 <= Len(logs[Min(db'.replay)].recs)
    <3> SUFFICES ASSUME db'.replay # {} PROVE 0 <= Len(logs[Min(db'.replay)].recs)
      OBVIOUS
    <3>1. PICK k : k \in db'.replay
      OBVIOUS
    <3>2. db'.replay \in SUBSET Nat /\ db'.replay \subseteq DOMAIN logs
      BY <1>2, <1>3, <1>8
    <3>3. Min(db'.replay) \in db'.replay
      BY <3>1, <3>2, MinIsIn
    <3>4. logs[Min(db'.replay)].recs \in Seq(Entries)
      BY <3>2, <3>3, <1>3 DEF LogFiles
    <3> QED  BY <3>4
  <2>4. db'.replay \subseteq DOMAIN logs
    BY <1>3, <1>8
  <2> QED  BY <2>1, <2>2, <2>3, <2>4, <1>8, <1>9 DEF ReplayInv
<1>15. CreatingInv' /\ RecoveredInv' /\ OpenInv' /\ BaseInv' /\ JobInv' /\ RepairInv'
  BY <1>9, <1>1, NotRunning, NotMending DEF CreatingInv, RecoveredInv, Repairing
<1> QED  BY <1>10, <1>11, <1>12, <1>13, <1>14, <1>15 DEF RecInv

\* A new log, with a number above those of all logs.
LEMMA NewLogFile ==
  ASSUME RecInv, pc \in Opening \cup {"open"}, pc' \in Opening \cup {"open"},
         UNCHANGED <<current, manifests, tables, acked, durable, opened>>,
         logs' = Put(logs, db.next_file, NewFile(<<>>)), db.next_file # 0,
         \A n \in DOMAIN logs : n < db.next_file
  PROVE  /\ FileTypes' /\ Bounded' /\ Kept' /\ CurrentInv' /\ OpenedInv'
         /\ DOMAIN logs' = DOMAIN logs \cup {db.next_file} /\ logs'[db.next_file] = NewFile(<<>>)
         /\ \A n \in DOMAIN logs : logs'[n] = logs[n]
<1> DEFINE nf == db.next_file
           f == NewFile(<<>>)
<1>1. nf \in Nat \ {0}
  BY DEF RecInv, ProcessTypes, DBs
<1>2. logs \in [DOMAIN logs -> LogFiles] /\ DOMAIN logs \subseteq Nat \ {0}
  BY DEF RecInv, FileTypes
<1>3. f \in LogFiles /\ ToSet(f.recs) = {}
  <2>1. f \in [recs : Seq(Entries), synced : Nat] /\ f.recs = <<>> /\ f.synced = 0 /\ ToSet(f.recs) = {}
    BY EmptyFile
  <2> QED  BY <2>1 DEF LogFiles
<1> HIDE DEF f
<1>4. /\ DOMAIN logs' = DOMAIN logs \cup {nf} /\ logs'[nf] = f
      /\ logs' \in [DOMAIN logs \cup {nf} -> LogFiles]
      /\ \A n \in DOMAIN logs : n # nf => logs'[n] = logs[n]
  BY <1>2, <1>3 DEF Put, f
<1>5. nf \notin DOMAIN logs
  BY <1>1
<1>6. \A n \in DOMAIN logs : logs'[n] = logs[n]
  BY <1>4, <1>5
<1> HIDE DEF nf
<1>7. FileTypes'
  BY <1>1, <1>2, <1>4 DEF RecInv, FileTypes
<1>8. \A min : MoreLogged(logs, logs', min)
  BY <1>4, <1>6 DEF MoreLogged
<1>9. Bounded'
  <2>1. PICK b \in Nat : \A n \in DOMAIN logs \cup DOMAIN tables : n <= b
    BY DEF RecInv, Bounded
  <2>2. b + nf \in Nat /\ \A n \in DOMAIN logs' \cup DOMAIN tables' : n <= b + nf
    <3>1. DOMAIN tables \subseteq Nat
      BY DEF RecInv, FileTypes
    <3> QED  BY <1>1, <1>2, <1>4, <2>1, <3>1
  <2>3. PICK c \in Nat : \A e \in In(tables, DOMAIN tables) \cup Logged(logs, 0) : e.seq <= c
    BY DEF RecInv, Bounded
  <2>4. ASSUME NEW e \in Logged(logs', 0) PROVE e \in Logged(logs, 0)
    <3>1. PICK n \in DOMAIN logs' : n >= 0 /\ e \in ToSet(logs'[n].recs)
      BY InLogs
    <3>2. n \in DOMAIN logs /\ logs'[n] = logs[n]
      BY <3>1, <1>3, <1>4, <1>6
    <3> QED  BY <3>1, <3>2, InLogs
  <2>5. \A e \in In(tables', DOMAIN tables') \cup Logged(logs', 0) : e.seq <= c
    BY <2>3, <2>4
  <2> QED  BY <2>2, <2>5 DEF Bounded
<1>10. Kept'
  <2>1. SameTables(tables, tables', DOMAIN tables) /\ MoreLogged(logs, logs', 0)
    BY <1>8 DEF SameTables
  <2>2. Holds(tables', logs', DOMAIN tables, 0, acked', durable')
    BY <2>1, HoldsStays DEF RecInv, Kept
  <2> QED  BY <2>2 DEF Kept
<1>11. CurrentInv' /\ OpenedInv'
  <2>1. pc \notin Mending /\ pc' \notin Mending \cup {"corrupt"}
    BY DEF Opening, Mending, Repairing
  <2>2. ASSUME current \in DOMAIN manifests, NEW p \in Leftovers(manifests[current]), Numbered(p)
        PROVE  StaysSound(p)
    <3>1. Applied(p) \subseteq DOMAIN tables
      BY <2>1, <2>2 DEF RecInv, CurrentInv, Mending, Sound
    <3> QED  BY <3>1, <1>8 DEF StaysSound, SameTables
  <2>3. current = NoFile => acked' = {}
    BY <2>1 DEF RecInv, CurrentInv, Mending
  <2> QED  BY <2>1, <2>2, <2>3, CurrentStays DEF RecInv
<1> QED  BY <1>4, <1>6, <1>7, <1>9, <1>10, <1>11 DEF nf, f

LEMMA NewLogStep == ASSUME RecInv, NewLog PROVE RecInv'
<1> DEFINE nf == db.next_file
<1>1. pc = "replaying" /\ db.replay = {}
  BY DEF NewLog
<1>2. CASE GiveUp /\ UNCHANGED files
  BY <1>1, <1>2, GivingUp DEF Mending, Repairing
<1>3. CASE /\ Succeeds /\ logs' = Put(logs, db.next_file, NewFile(<<>>))
           /\ db' = [Recovered(db) EXCEPT !.logfile = db.next_file, !.next_file = @ + 1]
           /\ pc' = "logged"
           /\ UNCHANGED <<current, manifests, tables, job, history>>
  <2>1. db \in DBs /\ nf \in Nat /\ db.seq \in Nat /\ db.max \in Nat /\ ReplayInv /\ NumbersInv
        /\ pc \in Opening /\ pc' \in Opening /\ DOMAIN logs \subseteq Nat
    BY <1>1, <1>3 DEF RecInv, ProcessTypes, DBs, Opening, FileTypes
  <2>2. \A n \in DOMAIN logs : n < nf
    BY <1>1, <2>1 DEF ReplayInv
  <2>3. nf # 0
    BY <2>1 DEF NumbersInv
  <2>4. UNCHANGED <<current, manifests, tables, acked, durable, opened, job, writes>>
    BY <1>3 DEF history
  <2>5. /\ FileTypes' /\ Bounded' /\ Kept' /\ CurrentInv' /\ OpenedInv'
        /\ DOMAIN logs' = DOMAIN logs \cup {nf} /\ logs'[nf] = NewFile(<<>>)
        /\ \A n \in DOMAIN logs : logs'[n] = logs[n]
    BY <1>3, <2>1, <2>2, <2>3, <2>4, NewLogFile
  <2> DEFINE mx == Max({db.seq, db.max})
  <2>6. mx \in Nat /\ mx >= db.seq /\ mx >= db.max
    BY <2>1, MaxOfTwo
  <2>7. db' = [db EXCEPT !.seq = mx, !.logfile = nf, !.next_file = nf + 1]
    BY <1>3, <2>1 DEF Recovered, DBs
  <2> HIDE DEF mx
  <2>8. /\ db' \in DBs /\ db'.next_file = nf + 1 /\ db'.seq = mx /\ db'.logfile = nf
        /\ db'.adds = db.adds /\ db'.manifest = db.manifest /\ db'.log_number = db.log_number
        /\ db'.version = db.version /\ db'.mem = db.mem /\ db'.imm = db.imm
        /\ db'.inputs = db.inputs /\ db'.tail = db.tail
    <3>1. nf + 1 \in Nat
      BY <2>1
    <3>2. db' \in DBs
      BY <2>1, <2>6, <2>7, <3>1 DEF DBs
    <3> QED  BY <2>1, <2>7, <3>2 DEF DBs
  <2>9. ProcessTypes'
    <3>1. left' \in [writes : Nat, crashes : Nat, failures : Nat, compactions : Nat, repairs : Nat]
      BY <1>3, Budgeted DEF RecInv
    <3> QED  BY <3>1, <2>8, <2>4, <1>1, <1>3 DEF RecInv, ProcessTypes, Resting, Opening
  <2>10. NumbersInv'
    <3>2. current \in DOMAIN manifests =>
            \A p \in Leftovers(manifests[current]) : Numbered(p) => Last(p).next <= nf + 1
      <4> SUFFICES ASSUME current \in DOMAIN manifests, NEW p \in Leftovers(manifests[current]), Numbered(p)
                   PROVE  Last(p).next <= nf + 1
        OBVIOUS
      <4>1. Last(p).next <= nf
        BY <2>1 DEF NumbersInv
      <4>2. Last(p).next \in Nat
        BY CurrentNext DEF RecInv
      <4> QED  BY <4>1, <4>2, <2>1
    <3>3. db.manifest \in Nat /\ db.manifest < nf + 1 /\ db.log_number < nf + 1
      BY <2>1 DEF NumbersInv, DBs
    <3>4. db.version \cup db.adds \subseteq DOMAIN tables
      BY <2>1 DEF NumbersInv
    <3>5. \A t \in db.version \cup db.adds : t < nf + 1
      <4>1. \A t \in db.version \cup db.adds : t < nf /\ t \in Nat
        BY <2>1 DEF NumbersInv, DBs
      <4> QED  BY <4>1, <2>1
    <3> QED  BY <3>2, <3>3, <3>4, <3>5, <2>4, <2>8 DEF NumbersInv
  <2>11. RecoveredInv'
    <3>1. acked \subseteq In(tables, db.version \cup db.adds)
      <4> SUFFICES ASSUME NEW e \in acked PROVE e \in In(tables, db.version) \cup In(tables, db.adds)
        BY InUnion
      <4>1. e \in In(tables, db.version) \cup Logged(logs, db.log_number)
        BY <1>1, <2>1 DEF ReplayInv, Holds
      <4>2. CASE e \in Logged(logs, db.log_number)
        <5>1. PICK n \in DOMAIN logs : n >= db.log_number /\ e \in ToSet(logs[n].recs)
          BY <4>2, InLogs
        <5> QED  BY <5>1, <1>1, <2>1 DEF ReplayInv
      <4> QED  BY <4>1, <4>2
    <3>2. \A e \in In(tables, db.version \cup db.adds) : e.seq <= mx
      <4> SUFFICES ASSUME NEW e \in In(tables, db.version \cup db.adds) PROVE e.seq <= mx
        OBVIOUS
      <4>1. e.seq \in Nat
        <5>1. PICK t \in db.version \cup db.adds : e \in tables[t]
          BY InTables
        <5>2. t \in DOMAIN tables
          BY <2>1 DEF NumbersInv
        <5> QED  BY <5>1, <5>2 DEF RecInv, FileTypes, Entries
      <4>2. e \in In(tables, db.version) \/ e \in In(tables, db.adds)
        BY InUnion
      <4>3. e.seq <= db.seq \/ e.seq <= db.max
        BY <4>2, <1>1, <2>1 DEF ReplayInv
      <4> QED  BY <4>1, <4>3, <2>1, <2>6
    <3>3. db.mem = {} /\ db.imm = {} /\ (opened = TRUE => current < db.manifest)
      BY <1>1, <2>1 DEF ReplayInv
    <3>4. nf < nf + 1 /\ \A n \in DOMAIN logs \cup {nf} : n < nf + 1
      BY <2>1, <2>2
    <3>5. nf \in DOMAIN logs' /\ \A n \in DOMAIN logs' : n < nf + 1
      BY <2>5, <3>4
    <3> QED  BY <1>3, <2>4, <2>5, <2>8, <3>1, <3>2, <3>3, <3>4, <3>5 DEF RecoveredInv
  <2>12. CreatingInv' /\ ReplayInv' /\ OpenInv' /\ BaseInv' /\ JobInv' /\ RepairInv'
    BY <1>3, NotRunning, NotMending DEF CreatingInv, ReplayInv, Repairing
  <2> QED  BY <2>5, <2>9, <2>10, <2>11, <2>12 DEF RecInv
<1> QED  BY <1>1, <1>2, <1>3 DEF NewLog

-----------------------------------------------------------------------------
(***************************************************************************)
(* Opening: the new manifest.                                              *)
(***************************************************************************)

Rewritten == <<Snapshot, NewEdit>>

\* The manifest that an Open writes is sound.
LEMMA RewrittenSound ==
  ASSUME RecInv, pc \in {"logged", "written", "synced", "named"}
  PROVE  /\ Snapshot \in Edits /\ NewEdit \in FullEdits /\ ~Numbered(<<Snapshot>>)
         /\ Rewritten \in Seq(Edits) /\ Numbered(Rewritten) /\ Last(Rewritten) = NewEdit
         /\ NewEdit.log = db.logfile /\ NewEdit.next = db.next_file /\ NewEdit.seq = db.seq
         /\ Applied(Rewritten) = db.version \cup db.adds
         /\ Sound(Rewritten, tables, logs, acked, durable)
<1>1. db \in DBs /\ NumbersInv /\ RecoveredInv /\ pc \in Opening /\ durable \subseteq acked
  BY DEF RecInv, ProcessTypes, Opening
<1>2. db.logfile \in Nat /\ db.logfile < db.next_file
  BY <1>1 DEF RecInv, RecoveredInv, FileTypes
<1>3. /\ Snapshot \in Snapshots /\ Snapshot.add = db.version /\ Snapshot.next = NoFile
      /\ NewEdit \in FullEdits /\ NewEdit.add = db.adds /\ NewEdit.del = {}
      /\ NewEdit.log = db.logfile /\ NewEdit.next = db.next_file /\ NewEdit.seq = db.seq
  BY <1>1, <1>2 DEF Snapshot, NewEdit, Edit, Snapshots, FullEdits, DBs
<1> HIDE DEF Snapshot, NewEdit
<1>4. Snapshot \in Edits /\ NewEdit \in Edits
  BY <1>3 DEF Edits
<1>5. /\ Applied(Rewritten) = Snapshot.add \cup NewEdit.add
      /\ Rewritten \in Seq(Edits) /\ Last(Rewritten) = NewEdit /\ Rewritten # <<>>
  BY <1>3, <1>4, AppliedTwo DEF Rewritten
<1>6. Last(<<Snapshot>>) = Snapshot
  BY <1>4, AppliedOne
<1>7. ~Numbered(<<Snapshot>>)
  BY <1>3, <1>6 DEF Numbered
<1>8. Numbered(Rewritten)
  BY <1>3, <1>5, RecoveryAssumption DEF Numbered, FullEdits
<1>9. Applied(Rewritten) = db.version \cup db.adds
  BY <1>3, <1>5
<1>10. Sound(Rewritten, tables, logs, acked, durable)
  <2>1. db.version \cup db.adds \subseteq DOMAIN tables /\ \A t \in db.version \cup db.adds : t < db.next_file
    BY <1>1 DEF NumbersInv
  <2>2. acked \subseteq In(tables, db.version \cup db.adds)
        /\ \A e \in In(tables, db.version \cup db.adds) : e.seq <= db.seq
    BY <1>1 DEF RecoveredInv
  <2> QED  BY <1>1, <1>2, <1>3, <1>5, <1>9, <2>1, <2>2 DEF Sound, Holds
<1> QED  BY <1>3, <1>4, <1>5, <1>7, <1>8, <1>9, <1>10

LEMMA RewrittenFile ==
  ASSUME RecInv, pc \in {"logged", "written", "synced", "named"}
  PROVE  /\ NewManifest \in ManifestFiles /\ Synced(NewManifest) \in ManifestFiles
         /\ NewManifest.recs = Rewritten /\ Synced(NewManifest).recs = Rewritten
         /\ Synced(NewManifest).synced = Len(Rewritten)
         /\ \A p \in Leftovers(NewManifest) : Numbered(p) => p = Rewritten
         /\ Leftovers(Synced(NewManifest)) = {Rewritten}
<1>1. Snapshot \in Edits /\ NewEdit \in FullEdits /\ ~Numbered(<<Snapshot>>) /\ NewEdit \in Edits
  BY RewrittenSound DEF Edits
<1> HIDE DEF Snapshot, NewEdit
<1>2. /\ NewManifest \in [recs : Seq(Edits), synced : Nat] /\ NewManifest.recs = <<Snapshot, NewEdit>>
      /\ NewManifest.synced = 0
      /\ Leftovers(NewManifest) = {<<>>, <<Snapshot>>, <<Snapshot, NewEdit>>}
  BY <1>1, NewFileTwo DEF NewManifest
<1>3. NewManifest \in ManifestFiles
  BY <1>1, ManifestOfTwo DEF NewManifest
<1> HIDE DEF NewManifest
<1>4. /\ Synced(NewManifest) \in [recs : Seq(Edits), synced : Nat]
      /\ Synced(NewManifest).recs = NewManifest.recs /\ Synced(NewManifest).synced = Len(NewManifest.recs)
      /\ Leftovers(Synced(NewManifest)) = {NewManifest.recs}
  BY <1>2, SyncedFile
<1>5. Synced(NewManifest) \in ManifestFiles
  <2>1. Len(NewManifest.recs) \in Nat
    BY <1>2
  <2>2. \A i \in 2..Len(NewManifest.recs) : NewManifest.recs[i] \in FullEdits
    BY <1>3 DEF ManifestFiles
  <2> QED  BY <1>4, <2>1, <2>2 DEF ManifestFiles
<1>6. \A p \in Leftovers(NewManifest) : Numbered(p) => p = Rewritten
  <2>1. ~Numbered(<<>>)
    BY DEF Numbered
  <2> QED  BY <1>1, <1>2, <2>1 DEF Rewritten
<1> QED  BY <1>2, <1>3, <1>4, <1>5, <1>6 DEF Rewritten

\* The new manifest is written or synced.
LEMMA ManifestChanges ==
  ASSUME RecInv, pc \in {"logged", "written"}, pc' \in {"written", "synced"},
         UNCHANGED <<current, logs, tables, db, job, history>>, Succeeds,
         NEW f \in ManifestFiles, f.recs = Rewritten, \A p \in Leftovers(f) : Numbered(p) => p = Rewritten,
         DOMAIN manifests' = DOMAIN manifests \cup {db.manifest}, manifests'[db.manifest] = f,
         \A n \in DOMAIN manifests : n # db.manifest => manifests'[n] = manifests[n],
         manifests' \in [DOMAIN manifests' -> ManifestFiles],
         f = IF pc' = "written" THEN NewManifest ELSE Synced(NewManifest)
  PROVE  RecInv'
<1>1. UNCHANGED <<current, logs, tables, db, job, writes, acked, durable, opened>>
  BY DEF history
<1>2. db.manifest \in Nat /\ RecoveredInv /\ NumbersInv /\ pc \notin Mending /\ pc' \notin Mending \cup {"corrupt"}
  BY DEF RecInv, NumbersInv, Opening, Mending, Repairing
<1>3. /\ Numbered(Rewritten) /\ Last(Rewritten) = NewEdit /\ NewEdit.next = db.next_file
      /\ Sound(Rewritten, tables, logs, acked, durable) /\ NewEdit \in FullEdits
  BY RewrittenSound
<1>4. opened = TRUE => current < db.manifest /\ current # db.manifest
  <2>1. opened = TRUE => current < db.manifest
    BY <1>2 DEF RecoveredInv
  <2>2. opened = TRUE => current \in Nat
    BY DEF RecInv, OpenedInv, FileTypes
  <2>3. (current \in Nat /\ current < db.manifest) => current # db.manifest
    BY <1>2
  <2> QED  BY <2>1, <2>2, <2>3
<1>5. FileTypes'
  BY <1>1, <1>2 DEF RecInv, FileTypes
<1>6. Bounded' /\ Kept'
  BY <1>1 DEF RecInv, Bounded, Kept
<1>7. CurrentInv'
  <2>1. ASSUME current' \in DOMAIN manifests', NEW p \in Leftovers(manifests'[current']), Numbered(p)
        PROVE  /\ Sound(p, tables', logs', acked', durable')
               /\ Numbered(manifests'[current'].recs) /\ Last(p).next <= Last(manifests'[current'].recs).next
    <3>1. CASE current = db.manifest
      <4>1. p = Rewritten /\ manifests'[current'].recs = Rewritten
        BY <1>1, <2>1, <3>1
      <4>2. Last(p).next <= Last(p).next
        BY <1>3, <4>1 DEF FullEdits
      <4> QED  BY <1>1, <1>3, <4>1, <4>2
    <3>2. CASE current # db.manifest
      <4>1. current \in DOMAIN manifests /\ manifests'[current'] = manifests[current]
        BY <1>1, <2>1, <3>2
      <4> QED  BY <1>1, <1>2, <2>1, <4>1 DEF RecInv, CurrentInv, Mending
    <3> QED  BY <3>1, <3>2
  <2>2. current' = NoFile => acked' = {} /\ opened' = FALSE
    BY <1>1, <1>2 DEF RecInv, CurrentInv, Mending
  <2> QED  BY <2>1, <2>2 DEF CurrentInv
<1>8. OpenedInv'
  BY <1>1, <1>2, <1>4 DEF RecInv, OpenedInv, Mending
<1>9. NumbersInv'
  <2>1. ASSUME current' \in DOMAIN manifests', NEW p \in Leftovers(manifests'[current']), Numbered(p)
        PROVE  Last(p).next <= db'.next_file
    <3>1. CASE current = db.manifest
      <4>1. p = Rewritten
        BY <1>1, <2>1, <3>1
      <4>2. db.next_file \in Nat
        BY DEF RecInv, ProcessTypes, DBs
      <4> QED  BY <1>1, <1>3, <4>1, <4>2
    <3>2. CASE current # db.manifest
      <4>1. current \in DOMAIN manifests /\ manifests'[current'] = manifests[current] /\ pc \in Opening
        BY <1>1, <2>1, <3>2 DEF Opening
      <4> QED  BY <1>1, <1>2, <2>1, <4>1 DEF NumbersInv
    <3> QED  BY <3>1, <3>2
  <2>2. pc \in Opening
    BY DEF Opening
  <2> QED  BY <1>1, <1>2, <2>1, <2>2 DEF NumbersInv
<1>10. RecoveredInv'
  <2>1. NewManifest' = NewManifest
    BY <1>1 DEF NewManifest, Snapshot, NewEdit
  <2> HIDE DEF NewManifest
  <2> QED  BY <1>1, <1>2, <2>1 DEF RecoveredInv
<1>11. ProcessTypes'
  <2>1. left' \in [writes : Nat, crashes : Nat, failures : Nat, compactions : Nat, repairs : Nat]
    BY Budgeted DEF RecInv
  <2> QED  BY <2>1, <1>1 DEF RecInv, ProcessTypes, Resting, Opening
<1>12. CreatingInv' /\ ReplayInv' /\ OpenInv' /\ BaseInv' /\ JobInv' /\ RepairInv'
  BY NotRunning, NotMending DEF CreatingInv, ReplayInv, Repairing
<1> QED  BY <1>5, <1>6, <1>7, <1>8, <1>9, <1>10, <1>11, <1>12 DEF RecInv

LEMMA WriteManifestStep == ASSUME RecInv, WriteManifest PROVE RecInv'
<1>1. pc = "logged"
  BY DEF WriteManifest
<1>2. CASE GiveUp /\ UNCHANGED files
  BY <1>1, <1>2, GivingUp DEF Mending, Repairing
<1>3. CASE /\ Succeeds /\ manifests' = Put(manifests, db.manifest, NewManifest)
           /\ pc' = "written"
           /\ UNCHANGED <<current, logs, tables, db, job, history>>
  <2>1. /\ NewManifest \in ManifestFiles /\ NewManifest.recs = Rewritten
        /\ \A p \in Leftovers(NewManifest) : Numbered(p) => p = Rewritten
    BY <1>1, RewrittenFile
  <2>2. manifests \in [DOMAIN manifests -> ManifestFiles]
    BY DEF RecInv, FileTypes
  <2> HIDE DEF NewManifest
  <2>3. /\ DOMAIN manifests' = DOMAIN manifests \cup {db.manifest} /\ manifests'[db.manifest] = NewManifest
        /\ \A n \in DOMAIN manifests : n # db.manifest => manifests'[n] = manifests[n]
        /\ manifests' \in [DOMAIN manifests' -> ManifestFiles]
    BY <1>3, <2>1, <2>2 DEF Put
  <2>4. NewManifest = IF pc' = "written" THEN NewManifest ELSE Synced(NewManifest)
    BY <1>3
  <2> QED  BY <1>1, <1>3, <2>1, <2>3, <2>4, ManifestChanges, ZenonT(30)
<1> QED  BY <1>2, <1>3 DEF WriteManifest, WithSync, NewManifest, Snapshot, NewEdit

\* The new manifest is removed; CURRENT does not name it if the database was
\* open before.
LEMMA AbandonStep == ASSUME RecInv, pc \in {"written", "synced"}, Abandon PROVE RecInv'
<1>1. /\ Fails /\ pc' = "closed" /\ db' = Fresh /\ job' = job
      /\ UNCHANGED <<current, logs, tables, writes, acked, durable, opened>>
      /\ manifests' = Keep(manifests, DOMAIN manifests \ {db.manifest})
  BY DEF Abandon, GiveUp, history
<1>2. db.manifest \in Nat /\ RecoveredInv /\ pc \notin Mending /\ job = NoJob /\ durable \subseteq acked
  BY DEF RecInv, NumbersInv, Opening, Mending, Repairing, ProcessTypes
<1>3. /\ DOMAIN manifests' = DOMAIN manifests \ {db.manifest}
      /\ manifests' \in [DOMAIN manifests' -> ManifestFiles]
      /\ \A n \in DOMAIN manifests' : manifests'[n] = manifests[n]
  <2>1. manifests \in [DOMAIN manifests -> ManifestFiles]
    BY DEF RecInv, FileTypes
  <2> QED  BY <1>1, <2>1 DEF Keep
<1>4. FileTypes'
  BY <1>1, <1>3 DEF RecInv, FileTypes
<1>5. Bounded' /\ Kept'
  BY <1>1 DEF RecInv, Bounded, Kept
<1>6. CurrentInv'
  BY <1>1, <1>2, <1>3 DEF RecInv, CurrentInv, Mending
<1>7. OpenedInv'
  <2>1. opened = TRUE => current # db.manifest
    <3>1. opened = TRUE => current < db.manifest
      BY <1>2 DEF RecoveredInv
    <3>2. opened = TRUE => current \in Nat
      BY DEF RecInv, OpenedInv, FileTypes
    <3>3. (current \in Nat /\ current < db.manifest) => current # db.manifest
      BY <1>2
    <3> QED  BY <3>1, <3>2, <3>3
  <2>2. "closed" \notin Repairing \cup {"unrepaired", "corrupt"}
    BY DEF Repairing
  <2> QED  BY <1>1, <1>3, <2>1, <2>2 DEF RecInv, OpenedInv
<1>8. ProcessTypes'
  BY <1>1, <1>2, IdleTypes DEF RecInv, Idles, Resting
<1>9. CreatingInv' /\ NumbersInv' /\ ReplayInv' /\ RecoveredInv' /\ OpenInv' /\ BaseInv' /\ JobInv' /\ RepairInv'
  BY <1>1, NotOpen, NotMending DEF CreatingInv, Opening, Repairing
<1> QED  BY <1>4, <1>5, <1>6, <1>7, <1>8, <1>9 DEF RecInv

LEMMA SyncManifestStep == ASSUME RecInv, SyncManifest PROVE RecInv'
<1>1. pc = "written"
  BY DEF SyncManifest
<1>2. CASE Abandon
  BY <1>1, <1>2, AbandonStep
<1>3. CASE /\ Succeeds /\ manifests' = [manifests EXCEPT ![db.manifest] = Synced(@)]
           /\ pc' = "synced"
           /\ UNCHANGED <<current, logs, tables, db, job, history>>
  <2>1. /\ Synced(NewManifest) \in ManifestFiles /\ Synced(NewManifest).recs = Rewritten
        /\ Leftovers(Synced(NewManifest)) = {Rewritten}
    BY <1>1, RewrittenFile
  <2>2. manifests \in [DOMAIN manifests -> ManifestFiles]
    BY DEF RecInv, FileTypes
  <2>3. db.manifest \in DOMAIN manifests /\ manifests[db.manifest] = NewManifest
    BY <1>1 DEF RecInv, RecoveredInv
  <2> DEFINE f == Synced(NewManifest)
  <2>4. f \in ManifestFiles /\ f.recs = Rewritten /\ \A p \in Leftovers(f) : Numbered(p) => p = Rewritten
    BY <2>1
  <2>5. manifests' = [manifests EXCEPT ![db.manifest] = f]
    BY <1>3, <2>3
  <2>6. f = IF pc' = "written" THEN NewManifest ELSE Synced(NewManifest)
    BY <1>3
  <2> HIDE DEF NewManifest, f
  <2>7. /\ DOMAIN manifests' = DOMAIN manifests \cup {db.manifest} /\ manifests'[db.manifest] = f
        /\ \A n \in DOMAIN manifests : n # db.manifest => manifests'[n] = manifests[n]
        /\ manifests' \in [DOMAIN manifests' -> ManifestFiles]
    BY <2>2, <2>3, <2>4, <2>5
  <2> QED  BY <1>1, <1>3, <2>4, <2>6, <2>7, ManifestChanges, ZenonT(30)
<1> QED  BY <1>2, <1>3 DEF SyncManifest

LEMMA SetCurrentFileStep == ASSUME RecInv, SetCurrentFile PROVE RecInv'
<1>1. pc = "synced"
  BY DEF SetCurrentFile
<1>2. CASE Abandon
  BY <1>1, <1>2, AbandonStep
<1>3. CASE /\ Succeeds /\ current' = db.manifest /\ pc' = "named"
           /\ UNCHANGED <<manifests, logs, tables, db, job, history>>
  <2>1. UNCHANGED <<manifests, logs, tables, db, job, writes, acked, durable, opened>>
    BY <1>3 DEF history
  <2>2. /\ Numbered(Rewritten) /\ Last(Rewritten) = NewEdit /\ NewEdit.next = db.next_file
        /\ Sound(Rewritten, tables, logs, acked, durable)
    BY <1>1, RewrittenSound
  <2>3. RecoveredInv /\ NumbersInv /\ pc \in Opening
    BY <1>1 DEF RecInv, Opening
  <2>4. db.manifest \in DOMAIN manifests /\ manifests[db.manifest] = Synced(NewManifest)
    BY <1>1, <2>3 DEF RecoveredInv
  <2>5. manifests[db.manifest].recs = Rewritten /\ Leftovers(manifests[db.manifest]) = {Rewritten}
    BY <1>1, <2>4, RewrittenFile
  <2>6. db.manifest \in Nat /\ db.next_file \in Nat /\ db.manifest < db.next_file /\ db.manifest # NoFile
    BY <2>3, RecoveryAssumption DEF RecInv, ProcessTypes, DBs, NumbersInv
  <2>7. FileTypes' /\ Bounded' /\ Kept'
    BY <1>3, <2>1, <2>6 DEF RecInv, FileTypes, Bounded, Kept
  <2>8. CurrentInv'
    <3>1. db.next_file <= db.next_file
      BY <2>6
    <3>2. \A p \in Leftovers(manifests'[current']) : Sound(p, tables', logs', acked', durable')
            /\ Numbered(manifests'[current'].recs) /\ Last(p).next <= Last(manifests'[current'].recs).next
      BY <1>3, <2>1, <2>2, <2>5, <3>1
    <3> QED  BY <1>3, <2>6, <3>2 DEF CurrentInv
  <2>9. OpenedInv'
    <3>1. \A p \in Leftovers(manifests'[current']) : Numbered(p) /\ current' < Last(p).next
      BY <1>3, <2>1, <2>2, <2>5, <2>6
    <3>2. pc' \notin Repairing \cup {"unrepaired", "corrupt"} /\ current' \in DOMAIN manifests' /\ opened' \in BOOLEAN
      BY <1>3, <2>1, <2>4 DEF RecInv, OpenedInv, Repairing
    <3> QED  BY <3>1, <3>2 DEF OpenedInv
  <2>10. NumbersInv'
    <3>1. db.next_file <= db.next_file
      BY <2>6
    <3>2. \A p \in Leftovers(manifests'[current']) : Last(p).next <= db'.next_file
      BY <1>3, <2>1, <2>2, <2>5, <3>1
    <3> QED  BY <2>1, <2>3, <3>2 DEF NumbersInv
  <2>11. RecoveredInv'
    <3>1. NewManifest' = NewManifest
      BY <2>1 DEF NewManifest, Snapshot, NewEdit
    <3> HIDE DEF NewManifest
    <3> QED  BY <1>1, <1>3, <2>1, <2>3, <3>1 DEF RecoveredInv
  <2>12. ProcessTypes'
    <3>1. left' \in [writes : Nat, crashes : Nat, failures : Nat, compactions : Nat, repairs : Nat]
      BY <1>3, Budgeted DEF RecInv
    <3> QED  BY <1>1, <1>3, <3>1, <2>1 DEF RecInv, ProcessTypes, Resting, Opening
  <2>13. CreatingInv' /\ ReplayInv' /\ OpenInv' /\ BaseInv' /\ JobInv' /\ RepairInv'
    BY <1>3, NotRunning, NotMending DEF CreatingInv, ReplayInv, Repairing
  <2> QED  BY <2>7, <2>8, <2>9, <2>10, <2>11, <2>12, <2>13 DEF RecInv
<1> QED  BY <1>2, <1>3 DEF SetCurrentFile

\* What RemoveObsoleteFiles leaves, in a process whose manifest is the current
\* one.
LEMMA Removing ==
  ASSUME FileTypes, Bounded, NEW d, RemoveObsoleteFiles(d), d.bg_error = "OK", current \in DOMAIN manifests,
         d.manifest = current, current' = current, d.log_number \in Nat
  PROVE  /\ FileTypes' /\ Bounded'
         /\ current \in DOMAIN manifests' /\ manifests'[current] = manifests[current]
         /\ SameTables(tables, tables', d.version \cap DOMAIN tables)
         /\ DOMAIN logs' \subseteq DOMAIN logs
         /\ \A n \in DOMAIN logs' : logs'[n] = logs[n]
         /\ \A n \in DOMAIN logs : n >= d.log_number => n \in DOMAIN logs'
<1>1. PICK l \in SUBSET ObsoleteLogs(d), t \in SUBSET (DOMAIN tables \ d.version) :
        /\ logs' = Keep(logs, DOMAIN logs \ l)
        /\ tables' = Keep(tables, DOMAIN tables \ t)
        /\ manifests' = Keep(manifests, {n \in DOMAIN manifests : n >= d.manifest})
  BY Zenon DEF RemoveObsoleteFiles
<1>2. /\ logs \in [DOMAIN logs -> LogFiles] /\ tables \in [DOMAIN tables -> SUBSET Entries]
      /\ manifests \in [DOMAIN manifests -> ManifestFiles] /\ DOMAIN manifests \subseteq Nat
      /\ DOMAIN logs \subseteq Nat \ {0} /\ DOMAIN tables \subseteq Nat
  BY DEF FileTypes
<1>3. /\ DOMAIN logs' = DOMAIN logs \ l /\ logs' \in [DOMAIN logs' -> LogFiles]
      /\ \A n \in DOMAIN logs' : logs'[n] = logs[n]
  BY <1>1, <1>2 DEF Keep
<1>4. /\ DOMAIN tables' = DOMAIN tables \ t /\ tables' \in [DOMAIN tables' -> SUBSET Entries]
      /\ \A n \in DOMAIN tables' : tables'[n] = tables[n]
  BY <1>1, <1>2 DEF Keep
<1>5. /\ DOMAIN manifests' = {n \in DOMAIN manifests : n >= d.manifest}
      /\ manifests' \in [DOMAIN manifests' -> ManifestFiles]
      /\ \A n \in DOMAIN manifests' : manifests'[n] = manifests[n]
  BY <1>1, <1>2 DEF Keep
<1>6. FileTypes'
  BY <1>2, <1>3, <1>4, <1>5 DEF FileTypes
<1>7. current \in DOMAIN manifests' /\ manifests'[current] = manifests[current]
  BY <1>2, <1>5
<1>8. SameTables(tables, tables', d.version \cap DOMAIN tables)
  BY <1>4 DEF SameTables
<1>9. \A n \in DOMAIN logs : n >= d.log_number => n \in DOMAIN logs'
  <2>1. \A n \in l : n \in DOMAIN logs /\ n < d.log_number
    BY DEF ObsoleteLogs
  <2>2. \A n \in DOMAIN logs : n \in Nat
    BY <1>2
  <2>3. ASSUME NEW n \in l PROVE ~(n >= d.log_number)
    BY <2>1, <2>2
  <2> QED  BY <1>3, <2>3
<1>10. Bounded'
  <2>1. PICK b \in Nat : \A n \in DOMAIN logs \cup DOMAIN tables : n <= b
    BY DEF Bounded
  <2>2. PICK c \in Nat : \A e \in In(tables, DOMAIN tables) \cup Logged(logs, 0) : e.seq <= c
    BY DEF Bounded
  <2>3. \A n \in DOMAIN logs' \cup DOMAIN tables' : n <= b
    BY <2>1, <1>3, <1>4
  <2>4. ASSUME NEW e \in In(tables', DOMAIN tables') PROVE e \in In(tables, DOMAIN tables)
    BY <1>4, InTables
  <2>5. ASSUME NEW e \in Logged(logs', 0) PROVE e \in Logged(logs, 0)
    BY <1>3, InLogs
  <2>6. \A e \in In(tables', DOMAIN tables') \cup Logged(logs', 0) : e.seq <= c
    BY <2>2, <2>4, <2>5
  <2> QED  BY <2>3, <2>6 DEF Bounded
<1> QED  BY <1>3, <1>6, <1>7, <1>8, <1>9, <1>10

LEMMA Removal ==
  ASSUME FileTypes, Bounded, NEW d, RemoveObsoleteFiles(d), current \in DOMAIN manifests,
         d.manifest = current, current' = current, d.log_number \in Nat
  PROVE  /\ FileTypes' /\ Bounded'
         /\ current \in DOMAIN manifests' /\ manifests'[current] = manifests[current]
         /\ SameTables(tables, tables', d.version \cap DOMAIN tables)
         /\ DOMAIN logs' \subseteq DOMAIN logs
         /\ \A n \in DOMAIN logs' : logs'[n] = logs[n]
         /\ \A n \in DOMAIN logs : n >= d.log_number => n \in DOMAIN logs'
<1>1. CASE UNCHANGED <<logs, tables, manifests>>
  BY <1>1 DEF FileTypes, Bounded, SameTables
<1>2. CASE d.bg_error = "OK"
  BY <1>2, Removing
<1> QED  BY <1>1, <1>2, Zenon DEF RemoveObsoleteFiles

LEMMA OpenedStep == ASSUME RecInv, Opened PROVE RecInv'
<1> DEFINE V == db.version \cup db.adds
           d == [db EXCEPT !.version = @ \cup db.adds, !.adds = {}, !.log_number = db.logfile]
<1>1. /\ pc = "named" /\ pc' = "open" /\ opened' = TRUE /\ db' = d /\ RemoveObsoleteFiles(d)
      /\ acked' = acked \cup EntriesOf(d.version) /\ durable' = durable \cup EntriesOf(d.version)
      /\ UNCHANGED <<current, job, writes, left>>
  BY DEF Opened
<1>2. db \in DBs /\ NumbersInv /\ RecoveredInv /\ pc \in Opening /\ durable \subseteq acked /\ job = NoJob
  BY <1>1 DEF RecInv, ProcessTypes, Opening
<1>3. db.logfile \in Nat /\ db.logfile < db.next_file /\ db.manifest \in Nat /\ db.manifest < db.next_file
      /\ db.next_file \in Nat
  BY <1>1, <1>2 DEF RecInv, RecoveredInv, NumbersInv, FileTypes, DBs
<1>4. d \in DBs /\ d.version = V /\ d.adds = {} /\ d.log_number = db.logfile /\ d.logfile = db.logfile
      /\ d.manifest = db.manifest /\ d.next_file = db.next_file /\ d.seq = db.seq /\ d.mem = db.mem /\ d.imm = db.imm
      /\ d.inputs = {} /\ d.tail = "whole"
  <2>1. V \subseteq Nat
    BY <1>2 DEF DBs
  <2>2. d = [db EXCEPT !.version = V, !.adds = {}, !.log_number = db.logfile]
    BY <1>2 DEF DBs
  <2> HIDE DEF V, d
  <2>3. d \in DBs
    BY <2>1, <2>2, <1>2, <1>3 DEF DBs
  <2>4. db.inputs = {} /\ db.tail = "whole"
    BY <1>1 DEF RecInv, ProcessTypes
  <2> QED  BY <2>2, <2>3, <2>4, <1>2 DEF DBs
<1>5. /\ db.manifest \in DOMAIN manifests /\ current = db.manifest
      /\ manifests[db.manifest] = Synced(NewManifest)
  BY <1>1, <1>2 DEF RecoveredInv
<1>6. /\ manifests[current].recs = Rewritten /\ Leftovers(manifests[current]) = {Rewritten}
      /\ manifests[current].synced = Len(Rewritten)
  BY <1>1, <1>5, RewrittenFile
<1>7. /\ Numbered(Rewritten) /\ Last(Rewritten) = NewEdit /\ NewEdit.next = db.next_file
      /\ NewEdit.log = db.logfile /\ NewEdit.seq = db.seq /\ Rewritten \in Seq(Edits)
      /\ Applied(Rewritten) = V /\ Sound(Rewritten, tables, logs, acked, durable)
  BY <1>1, RewrittenSound
<1> HIDE DEF V, d, Rewritten, NewEdit
<1>8. /\ FileTypes' /\ Bounded'
      /\ current \in DOMAIN manifests' /\ manifests'[current] = manifests[current]
      /\ SameTables(tables, tables', V \cap DOMAIN tables)
      /\ DOMAIN logs' \subseteq DOMAIN logs
      /\ \A n \in DOMAIN logs' : logs'[n] = logs[n]
      /\ \A n \in DOMAIN logs : n >= db.logfile => n \in DOMAIN logs'
  <2>1. FileTypes /\ Bounded /\ d.manifest = current /\ current' = current /\ d.log_number \in Nat
        /\ current \in DOMAIN manifests
    BY <1>1, <1>3, <1>4, <1>5 DEF RecInv
  <2>2. /\ FileTypes' /\ Bounded'
        /\ current \in DOMAIN manifests' /\ manifests'[current] = manifests[current]
        /\ SameTables(tables, tables', d.version \cap DOMAIN tables)
        /\ DOMAIN logs' \subseteq DOMAIN logs
        /\ \A n \in DOMAIN logs' : logs'[n] = logs[n]
        /\ \A n \in DOMAIN logs : n >= d.log_number => n \in DOMAIN logs'
    BY <1>1, <2>1, Removal, Zenon
  <2> QED  BY <2>2, <1>4
<1>9. V \subseteq DOMAIN tables /\ V \subseteq DOMAIN tables' /\ In(tables', V) = In(tables, V)
  <2>1. V \subseteq DOMAIN tables
    BY <1>2 DEF NumbersInv, V
  <2>2. SameTables(tables, tables', V)
    BY <1>8, <2>1 DEF SameTables
  <2>3. In(tables', V) = In(tables, V)
    BY <2>2, SameIn
  <2> QED  BY <2>1, <2>2, <2>3 DEF SameTables
<1>10. acked' = In(tables', V) /\ durable' = In(tables', V) /\ \A e \in In(tables', V) : e.seq <= db.seq
  <2>1. EntriesOf(d.version) = In(tables, V)
    BY <1>4 DEF EntriesOf, In
  <2>2. acked \subseteq In(tables, V) /\ \A e \in In(tables, V) : e.seq <= db.seq
    BY <1>1, <1>2 DEF RecoveredInv, V
  <2> QED  BY <2>1, <2>2, <1>1, <1>2, <1>9
<1>11. acked' \subseteq Entries
  <2> SUFFICES ASSUME NEW e \in In(tables', V) PROVE e \in Entries
    BY <1>10
  <2>1. PICK t \in V : e \in tables'[t]
    BY InTables
  <2> QED  BY <2>1, <1>8, <1>9 DEF FileTypes
<1>12. ProcessTypes'
  <2>1. db' \in DBs /\ job' = job /\ writes' = writes /\ durable' \subseteq acked' /\ left' = left
    BY <1>1, <1>4, <1>10
  <2> QED  BY <2>1, <1>1, <1>11 DEF RecInv, ProcessTypes, Resting
<1>13. Kept'
  BY <1>9, <1>10, InMonotone DEF Kept, Holds
<1>14. Sound(Rewritten, tables', logs', acked', durable')
  <2>1. \A t \in V : t < db.next_file
    BY <1>2 DEF NumbersInv, V
  <2>2. Holds(tables', logs', V, db.logfile, acked', durable')
    BY <1>10 DEF Holds
  <2> QED  BY <2>1, <2>2, <1>3, <1>7, <1>9, <1>10 DEF Sound
<1>15. CurrentInv' /\ OpenedInv'
  <2>1. current' \in DOMAIN manifests' /\ current' # NoFile /\ current < db.next_file /\ current' = current
        /\ db.next_file <= db.next_file
    BY <1>1, <1>3, <1>5, <1>8, RecoveryAssumption
  <2>2. \A p \in Leftovers(manifests'[current']) : p = Rewritten
    BY <1>6, <1>8, <2>1
  <2>3. manifests'[current'].recs = Rewritten
    BY <1>6, <1>8, <2>1
  <2>4. CurrentInv'
    BY <1>7, <1>14, <2>1, <2>2, <2>3 DEF CurrentInv
  <2>5. pc' \notin Repairing \cup {"unrepaired", "corrupt"}
    BY <1>1 DEF Repairing
  <2>6. \A p \in Leftovers(manifests'[current']) : Numbered(p) /\ current' < Last(p).next
    BY <1>7, <2>1, <2>2
  <2> QED  BY <1>1, <2>1, <2>4, <2>5, <2>6 DEF OpenedInv
<1>16. NumbersInv'
  <2>1. \A p \in Leftovers(manifests'[current']) : Last(p).next <= db'.next_file
    BY <1>1, <1>3, <1>4, <1>6, <1>7, <1>8
  <2>2. \A t \in V : t < db.next_file
    BY <1>2 DEF NumbersInv, V
  <2> QED  BY <1>1, <1>3, <1>4, <1>9, <2>1, <2>2 DEF NumbersInv
<1>17. OpenInv'
  <2>1. db.mem = {} /\ db.imm = {} /\ db.logfile \in DOMAIN logs /\ logs[db.logfile] = NewFile(<<>>)
        /\ \A n \in DOMAIN logs : n < db.next_file
    BY <1>1, <1>2 DEF RecoveredInv
  <2>2. Contents' = In(tables', V)
    BY <1>1, <1>4, <2>1 DEF Contents, EntriesOf, In
  <2>3. db.logfile \in DOMAIN logs' /\ logs'[db.logfile] = NewFile(<<>>) /\ db.logfile <= db.logfile
    BY <1>3, <1>8, <2>1
  <2>4. ToSet(NewFile(<<>>).recs) = {}
    BY EmptyFile
  <2>5. \A p \in Leftovers(manifests'[current']) : Last(p).log <= db.logfile /\ Last(p).seq <= db.seq
    <3>1. db.seq \in Nat
      BY <1>2 DEF DBs
    <3> QED  BY <1>1, <1>3, <1>6, <1>7, <1>8, <3>1
  <2>6. \A n \in DOMAIN logs' : n < db.next_file
    BY <1>8, <2>1
  <2>7. \A e \in Contents' : e.seq <= db.seq
    BY <1>10, <2>2
  <2>8. current' = db.manifest
    BY <1>1, <1>5
  <2> QED  BY <1>1, <1>3, <1>4, <1>10, <2>1, <2>2, <2>3, <2>4, <2>5, <2>6, <2>7, <2>8 DEF OpenInv
<1>18. BaseInv' /\ JobInv'
  <2>1. job'.stage = "none" /\ manifests'[db'.manifest] = manifests[current]
    BY <1>1, <1>2, <1>4, <1>5, <1>8, FreshTypes
  <2>2. Base' = Rewritten
    BY <1>6, <2>1 DEF Base
  <2>3. BaseInv'
    <3>1. current' < Last(Rewritten).next
      BY <1>1, <1>3, <1>5, <1>7
    <3> QED  BY <3>1, <1>1, <1>4, <1>6, <1>7, <2>1, <2>2 DEF BaseInv, Active
  <2> QED  BY <2>1, <2>3 DEF JobInv
<1>19. CreatingInv' /\ ReplayInv' /\ RecoveredInv' /\ RepairInv'
  BY <1>1, NotMending DEF CreatingInv, ReplayInv, RecoveredInv, Repairing
<1> QED  BY <1>8, <1>12, <1>13, <1>15, <1>16, <1>17, <1>18, <1>19 DEF RecInv

-----------------------------------------------------------------------------
(***************************************************************************)
(* The running database.                                                   *)
(***************************************************************************)

\* What a running process can rely on.
LEMMA Running ==
  ASSUME RecInv, pc = "open"
  PROVE  /\ db \in DBs /\ opened = TRUE /\ current = db.manifest /\ current \in DOMAIN manifests /\ current \in Nat
         /\ db.logfile \in DOMAIN logs /\ db.logfile \in Nat \ {0} /\ db.next_file \in Nat \ {0}
         /\ db.logfile < db.next_file /\ db.log_number \in Nat /\ db.log_number <= db.logfile
         /\ durable \subseteq acked /\ acked \subseteq db.mem \cup db.imm \cup In(tables, db.version)
         /\ Contents = db.mem \cup db.imm \cup In(tables, db.version)
         /\ \A x \in Contents : x.seq <= db.seq /\ x \in Entries
         /\ Holds(tables, logs, db.version, db.log_number, acked, durable)
<1>1. db \in DBs /\ OpenInv /\ OpenedInv /\ durable \subseteq acked /\ FileTypes
  BY DEF RecInv, ProcessTypes
<1>2. /\ opened = TRUE /\ current = db.manifest /\ db.logfile \in DOMAIN logs /\ db.logfile < db.next_file
      /\ db.log_number <= db.logfile /\ db.mem \cap acked \subseteq ToSet(logs[db.logfile].recs)
      /\ db.mem \cap durable \subseteq OnDevice(logs[db.logfile])
      /\ db.imm \cap acked \subseteq Logged(logs, db.log_number)
      /\ db.imm \cap durable \subseteq LoggedSafely(logs, db.log_number)
      /\ acked \subseteq Contents
  BY <1>1 DEF OpenInv
<1>3. current \in DOMAIN manifests /\ current \in Nat
  BY <1>1, <1>2 DEF OpenedInv, FileTypes
<1>4. db.logfile \in Nat \ {0} /\ db.log_number \in Nat /\ db.next_file \in Nat
  BY <1>1, <1>2 DEF FileTypes, DBs
<1>5. db.next_file # 0
  BY <1>2, <1>4
<1>6. Contents = db.mem \cup db.imm \cup In(tables, db.version)
  BY DEF Contents, EntriesOf, In
<1>7. db.logfile >= db.log_number
  BY <1>2, <1>4
<1>8. db.mem \cap acked \subseteq Logged(logs, db.log_number)
      /\ db.mem \cap durable \subseteq LoggedSafely(logs, db.log_number)
  BY <1>2, <1>7, InLogs
<1>9. Holds(tables, logs, db.version, db.log_number, acked, durable)
  BY <1>1, <1>2, <1>6, <1>8 DEF Holds
<1>10. ASSUME NEW x \in Contents PROVE x.seq <= db.seq /\ x \in Entries
  <2>1. x.seq <= db.seq
    BY <1>1, <1>10 DEF OpenInv
  <2>2. CASE x \in db.mem \cup db.imm
    BY <2>1, <2>2, <1>1 DEF DBs
  <2>3. CASE x \in In(tables, db.version)
    <3>1. PICK t \in db.version : x \in tables[t]
      BY <2>3, InTables
    <3>2. t \in DOMAIN tables
      BY <3>1 DEF RecInv, NumbersInv
    <3> QED  BY <3>1, <3>2, <2>1, <1>1 DEF FileTypes
  <2> QED  BY <2>2, <2>3, <1>6, <1>10
<1> QED  BY <1>1, <1>2, <1>3, <1>4, <1>5, <1>6, <1>9, <1>10

\* An entry is written to a log, above all entries that the log has.
LEMMA LoggedEntry ==
  ASSUME NEW f \in LogFiles, NEW e \in Entries, \A x \in ToSet(f.recs) : x.seq <= e.seq,
         NEW sync \in BOOLEAN, NEW g, g = IF sync THEN Synced(Appended(f, e)) ELSE Appended(f, e)
  PROVE  /\ g \in LogFiles /\ ToSet(g.recs) = ToSet(f.recs) \cup {e} /\ OnDevice(f) \subseteq OnDevice(g)
         /\ sync => OnDevice(g) = ToSet(g.recs)
<1>1. /\ f \in [recs : Seq(Entries), synced : Nat] /\ f.synced <= Len(f.recs)
      /\ \A i, j \in 1..Len(f.recs) : i <= j => f.recs[i].seq <= f.recs[j].seq
  BY DEF LogFiles
<1> DEFINE h == Appended(f, e)
<1>2. h \in [recs : Seq(Entries), synced : Nat] /\ h.recs = Append(f.recs, e) /\ h.synced = f.synced
  <2>1. f \in [recs : Seq(Entries), synced : Nat] /\ f.synced <= Len(f.recs)
    BY <1>1
  <2>2. /\ Appended(f, e) \in [recs : Seq(Entries), synced : Nat]
        /\ Appended(f, e).recs = Append(f.recs, e) /\ Appended(f, e).synced = f.synced
    BY <2>1 DEF Appended
  <2> QED  BY <2>2
<1> HIDE DEF h
<1>3. Synced(h) \in [recs : Seq(Entries), synced : Nat] /\ Synced(h).recs = h.recs /\ Synced(h).synced = Len(h.recs)
  BY <1>2, SyncedFile
<1> DEFINE k == Len(f.recs)
           r == h.recs
<1>4. /\ k \in Nat /\ Len(r) = k + 1 /\ r \in Seq(Entries) /\ DOMAIN r = 1..(k + 1) /\ DOMAIN f.recs = 1..k
      /\ r[k + 1] = e /\ \A i \in 1..k : r[i] = f.recs[i]
  BY <1>1, <1>2
<1> HIDE DEF k
<1>5. g.recs = r /\ g \in [recs : Seq(Entries), synced : Nat]
      /\ (g.synced = f.synced \/ g.synced = k + 1) /\ (sync => g.synced = k + 1)
  BY <1>2, <1>3, <1>4 DEF h
<1> HIDE DEF r
<1>6. f.synced \in Nat /\ f.synced <= k
  BY <1>1 DEF k
<1>7. g.synced <= Len(g.recs) /\ f.synced <= g.synced /\ g.synced \in Nat
  BY <1>4, <1>5, <1>6
<1>8. \A i, j \in 1..(k + 1) : i <= j => r[i].seq <= r[j].seq
  <2> SUFFICES ASSUME NEW i \in 1..(k + 1), NEW j \in 1..(k + 1), i <= j PROVE r[i].seq <= r[j].seq
    OBVIOUS
  <2>1. CASE j = k + 1 /\ i = k + 1
    <3>1. e.seq \in Nat
      BY DEF Entries
    <3> QED  BY <2>1, <3>1, <1>4
  <2>2. CASE j = k + 1 /\ i # k + 1
    <3>1. i \in 1..k
      BY <2>2, <1>4
    <3>2. r[i] \in ToSet(f.recs)
      BY <3>1, <1>4 DEF ToSet
    <3> QED  BY <3>2, <2>2, <1>4
  <2>3. CASE j # k + 1
    <3>1. i \in 1..k /\ j \in 1..k
      BY <2>3, <1>4
    <3> QED  BY <3>1, <1>1, <1>4 DEF k
  <2> QED  BY <2>1, <2>2, <2>3
<1>9. g \in LogFiles
  BY <1>4, <1>5, <1>7, <1>8 DEF LogFiles
<1>10. ToSet(r) = ToSet(f.recs) \cup {e}
  <2>1. 1..(k + 1) = (1..k) \cup {k + 1}
    BY <1>4
  <2> QED  BY <2>1, <1>4 DEF ToSet
<1>11. OnDevice(f) \subseteq OnDevice(g)
  <2> SUFFICES ASSUME NEW i \in 1..f.synced PROVE f.recs[i] \in OnDevice(g)
    BY DEF OnDevice
  <2>1. i \in 1..k /\ i \in 1..g.synced
    BY <1>4, <1>6, <1>7
  <2> QED  BY <2>1, <1>4, <1>5 DEF OnDevice
<1>12. sync => OnDevice(g) = ToSet(g.recs)
  BY <1>4, <1>5 DEF OnDevice, ToSet
<1> QED  BY <1>5, <1>9, <1>10, <1>11, <1>12

\* A write e, that may have failed: g is what the log is to its reader then.
LEMMA LogGrows ==
  ASSUME RecInv, pc = "open", db.bg_error = "OK",
         NEW e \in Entries, e.seq = db.seq + 1, NEW g \in LogFiles,
         UNCHANGED <<current, manifests, tables, pc, job, opened>>,
         writes' \in Nat, left' \in [writes : Nat, crashes : Nat, failures : Nat, compactions : Nat, repairs : Nat],
         logs' = [logs EXCEPT ![db.logfile] = g],
         ToSet(logs[db.logfile].recs) \subseteq ToSet(g.recs),
         ToSet(g.recs) \subseteq ToSet(logs[db.logfile].recs) \cup {e},
         OnDevice(logs[db.logfile]) \subseteq OnDevice(g),
         acked \subseteq acked', acked' \subseteq acked \cup {e},
         durable \subseteq durable', durable' \subseteq durable \cup {e}, durable' \subseteq acked',
         e \in acked' => e \in ToSet(g.recs) /\ e \in db'.mem,
         e \in durable' => e \in OnDevice(g),
         db' \in DBs, db'.seq = db.seq + 1, db.mem \subseteq db'.mem, db'.mem \subseteq db.mem \cup {e},
         db'.next_file = db.next_file, db'.manifest = db.manifest, db'.log_number = db.log_number,
         db'.version = db.version, db'.logfile = db.logfile, db'.imm = db.imm, db'.adds = db.adds,
         db'.inputs = db.inputs, db'.tail = db.tail
  PROVE  RecInv'
<1> DEFINE f == logs[db.logfile]
<1>2. /\ db \in DBs /\ opened = TRUE /\ current = db.manifest /\ current \in DOMAIN manifests /\ current \in Nat
      /\ db.logfile \in DOMAIN logs /\ db.logfile \in Nat /\ db.log_number \in Nat /\ db.log_number <= db.logfile
      /\ durable \subseteq acked /\ acked \subseteq Contents
      /\ Contents = db.mem \cup db.imm \cup In(tables, db.version)
      /\ \A x \in Contents : x.seq <= db.seq /\ x \in Entries
  BY Running
<1>3. db.seq \in Nat /\ FileTypes /\ OpenInv
  BY <1>2 DEF RecInv, DBs
<1>6. e \notin Contents /\ e \notin acked /\ e \notin durable
  BY <1>2, <1>3
<1>10. /\ DOMAIN logs' = DOMAIN logs /\ logs' \in [DOMAIN logs -> LogFiles] /\ logs'[db.logfile] = g
       /\ \A n \in DOMAIN logs : n # db.logfile => logs'[n] = logs[n]
  <2>1. logs \in [DOMAIN logs -> LogFiles]
    BY <1>3 DEF FileTypes
  <2> QED  BY <2>1, <1>2
<1>11. FileTypes'
  BY <1>3, <1>10 DEF FileTypes
<1>12. \A min : MoreLogged(logs, logs', min)
  BY <1>10 DEF MoreLogged
<1>13. \A min \in Nat : min <= db.logfile =>
         (e \in acked' => e \in Logged(logs', min)) /\ (e \in durable' => e \in LoggedSafely(logs', min))
  <2> SUFFICES ASSUME NEW min \in Nat, min <= db.logfile
               PROVE  (e \in acked' => e \in Logged(logs', min)) /\ (e \in durable' => e \in LoggedSafely(logs', min))
    OBVIOUS
  <2>1. db.logfile \in DOMAIN logs' /\ db.logfile >= min
    BY <1>2, <1>10
  <2> QED  BY <2>1, <1>10, InLogs
<1>15. Bounded'
  <2>1. PICK b \in Nat : \A n \in DOMAIN logs \cup DOMAIN tables : n <= b
    BY DEF RecInv, Bounded
  <2>2. PICK c \in Nat : \A x \in In(tables, DOMAIN tables) \cup Logged(logs, 0) : x.seq <= c
    BY DEF RecInv, Bounded
  <2>3. ASSUME NEW x \in In(tables, DOMAIN tables) \cup Logged(logs', 0) PROVE x.seq <= c + db.seq + 1
    <3>1. CASE x = e
      BY <3>1, <1>3
    <3>2. CASE x # e
      <4>1. x \in In(tables, DOMAIN tables) \/ x \in Logged(logs, 0)
        <5>1. ASSUME x \in Logged(logs', 0) PROVE x \in Logged(logs, 0)
          <6>1. PICK n \in DOMAIN logs' : n >= 0 /\ x \in ToSet(logs'[n].recs)
            BY <5>1, InLogs
          <6>2. x \in ToSet(logs[n].recs)
            BY <6>1, <3>2, <1>10
          <6> QED  BY <6>1, <6>2, <1>10, InLogs
        <5> QED  BY <5>1
      <4>2. x.seq \in Nat
        <5>1. CASE x \in In(tables, DOMAIN tables)
          BY <5>1, <1>3, InTables DEF FileTypes, Entries
        <5>2. CASE x \in Logged(logs', 0)
          <6>1. PICK n \in DOMAIN logs' : x \in ToSet(logs'[n].recs)
            BY <5>2, InLogs
          <6>2. logs'[n].recs \in Seq(Entries)
            BY <6>1, <1>10 DEF LogFiles
          <6>3. x \in Entries
            BY <6>1, <6>2 DEF ToSet
          <6> QED  BY <6>3 DEF Entries
        <5> QED  BY <5>1, <5>2
      <4> QED  BY <4>1, <4>2, <2>2, <1>3
    <3> QED  BY <3>1, <3>2
  <2>4. c + db.seq + 1 \in Nat
    BY <1>3
  <2> QED  BY <2>1, <2>3, <2>4, <1>10 DEF Bounded
<1>16. Kept'
  <2>1. 0 \in Nat /\ 0 <= db.logfile
    BY <1>2
  <2>2. (e \in acked' => e \in Logged(logs', 0)) /\ (e \in durable' => e \in LoggedSafely(logs', 0))
    BY <2>1, <1>13
  <2>3. SameTables(tables, tables, DOMAIN tables)
    BY DEF SameTables
  <2>4. acked' \subseteq acked \cup In(tables, DOMAIN tables) \cup Logged(logs', 0)
        /\ durable' \subseteq durable \cup In(tables, DOMAIN tables) \cup LoggedSafely(logs', 0)
    BY <2>2
  <2>5. Holds(tables, logs, DOMAIN tables, 0, acked, durable)
    BY DEF RecInv, Kept
  <2>6. Holds(tables, logs', DOMAIN tables, 0, acked', durable')
    BY <2>3, <2>4, <2>5, <1>12, HoldsStays
  <2> QED  BY <2>6 DEF Kept
<1>17. CurrentInv' /\ OpenedInv'
  <2>1. ASSUME NEW p \in Leftovers(manifests[current]), Numbered(p) PROVE StaysSound(p)
    <3>1. Last(p).log \in Nat /\ Last(p).log <= db.logfile
      BY <2>1, <1>2, <1>3, CurrentNext DEF OpenInv
    <3>2. (e \in acked' => e \in Logged(logs', Last(p).log)) /\ (e \in durable' => e \in LoggedSafely(logs', Last(p).log))
      BY <3>1, <1>13
    <3>3. Applied(p) \subseteq DOMAIN tables
      BY <2>1, <1>2 DEF RecInv, CurrentInv, Sound, Repairing
    <3>4. SameTables(tables, tables', Applied(p))
      BY <3>3 DEF SameTables
    <3> QED  BY <3>2, <3>4, <1>12 DEF StaysSound
  <2>2. current # NoFile
    BY <1>2, RecoveryAssumption
  <2>3. pc \notin Mending /\ pc' \notin Mending \cup {"corrupt"}
    BY DEF Mending, Repairing
  <2>4. CurrentInv /\ OpenedInv /\ UNCHANGED <<current, manifests, opened>>
    BY DEF RecInv
  <2> QED  BY <2>1, <2>2, <2>3, <2>4, CurrentStays
<1>19. ProcessTypes'
  <2>1. acked' \subseteq Entries
    BY DEF RecInv, ProcessTypes
  <2> QED  BY <2>1 DEF RecInv, ProcessTypes, Resting
<1>20. NumbersInv'
  BY DEF RecInv, NumbersInv
<1>21. OpenInv'
  <2>1. Contents' = db'.mem \cup db.imm \cup In(tables, db.version)
    BY DEF Contents, EntriesOf, In
  <2>2. Contents' \subseteq Contents \cup {e} /\ acked' \subseteq Contents'
    BY <2>1, <1>2
  <2>3. \A x \in Contents' : x.seq <= db'.seq
    <3> SUFFICES ASSUME NEW x \in Contents' PROVE x.seq <= db.seq + 1
      OBVIOUS
    <3>1. CASE x = e
      BY <3>1, <1>3
    <3>2. CASE x \in Contents
      <4>1. x.seq <= db.seq /\ x.seq \in Nat
        BY <3>2, <1>2 DEF Entries
      <4> QED  BY <4>1, <1>3
    <3> QED  BY <3>1, <3>2, <2>2
  <2>4. db'.logfile \in DOMAIN logs' /\ logs'[db'.logfile] = g
    BY <1>2, <1>10
  <2>5. \A x \in ToSet(g.recs) : x.seq <= db'.seq
    <3> SUFFICES ASSUME NEW x \in ToSet(g.recs) PROVE x.seq <= db.seq + 1
      OBVIOUS
    <3>1. CASE x = e
      BY <3>1, <1>3
    <3>2. CASE x \in ToSet(f.recs)
      <4>1. x.seq <= db.seq
        BY <3>2, <1>3 DEF OpenInv
      <4>2. g.recs \in Seq(Entries)
        BY DEF LogFiles
      <4>3. x \in Entries
        BY <4>2 DEF ToSet
      <4>4. x.seq \in Nat
        BY <4>3 DEF Entries
      <4> QED  BY <4>1, <4>4, <1>3
    <3> QED  BY <3>1, <3>2
  <2>6. db.mem \cap acked \subseteq ToSet(f.recs) /\ db.mem \cap durable \subseteq OnDevice(f)
        /\ db.imm \cap acked \subseteq Logged(logs, db.log_number)
        /\ db.imm \cap durable \subseteq LoggedSafely(logs, db.log_number)
    BY <1>3 DEF OpenInv
  <2>7. db'.mem \cap acked' \subseteq ToSet(g.recs) /\ db'.mem \cap durable' \subseteq OnDevice(g)
    <3>1. ASSUME NEW x \in db'.mem \cap acked' PROVE x \in ToSet(g.recs)
      BY <2>6
    <3>2. ASSUME NEW x \in db'.mem \cap durable' PROVE x \in OnDevice(g)
      BY <2>6
    <3> QED  BY <3>1, <3>2
  <2>8. Logged(logs, db.log_number) \subseteq Logged(logs', db.log_number)
        /\ LoggedSafely(logs, db.log_number) \subseteq LoggedSafely(logs', db.log_number)
    <3>1. ASSUME NEW min
          PROVE  Logged(logs, min) \subseteq Logged(logs', min) /\ LoggedSafely(logs, min) \subseteq LoggedSafely(logs', min)
      <4>1. MoreLogged(logs, logs', min)
        BY <1>12, Zenon
      <4> QED  BY ONLY <4>1, MoreIn
    <3> QED  BY <3>1, Zenon
  <2>9. db.imm \cap acked' \subseteq db.imm \cap acked /\ db.imm \cap durable' \subseteq db.imm \cap durable
    BY <1>2, <1>6
  <2>10. db'.imm \cap acked' \subseteq Logged(logs', db'.log_number)
         /\ db'.imm \cap durable' \subseteq LoggedSafely(logs', db'.log_number)
    BY <2>6, <2>8, <2>9
  <2>11. /\ db.log_number <= db.logfile /\ db.logfile < db.next_file
         /\ (\A n \in DOMAIN logs : n < db.next_file)
         /\ db.tail = "whole" /\ db.inputs \subseteq db.version
    BY <1>3 DEF OpenInv
  <2>12. ASSUME NEW p \in Leftovers(manifests[current]) PROVE Last(p).log <= db.logfile /\ Last(p).seq <= db.seq + 1
    <3>1. Last(p).log <= db.logfile /\ Last(p).seq <= db.seq
      BY <1>3 DEF OpenInv
    <3>2. Numbered(p)
      BY <1>2 DEF RecInv, OpenedInv
    <3>3. Last(p).seq \in Nat
      BY <3>2, <1>2, <1>3, CurrentNext
    <3> QED  BY <3>1, <3>3, <1>3
  <2>13. /\ db'.adds = {} /\ db'.mem \cap db'.imm = {}
         /\ (db'.mem \cup db'.imm) \cap In(tables', db'.version) = {}
    BY <1>2, <1>3, <1>6 DEF OpenInv
  <2>14. /\ opened' = TRUE /\ current' = db'.manifest /\ db'.inputs \subseteq db'.version /\ db'.tail = "whole"
         /\ db'.log_number <= db'.logfile /\ db'.logfile < db'.next_file
         /\ (\A n \in DOMAIN logs' : n < db'.next_file)
         /\ (\A p \in Leftovers(manifests'[current']) : Last(p).log <= db'.logfile /\ Last(p).seq <= db'.seq)
    BY <2>11, <2>12, <1>2, <1>10
  <2>15. db'.mem \cap acked' \subseteq ToSet(logs'[db'.logfile].recs) /\ db'.mem \cap durable' \subseteq OnDevice(logs'[db'.logfile])
         /\ \A x \in ToSet(logs'[db'.logfile].recs) : x.seq <= db'.seq
    BY <2>4, <2>5, <2>7
  <2> QED  BY <2>2, <2>3, <2>4, <2>10, <2>13, <2>14, <2>15, Zenon DEF OpenInv
<1>22. BaseInv' /\ JobInv'
  <2>1. BaseInv /\ JobInv
    BY DEF RecInv
  <2>2. Base' = Base
    BY DEF Base
  <2>3. BaseInv'
    BY <2>1, <2>2 DEF BaseInv, Active
  <2>4. ASSUME job.stage # "none" PROVE job.edit.seq <= db.seq + 1
    <3>1. job.edit.seq \in Nat
      BY DEF RecInv, ProcessTypes, FullEdits
    <3> QED  BY <3>1, <2>1, <2>4, <1>3 DEF JobInv
  <2> QED  BY <2>1, <2>2, <2>3, <2>4 DEF JobInv
<1>23. CreatingInv' /\ ReplayInv' /\ RecoveredInv' /\ RepairInv'
  BY NotMending DEF CreatingInv, ReplayInv, RecoveredInv, Repairing
<1> QED  BY <1>11, <1>15, <1>16, <1>17, <1>19, <1>20, <1>21, <1>22, <1>23 DEF RecInv

\* What a log may be after an entry was added to it, behind a failed append or not.
LEMMA AddedRecord ==
  ASSUME NEW f \in LogFiles, NEW e \in Entries, \A x \in ToSet(f.recs) : x.seq <= e.seq,
         NEW sync \in BOOLEAN, NEW h \in AddRecord(f, e), NEW g, g = IF sync THEN Synced(h) ELSE h
  PROVE  /\ g \in LogFiles /\ ToSet(f.recs) \subseteq ToSet(g.recs) /\ ToSet(g.recs) \subseteq ToSet(f.recs) \cup {e}
         /\ OnDevice(f) \subseteq OnDevice(g)
         /\ db.torn # TRUE => e \in ToSet(g.recs) /\ (sync => e \in OnDevice(g))
<1>1. CASE h = Appended(f, e)
  <2>1. g = IF sync THEN Synced(Appended(f, e)) ELSE Appended(f, e)
    BY <1>1
  <2>2. /\ g \in LogFiles /\ ToSet(g.recs) = ToSet(f.recs) \cup {e} /\ OnDevice(f) \subseteq OnDevice(g)
        /\ sync => OnDevice(g) = ToSet(g.recs)
    BY <2>1, LoggedEntry, Zenon
  <2> QED  BY <2>2, Zenon
<1>2. CASE h = f /\ db.torn
  <2>1. f \in [recs : Seq(Entries), synced : Nat] /\ f.synced <= Len(f.recs)
        /\ \A i, j \in 1..Len(f.recs) : i <= j => f.recs[i].seq <= f.recs[j].seq
    BY DEF LogFiles
  <2>2. Synced(f) \in [recs : Seq(Entries), synced : Nat] /\ Synced(f).recs = f.recs /\ Synced(f).synced = Len(f.recs)
    BY <2>1, SyncedFile
  <2>3. Synced(f) \in LogFiles
    BY <2>1, <2>2 DEF LogFiles
  <2>4. OnDevice(f) \subseteq OnDevice(Synced(f))
    <3> SUFFICES ASSUME NEW i \in 1..f.synced PROVE f.recs[i] \in OnDevice(Synced(f))
      BY DEF OnDevice
    <3>1. i \in 1..Len(f.recs)
      BY <2>1
    <3> QED  BY <3>1, <2>2 DEF OnDevice
  <2>5. g = f \/ g = Synced(f)
    BY <1>2
  <2>6. db.torn = TRUE
    BY <1>2
  <2> QED  BY <2>2, <2>3, <2>4, <2>5, <2>6
<1> QED  BY <1>1, <1>2 DEF AddRecord

\* The entry of a write, the log it goes to and the budget.
LEMMA Writing ==
  ASSUME RecInv, pc = "open", NEW e, e = [id |-> writes + 1, seq |-> db.seq + 1]
  PROVE  /\ e \in Entries /\ e.seq = db.seq + 1 /\ db.seq \in Nat /\ writes \in Nat /\ db \in DBs
         /\ logs[db.logfile] \in LogFiles
         /\ (\A x \in ToSet(logs[db.logfile].recs) : x.seq <= e.seq)
         /\ acked \subseteq Entries /\ durable \subseteq acked /\ e \notin acked
<1>1. db \in DBs /\ db.logfile \in DOMAIN logs /\ durable \subseteq acked /\ acked \subseteq Contents
      /\ \A x \in Contents : x.seq <= db.seq /\ x \in Entries
  BY Running
<1>2. writes \in Nat /\ db.seq \in Nat /\ FileTypes /\ OpenInv /\ acked \subseteq Entries
  BY <1>1 DEF RecInv, ProcessTypes, DBs
<1>3. e \in Entries /\ e.seq = db.seq + 1
  BY <1>2 DEF Entries
<1>4. logs[db.logfile] \in LogFiles
  BY <1>1, <1>2 DEF FileTypes
<1>5. \A x \in ToSet(logs[db.logfile].recs) : x.seq <= e.seq
  <2> SUFFICES ASSUME NEW x \in ToSet(logs[db.logfile].recs) PROVE x.seq <= db.seq + 1
    BY <1>3
  <2>1. x.seq <= db.seq
    BY <1>2 DEF OpenInv
  <2>2. logs[db.logfile].recs \in Seq(Entries)
    BY <1>4 DEF LogFiles
  <2>3. x \in Entries
    BY <2>2 DEF ToSet
  <2>4. x.seq \in Nat
    BY <2>3 DEF Entries
  <2> QED  BY <2>1, <2>4, <1>2
<1>6. e \notin acked
  BY <1>1, <1>2, <1>3
<1> QED  BY <1>1, <1>2, <1>3, <1>4, <1>5, <1>6

LEMMA WriteStep == ASSUME RecInv, NEW sync \in BOOLEAN, Write(sync) PROVE RecInv'
<1> DEFINE e == [id |-> writes + 1, seq |-> db.seq + 1]
           f == logs[db.logfile]
<1>1. /\ pc = "open" /\ db.bg_error = "OK" /\ left.writes > 0 /\ left' = [left EXCEPT !.writes = @ - 1]
      /\ writes' = writes + 1
      /\ \E h \in AddRecord(f, e) : logs' = [logs EXCEPT ![db.logfile] = IF sync THEN Synced(h) ELSE h]
      /\ db' = [db EXCEPT !.mem = @ \cup {e}, !.seq = @ + 1]
      /\ acked' = IF db.torn THEN acked ELSE acked \cup {e}
      /\ durable' = IF sync /\ ~db.torn THEN durable \cup {e} ELSE durable
      /\ UNCHANGED <<current, manifests, tables, pc, job, opened>>
  BY DEF Write
<1>2. /\ e \in Entries /\ e.seq = db.seq + 1 /\ db.seq \in Nat /\ writes \in Nat /\ db \in DBs /\ f \in LogFiles
      /\ (\A x \in ToSet(f.recs) : x.seq <= e.seq) /\ durable \subseteq acked /\ e \notin acked
  BY <1>1, Writing
<1>3. PICK h \in AddRecord(f, e) : logs' = [logs EXCEPT ![db.logfile] = IF sync THEN Synced(h) ELSE h]
  BY <1>1
<1> DEFINE g == IF sync THEN Synced(h) ELSE h
<1>4. logs' = [logs EXCEPT ![db.logfile] = g]
  BY <1>3
<1> HIDE DEF e, f
<1>5. /\ g \in LogFiles /\ ToSet(f.recs) \subseteq ToSet(g.recs) /\ ToSet(g.recs) \subseteq ToSet(f.recs) \cup {e}
      /\ OnDevice(f) \subseteq OnDevice(g)
      /\ db.torn # TRUE => e \in ToSet(g.recs) /\ (sync => e \in OnDevice(g))
  BY <1>2, <1>3, AddedRecord
<1> HIDE DEF g
<1>6. /\ db' \in DBs /\ db'.mem = db.mem \cup {e} /\ db'.seq = db.seq + 1
      /\ db'.next_file = db.next_file /\ db'.manifest = db.manifest /\ db'.log_number = db.log_number
      /\ db'.version = db.version /\ db'.logfile = db.logfile /\ db'.imm = db.imm /\ db'.adds = db.adds
      /\ db'.inputs = db.inputs /\ db'.tail = db.tail
  <2>1. db.mem \cup {e} \in SUBSET Entries /\ db.seq + 1 \in Nat
    BY <1>2 DEF DBs
  <2>2. db' \in DBs
    BY <2>1, <1>1, <1>2 DEF DBs
  <2> QED  BY <2>2, <1>1, <1>2 DEF DBs
<1>7. left' \in [writes : Nat, crashes : Nat, failures : Nat, compactions : Nat, repairs : Nat] /\ writes' \in Nat
  BY <1>1, <1>2 DEF RecInv, ProcessTypes
<1>8. /\ acked \subseteq acked' /\ acked' \subseteq acked \cup {e} /\ durable \subseteq durable'
      /\ durable' \subseteq durable \cup {e} /\ durable' \subseteq acked'
      /\ (e \in acked' => db.torn # TRUE) /\ (e \in durable' => db.torn # TRUE /\ sync)
  <2>1. db.torn \in BOOLEAN
    BY <1>2 DEF DBs
  <2>2. CASE db.torn = TRUE
    BY <2>2, <1>1, <1>2
  <2>3. CASE db.torn = FALSE
    BY <2>3, <1>1, <1>2
  <2> QED  BY <2>1, <2>2, <2>3
<1>9. (e \in acked' => e \in ToSet(g.recs) /\ e \in db'.mem) /\ (e \in durable' => e \in OnDevice(g))
  BY <1>5, <1>6, <1>8
<1>10. db.mem \subseteq db'.mem /\ db'.mem \subseteq db.mem \cup {e}
  BY <1>6
<1> QED  BY <1>1, <1>2, <1>4, <1>5, <1>6, <1>7, <1>8, <1>9, <1>10, LogGrows DEF f

LEMMA WriteFailsStep == ASSUME RecInv, WriteFails PROVE RecInv'
<1> DEFINE e == [id |-> writes + 1, seq |-> db.seq + 1]
           f == logs[db.logfile]
<1>1. /\ pc = "open" /\ db.bg_error = "OK" /\ left.writes > 0 /\ left.failures > 0
      /\ left' = [left EXCEPT !.writes = @ - 1, !.failures = @ - 1]
      /\ writes' = writes + 1
      /\ \/ db' = [db EXCEPT !.seq = @ + 1, !.torn = TRUE] /\ UNCHANGED logs
         \/ /\ \E h \in AddRecord(f, e) : logs' = [logs EXCEPT ![db.logfile] = h]
            /\ db' = [db EXCEPT !.seq = @ + 1, !.bg_error = "IOError"]
      /\ UNCHANGED <<current, manifests, tables, pc, job, acked, durable, opened>>
  BY DEF WriteFails
<1>2. /\ e \in Entries /\ e.seq = db.seq + 1 /\ db.seq \in Nat /\ writes \in Nat /\ db \in DBs /\ f \in LogFiles
      /\ (\A x \in ToSet(f.recs) : x.seq <= e.seq) /\ durable \subseteq acked /\ e \notin acked
  BY <1>1, Writing
<1> HIDE DEF e
<1>3. PICK g \in LogFiles :
         /\ logs' = [logs EXCEPT ![db.logfile] = g]
         /\ ToSet(f.recs) \subseteq ToSet(g.recs) /\ ToSet(g.recs) \subseteq ToSet(f.recs) \cup {e}
         /\ OnDevice(f) \subseteq OnDevice(g)
  <2>1. CASE UNCHANGED logs
    <3>1. logs \in [DOMAIN logs -> LogFiles]
      BY DEF RecInv, FileTypes
    <3>2. logs' = [logs EXCEPT ![db.logfile] = f]
      BY <2>1, <3>1
    <3> QED  BY <3>2, <1>2
  <2>2. CASE \E h \in AddRecord(f, e) : logs' = [logs EXCEPT ![db.logfile] = h]
    <3>1. PICK h \in AddRecord(f, e) : logs' = [logs EXCEPT ![db.logfile] = h]
      BY <2>2
    <3>2. FALSE \in BOOLEAN /\ h = IF FALSE THEN Synced(h) ELSE h
      OBVIOUS
    <3> HIDE DEF f
    <3>3. /\ h \in LogFiles /\ ToSet(f.recs) \subseteq ToSet(h.recs) /\ ToSet(h.recs) \subseteq ToSet(f.recs) \cup {e}
          /\ OnDevice(f) \subseteq OnDevice(h)
      BY <3>1, <3>2, <1>2, AddedRecord
    <3> QED  BY <3>1, <3>3
  <2> QED  BY <2>1, <2>2, <1>1
<1>4. /\ db' \in DBs /\ db'.mem = db.mem /\ db'.seq = db.seq + 1
      /\ db'.next_file = db.next_file /\ db'.manifest = db.manifest /\ db'.log_number = db.log_number
      /\ db'.version = db.version /\ db'.logfile = db.logfile /\ db'.imm = db.imm /\ db'.adds = db.adds
      /\ db'.inputs = db.inputs /\ db'.tail = db.tail
  <2>1. db.seq + 1 \in Nat
    BY <1>2
  <2>2. CASE db' = [db EXCEPT !.seq = @ + 1, !.torn = TRUE]
    BY <2>1, <2>2, <1>2 DEF DBs
  <2>3. CASE db' = [db EXCEPT !.seq = @ + 1, !.bg_error = "IOError"]
    BY <2>1, <2>3, <1>2 DEF DBs
  <2> QED  BY <2>2, <2>3, <1>1
<1>5. left' \in [writes : Nat, crashes : Nat, failures : Nat, compactions : Nat, repairs : Nat] /\ writes' \in Nat
  <2>1. left \in [writes : Nat, crashes : Nat, failures : Nat, compactions : Nat, repairs : Nat]
    BY DEF RecInv, ProcessTypes
  <2>2. left.writes - 1 \in Nat /\ left.failures - 1 \in Nat
    BY <2>1, <1>1
  <2>3. left' = [left EXCEPT !.writes = left.writes - 1, !.failures = left.failures - 1]
    BY <1>1
  <2>4. left' \in [writes : Nat, crashes : Nat, failures : Nat, compactions : Nat, repairs : Nat]
    BY <2>1, <2>2, <2>3
  <2> QED  BY <2>4, <1>1, <1>2
<1>6. /\ acked \subseteq acked' /\ acked' \subseteq acked \cup {e} /\ durable \subseteq durable'
      /\ durable' \subseteq durable \cup {e} /\ durable' \subseteq acked' /\ e \notin acked' /\ e \notin durable'
  BY <1>1, <1>2
<1>7. db.mem \subseteq db'.mem /\ db'.mem \subseteq db.mem \cup {e}
  BY <1>4
<1> QED  BY <1>1, <1>2, <1>3, <1>4, <1>5, <1>6, <1>7, LogGrows DEF f

LEMMA SwitchMemTableStep == ASSUME RecInv, SwitchMemTable PROVE RecInv'
<1> DEFINE nf == db.next_file
<1>1. /\ pc = "open" /\ db.imm = {} /\ logs' = Put(logs, nf, NewFile(<<>>))
      /\ db' = [db EXCEPT !.logfile = nf, !.next_file = @ + 1, !.imm = db.mem, !.mem = {}, !.torn = FALSE]
      /\ UNCHANGED <<current, manifests, tables, pc, job, writes, acked, durable, opened, left>>
  BY DEF SwitchMemTable, history
<1>2. /\ db \in DBs /\ opened = TRUE /\ current = db.manifest /\ current \in DOMAIN manifests /\ current \in Nat
      /\ db.logfile \in DOMAIN logs /\ db.logfile \in Nat /\ nf \in Nat \ {0} /\ db.logfile < nf
      /\ db.log_number \in Nat /\ db.log_number <= db.logfile
      /\ durable \subseteq acked /\ acked \subseteq Contents
      /\ Contents = db.mem \cup db.imm \cup In(tables, db.version)
  BY <1>1, Running
<1>3. OpenInv /\ NumbersInv /\ FileTypes /\ \A n \in DOMAIN logs : n < nf /\ n \in Nat
  BY <1>1 DEF RecInv, OpenInv, FileTypes
<1>4. /\ FileTypes' /\ Bounded' /\ Kept' /\ CurrentInv' /\ OpenedInv'
      /\ DOMAIN logs' = DOMAIN logs \cup {nf} /\ logs'[nf] = NewFile(<<>>)
      /\ \A n \in DOMAIN logs : logs'[n] = logs[n]
  <2>1. pc \in Opening \cup {"open"} /\ pc' \in Opening \cup {"open"} /\ nf # 0
    BY <1>1, <1>2
  <2> QED  BY <2>1, <1>1, <1>3, NewLogFile, ZenonT(30)
<1>5. /\ db' \in DBs /\ db'.mem = {} /\ db'.imm = db.mem /\ db'.logfile = nf /\ db'.next_file = nf + 1
      /\ db'.seq = db.seq /\ db'.manifest = db.manifest /\ db'.log_number = db.log_number
      /\ db'.version = db.version /\ db'.adds = db.adds
      /\ db'.inputs = db.inputs /\ db'.tail = db.tail /\ db'.bg_error = db.bg_error
  <2>1. nf + 1 \in Nat
    BY <1>2
  <2>2. db' \in DBs
    BY <2>1, <1>1, <1>2 DEF DBs
  <2> QED  BY <2>2, <1>1, <1>2 DEF DBs
<1>6. ProcessTypes'
  BY <1>1, <1>5 DEF RecInv, ProcessTypes, Resting
<1>7. NumbersInv'
  <2>1. ASSUME NEW p \in Leftovers(manifests[current]), Numbered(p) PROVE Last(p).next <= nf + 1
    <3>1. Last(p).next <= nf
      BY <2>1, <1>1, <1>2, <1>3 DEF NumbersInv
    <3>2. Last(p).next \in Nat
      BY <2>1, <1>2, <1>3, CurrentNext
    <3> QED  BY <3>1, <3>2, <1>2
  <2>2. db.manifest \in Nat /\ db.manifest < nf + 1 /\ db.log_number < nf + 1
    BY <1>1, <1>2, <1>3 DEF NumbersInv
  <2>3. db.version \cup db.adds \subseteq DOMAIN tables /\ \A t \in db.version \cup db.adds : t < nf + 1
    <3>1. \A t \in db.version \cup db.adds : t < nf /\ t \in Nat
      BY <1>1, <1>2, <1>3 DEF NumbersInv, DBs
    <3> QED  BY <3>1, <1>1, <1>2, <1>3 DEF NumbersInv
  <2> QED  BY <2>1, <2>2, <2>3, <1>1, <1>5 DEF NumbersInv
<1>8. OpenInv'
  <2>1. Contents' = Contents
    <3>1. Contents' = db'.mem \cup db'.imm \cup In(tables', db'.version)
      BY DEF Contents, EntriesOf, In
    <3> QED  BY <3>1, <1>1, <1>2, <1>5
  <2>2. acked' \subseteq Contents' /\ \A x \in Contents' : x.seq <= db'.seq
    BY <2>1, <1>1, <1>2, <1>3, <1>5 DEF OpenInv
  <2>3. db'.logfile \in DOMAIN logs' /\ ToSet(logs'[db'.logfile].recs) = {}
    BY <1>4, <1>5, EmptyFile
  <2>4. db.mem \cap acked \subseteq ToSet(logs[db.logfile].recs) /\ db.mem \cap durable \subseteq OnDevice(logs[db.logfile])
    BY <1>1, <1>3 DEF OpenInv
  <2>5. db.logfile \in DOMAIN logs' /\ db.logfile >= db.log_number /\ logs'[db.logfile] = logs[db.logfile]
    BY <1>2, <1>4
  <2>6. db'.imm \cap acked' \subseteq Logged(logs', db'.log_number)
        /\ db'.imm \cap durable' \subseteq LoggedSafely(logs', db'.log_number)
    <3>1. db.mem \cap acked \subseteq Logged(logs', db.log_number)
          /\ db.mem \cap durable \subseteq LoggedSafely(logs', db.log_number)
      BY <2>4, <2>5, InLogs
    <3> QED  BY <3>1, <1>1, <1>5
  <2>7. db.log_number <= nf /\ nf < nf + 1 /\ \A n \in DOMAIN logs' : n < nf + 1
    BY <1>2, <1>3, <1>4
  <2>8. \A p \in Leftovers(manifests[current]) : Last(p).log <= nf /\ Last(p).seq <= db.seq
    <3> SUFFICES ASSUME NEW p \in Leftovers(manifests[current]) PROVE Last(p).log <= nf /\ Last(p).seq <= db.seq
      OBVIOUS
    <3>1. Last(p).log <= db.logfile /\ Last(p).seq <= db.seq
      BY <1>1, <1>3 DEF OpenInv
    <3>2. Numbered(p)
      BY <1>2 DEF RecInv, OpenedInv
    <3>3. Last(p).log \in Nat
      BY <3>2, <1>2, <1>3, CurrentNext
    <3> QED  BY <3>1, <3>3, <1>2
  <2>9. db'.mem \cap acked' = {} /\ db'.mem \cap durable' = {}
    BY <1>5
  <2>10. /\ db'.adds = {} /\ db'.mem \cap db'.imm = {}
         /\ (db'.mem \cup db'.imm) \cap In(tables', db'.version) = {}
         /\ db'.inputs \subseteq db'.version /\ (db'.tail # "whole" => db'.bg_error # "OK")
    BY <1>1, <1>3, <1>5 DEF OpenInv
  <2> QED  BY <2>2, <2>3, <2>6, <2>7, <2>8, <2>9, <2>10, <1>1, <1>2, <1>5 DEF OpenInv
<1>9. BaseInv' /\ JobInv'
  <2>1. BaseInv /\ JobInv
    BY DEF RecInv
  <2>2. Base' = Base
    BY <1>1, <1>5 DEF Base
  <2>3. BaseInv'
    BY <2>1, <2>2, <1>1, <1>5 DEF BaseInv, Active
  <2>4. ASSUME job.stage # "none"
        PROVE  /\ job.edit.next <= nf + 1 /\ job.edit.log <= nf /\ job.edit.del # {}
               /\ job.edit.del = db.inputs /\ job.edit.log = db.log_number
               /\ In(tables, job.edit.add) = In(tables, db.inputs)
    <3>1. job.edit.next \in Nat /\ job.edit.log \in Nat
      BY DEF RecInv, ProcessTypes, FullEdits
    <3>2. job.edit.next <= nf /\ job.edit.log <= db.logfile
      BY <2>1, <2>4, <1>1 DEF JobInv
    <3>3. job.edit.next <= nf + 1 /\ job.edit.log <= nf
      BY <3>1, <3>2, <1>2
    <3> QED  BY <3>3, <2>1, <2>4, <1>1 DEF JobInv
  <2> QED  BY <2>1, <2>2, <2>3, <2>4, <1>1, <1>5 DEF JobInv
<1>10. CreatingInv' /\ ReplayInv' /\ RecoveredInv' /\ RepairInv'
  BY <1>1, NotMending DEF CreatingInv, ReplayInv, RecoveredInv, Repairing
<1> QED  BY <1>4, <1>6, <1>7, <1>8, <1>9, <1>10 DEF RecInv

\* A flush or a compaction fails.  An edit of a flush that was appended stays in
\* the manifest, and a compaction around it goes on.
LEMMA Aborting ==
  ASSUME RecInv, pc = "open", Fails, UNCHANGED <<current, manifests, logs, tables, pc, history>>,
         job' = NoJob, NEW inputs, NEW tail \in {"whole", "torn", "cut"},
         db' = [db EXCEPT !.bg_error = "IOError", !.inputs = inputs, !.tail = tail],
         inputs = {} \/ (inputs = db.inputs /\ (job.stage = "none" \/ job.edit.del = {})),
         tail # "cut" => db.tail # "cut"
  PROVE  RecInv'
<1>1. UNCHANGED <<current, manifests, logs, tables, pc, writes, acked, durable, opened>>
  BY DEF history
<1>2. db \in DBs /\ inputs \subseteq db.version /\ inputs \subseteq Nat
  BY DEF RecInv, ProcessTypes, OpenInv, DBs
<1>3. /\ db' \in DBs /\ db'.mem = db.mem /\ db'.imm = db.imm /\ db'.logfile = db.logfile /\ db'.next_file = db.next_file
      /\ db'.seq = db.seq /\ db'.manifest = db.manifest /\ db'.log_number = db.log_number
      /\ db'.version = db.version /\ db'.adds = db.adds
      /\ db'.inputs = inputs /\ db'.tail = tail /\ db'.bg_error = "IOError"
  <2>1. db' \in DBs
    BY <1>2 DEF DBs
  <2> QED  BY <2>1, <1>2 DEF DBs
<1>4. FileTypes' /\ Bounded' /\ Kept'
  BY <1>1 DEF RecInv, FileTypes, Bounded, Kept
<1>5. CurrentInv' /\ OpenedInv'
  BY CurrentUnchanged, <1>1 DEF RecInv, Mending, Repairing
<1>6. ProcessTypes' /\ job'.stage = "none"
  <2>1. left' \in [writes : Nat, crashes : Nat, failures : Nat, compactions : Nat, repairs : Nat]
    BY Budgeted DEF RecInv
  <2> QED  BY <2>1, <1>1, <1>3, FreshTypes DEF RecInv, ProcessTypes, Resting
<1>7. NumbersInv'
  BY <1>1, <1>3 DEF RecInv, NumbersInv
<1>8. Contents' = Contents
  BY <1>1, <1>3 DEF Contents, EntriesOf
<1>9. OpenInv'
  BY <1>1, <1>2, <1>3, <1>8 DEF RecInv, OpenInv
<1>10. BaseInv'
  <2> SUFFICES ASSUME inputs # {}, tail # "cut" PROVE BaseInv'
    BY <1>3, <1>6 DEF BaseInv, Active
  <2>1. /\ Active /\ BaseInv /\ JobInv /\ current = db.manifest
        /\ job.stage \in {"none", "built", "appended", "synced"} /\ job.edit \in FullEdits
    BY DEF Active, RecInv, OpenInv, ProcessTypes
  <2>2. Base \in Seq(Edits) /\ Numbered(Base) /\ current < Last(Base).next /\ db.version \subseteq Applied(Base)
    BY <2>1 DEF BaseInv
  <2>3. Base' = manifests[db.manifest].recs
    BY <1>1, <1>3, <1>6 DEF Base
  <2>4. CASE job.stage \in {"none", "built"}
    <3>1. Base' = Base /\ manifests[db.manifest].recs = Base
      BY <2>3, <2>4 DEF Base
    <3> QED  BY <3>1, <2>2, <1>1, <1>3, <1>6 DEF BaseInv
  <2>5. CASE job.stage \in {"appended", "synced"}
    <3>1. Base' = Append(Base, job.edit) /\ job.edit \in Edits /\ job.edit.del = {}
      BY <2>1, <2>3, <2>5 DEF BaseInv, Edits
    <3>2. /\ Applied(Base') = (Applied(Base) \ job.edit.del) \cup job.edit.add /\ Last(Base') = job.edit
          /\ Base' # <<>> /\ Base' \in Seq(Edits)
      BY <3>1, <2>2, AppliedAppend
    <3>3. db.version \subseteq Applied(Base')
      BY <3>1, <3>2, <2>2
    <3>4. job.edit.next \in Nat /\ NoFile \notin Nat
      BY <2>1, RecoveryAssumption DEF FullEdits
    <3>5. Numbered(Base')
      BY <3>2, <3>4 DEF Numbered
    <3>6. current < Last(Base').next
      <4>1. Last(Base).next <= job.edit.next /\ Last(Base).next \in Nat /\ current \in Nat
        BY <2>1, <2>2, <2>5, NumbersRead, Running DEF JobInv, FullEdits
      <4> QED  BY <4>1, <3>2, <3>4, <2>2
    <3> QED  BY <3>2, <3>3, <3>5, <3>6, <2>3, <1>1, <1>3, <1>6 DEF BaseInv
  <2> QED  BY <2>1, <2>4, <2>5
<1>11. JobInv'
  BY <1>6 DEF JobInv
<1>12. CreatingInv' /\ ReplayInv' /\ RecoveredInv' /\ RepairInv'
  BY <1>1, NotMending DEF CreatingInv, ReplayInv, RecoveredInv, Repairing
<1> QED  BY <1>4, <1>5, <1>6, <1>7, <1>9, <1>10, <1>11, <1>12 DEF RecInv

LEMMA BackgroundFailsStep ==
  ASSUME RecInv, pc = "open", NEW del, job.stage = "none" \/ del = job.edit.del,
         BackgroundFails(del), UNCHANGED <<current, manifests, logs, tables, pc, history>>
  PROVE  RecInv'
<1> DEFINE inputs == IF del = {} THEN db.inputs ELSE {}
<1>1. db \in DBs /\ db.tail \in {"whole", "torn", "cut"}
  BY DEF RecInv, ProcessTypes, DBs
<1>2. db' = [db EXCEPT !.bg_error = "IOError", !.inputs = inputs, !.tail = db.tail]
  BY <1>1 DEF BackgroundFails, DBs
<1>3. inputs = {} \/ (inputs = db.inputs /\ (job.stage = "none" \/ job.edit.del = {}))
  OBVIOUS
<1> HIDE DEF inputs
<1> QED  BY <1>1, <1>2, <1>3, Aborting DEF BackgroundFails

\* The manifest while no edit is being added to it.
LEMMA BaseLeft ==
  ASSUME RecInv, pc = "open", job.stage \in {"none", "built"}
  PROVE  /\ Base \in Seq(Edits) /\ Base \in Leftovers(manifests[current]) /\ manifests[current].recs = Base
         /\ Numbered(Base) /\ Last(Base) \in FullEdits
         /\ Last(Base).next \in Nat /\ Last(Base).next <= db.next_file /\ current < Last(Base).next
         /\ Last(Base).seq \in Nat /\ Last(Base).seq <= db.seq
         /\ Sound(Base, tables, logs, acked, durable)
<1> DEFINE m == manifests[current]
<1>1. current = db.manifest /\ current \in DOMAIN manifests /\ opened = TRUE
  BY Running
<1>2. m.recs = Base
  BY <1>1 DEF Base
<1>3. m \in [recs : Seq(Edits), synced : Nat] /\ m.synced <= Len(m.recs)
  BY <1>1 DEF RecInv, FileTypes, ManifestFiles
<1> HIDE DEF m
<1>4. Base \in Leftovers(m) /\ Base \in Seq(Edits)
  BY <1>2, <1>3, LeftoverWhole
<1>5. Numbered(Base) /\ current < Last(Base).next
  BY <1>1, <1>4 DEF RecInv, OpenedInv, m
<1>6. Last(Base) \in FullEdits /\ Last(Base).next \in Nat /\ Last(Base).seq \in Nat
  BY <1>1, <1>4, <1>5, CurrentNext DEF RecInv, m
<1>7. Last(Base).next <= db.next_file
  BY <1>1, <1>4, <1>5 DEF RecInv, NumbersInv, m
<1>8. Last(Base).seq <= db.seq
  BY <1>4 DEF RecInv, OpenInv, m
<1>9. Sound(Base, tables, logs, acked, durable)
  BY <1>1, <1>4, <1>5 DEF RecInv, CurrentInv, m, Repairing
<1> QED  BY <1>2, <1>4, <1>5, <1>6, <1>7, <1>8, <1>9 DEF m

\* What the table of a flush or of a compaction is made of.
Source(X, del, log) ==
  \/ del = {} /\ log = db.logfile /\ db.imm # {} /\ X = db.imm
  \/ del # {} /\ del = db.inputs /\ log = db.log_number /\ X = In(tables, db.inputs)

LEMMA BuildTableStep ==
  ASSUME RecInv, NEW X, NEW del, NEW log, Source(X, del, log), BuildTable(X, del, log),
         db.bg_error = "OK" \/ db.inputs # {}
  PROVE  RecInv'
<1> DEFINE nf == db.next_file
           edit == Edit({nf}, del, log, nf + 1, db.seq)
<1>1. pc = "open" /\ job.stage = "none" /\ UNCHANGED <<current, manifests, logs, pc, writes, acked, durable, opened>>
  BY DEF BuildTable, history
<1>2. CASE BackgroundFails(del) /\ UNCHANGED tables
  <2>1. UNCHANGED <<current, manifests, logs, tables, pc, history>>
    BY <1>1, <1>2 DEF history
  <2> QED  BY <2>1, <1>1, <1>2, BackgroundFailsStep
<1>3. CASE /\ Succeeds /\ tables' = Put(tables, nf, X) /\ db' = [db EXCEPT !.next_file = @ + 1]
           /\ job' = [stage |-> "built", edit |-> edit]
  <2>1. /\ db \in DBs /\ opened = TRUE /\ current = db.manifest /\ current \in DOMAIN manifests /\ current \in Nat
        /\ db.logfile \in Nat /\ nf \in Nat \ {0} /\ db.logfile < nf
        /\ db.log_number \in Nat /\ db.log_number <= db.logfile
        /\ acked \subseteq Contents /\ Contents = db.mem \cup db.imm \cup In(tables, db.version)
        /\ (\A x \in Contents : x.seq <= db.seq /\ x \in Entries)
        /\ Holds(tables, logs, db.version, db.log_number, acked, durable)
    BY <1>1, Running
  <2>2. OpenInv /\ NumbersInv /\ FileTypes /\ db.seq \in Nat /\ db.inputs \subseteq db.version
    BY <1>1, <2>1 DEF RecInv, OpenInv, DBs
  <2>3. X \subseteq Contents
    <3>1. In(tables, db.inputs) \subseteq In(tables, db.version)
      BY <2>2, InMonotone
    <3> QED  BY <3>1, <2>1 DEF Source
  <2>4. X \subseteq Entries /\ \A x \in X : x.seq <= db.seq
    BY <2>1, <2>3
  <2>5. /\ FileTypes' /\ Bounded' /\ Kept' /\ CurrentInv' /\ OpenedInv'
        /\ nf \in DOMAIN tables' /\ DOMAIN tables \subseteq DOMAIN tables'
        /\ tables'[nf] = X
        /\ SameTables(tables, tables', db.version \cup db.adds)
    <3>1. pc \in Opening \cup {"open"} /\ pc' \in Opening \cup {"open"}
      BY <1>1
    <3> QED  BY <3>1, <1>1, <1>3, <2>1, <2>3, <2>4, NewTable, ZenonT(30)
  <2>6. /\ In(tables', db.version) = In(tables, db.version) /\ In(tables', db.inputs) = In(tables, db.inputs)
        /\ In(tables', {nf}) = X
    <3>1. SameTables(tables, tables', db.version) /\ SameTables(tables, tables', db.inputs)
      BY <2>2, <2>5 DEF SameTables
    <3> QED  BY <3>1, <2>5, SameIn DEF In
  <2>7. /\ db' \in DBs /\ db'.mem = db.mem /\ db'.imm = db.imm /\ db'.logfile = db.logfile /\ db'.next_file = nf + 1
        /\ db'.seq = db.seq /\ db'.manifest = db.manifest /\ db'.log_number = db.log_number
        /\ db'.version = db.version /\ db'.adds = db.adds
        /\ db'.inputs = db.inputs /\ db'.tail = db.tail /\ db'.bg_error = db.bg_error
    <3>1. nf + 1 \in Nat
      BY <2>1
    <3>2. db' \in DBs
      BY <3>1, <1>3, <2>1 DEF DBs
    <3> QED  BY <3>2, <1>3, <2>1 DEF DBs
  <2>8. del \subseteq Nat /\ log \in Nat /\ log <= db.logfile /\ log < nf + 1
    BY <2>1 DEF Source, DBs
  <2>9. /\ edit \in FullEdits /\ edit.add = {nf} /\ edit.del = del /\ edit.log = log /\ edit.next = nf + 1
        /\ edit.seq = db.seq
    BY <2>1, <2>2, <2>8 DEF Edit, FullEdits
  <2> HIDE DEF edit
  <2>10. ProcessTypes'
    <3>1. left' \in [writes : Nat, crashes : Nat, failures : Nat, compactions : Nat, repairs : Nat]
      BY <1>3, Budgeted DEF RecInv
    <3>2. job' \in [stage : {"none", "built", "appended", "synced"}, edit : FullEdits]
      BY <1>3, <2>9
    <3> QED  BY <3>1, <3>2, <1>1, <2>7 DEF RecInv, ProcessTypes, Resting
  <2>11. \A t \in db.version \cup db.adds : t < nf /\ t \in Nat
    BY <1>1, <2>1, <2>2 DEF NumbersInv, DBs
  <2>12. NumbersInv'
    <3>1. ASSUME NEW p \in Leftovers(manifests[current]), Numbered(p) PROVE Last(p).next <= nf + 1
      <4>1. Last(p).next <= nf
        BY <3>1, <1>1, <2>1, <2>2 DEF NumbersInv
      <4>2. Last(p).next \in Nat
        BY <3>1, <2>1, <2>2, CurrentNext
      <4> QED  BY <4>1, <4>2, <2>1
    <3>2. db.manifest \in Nat /\ db.manifest < nf + 1 /\ db.log_number < nf + 1
      BY <1>1, <2>1, <2>2 DEF NumbersInv
    <3>3. \A t \in db.version \cup db.adds : t < nf + 1
      BY <2>1, <2>11
    <3>4. db.version \cup db.adds \subseteq DOMAIN tables'
      BY <2>5 DEF SameTables
    <3> QED  BY <3>1, <3>2, <3>3, <3>4, <1>1, <2>7 DEF NumbersInv
  <2>13. OpenInv'
    <3>1. Contents' = Contents
      <4>1. Contents' = db'.mem \cup db'.imm \cup In(tables', db'.version)
        BY DEF Contents, EntriesOf, In
      <4> QED  BY <4>1, <1>1, <2>1, <2>6, <2>7
    <3>2. acked' \subseteq Contents' /\ \A x \in Contents' : x.seq <= db'.seq
      BY <3>1, <1>1, <2>1, <2>7
    <3>3. \A n \in DOMAIN logs : n < nf + 1
      <4>1. \A n \in DOMAIN logs : n < nf /\ n \in Nat
        BY <1>1, <2>2 DEF OpenInv, FileTypes
      <4> QED  BY <4>1, <2>1
    <3>4. db.logfile < nf + 1
      BY <2>1
    <3>5. /\ db'.adds = {} /\ db'.mem \cap db'.imm = {}
          /\ (db'.mem \cup db'.imm) \cap In(tables', db'.version) = {}
          /\ db'.inputs \subseteq db'.version /\ (db'.tail # "whole" => db'.bg_error # "OK")
      BY <1>1, <2>2, <2>6, <2>7 DEF OpenInv
    <3> QED  BY <3>2, <3>3, <3>4, <3>5, <1>1, <2>1, <2>2, <2>7 DEF OpenInv
  <2>14. BaseInv' /\ Base' = Base
    <3>1. BaseInv /\ job'.stage = "built" /\ (Active' => Active)
      BY <1>3, <2>7 DEF RecInv, Active
    <3>2. Base' = Base
      BY <3>1, <1>1, <2>7 DEF Base
    <3> QED  BY <3>1, <3>2, <1>1, <2>7 DEF BaseInv
  <2>15. JobInv'
    <3>1. job'.edit = edit
      BY <1>3
    <3>2. nf < nf + 1 /\ {nf} \subseteq DOMAIN tables'
      BY <2>1, <2>5
    <3>3. \A x \in In(tables', {nf}) : x.seq <= db.seq
      BY <2>4, <2>6
    <3>4. nf + 1 <= nf + 1
      BY <2>1
    <3>5. \/ del = {} /\ log = db.logfile /\ db.imm # {} /\ In(tables', {nf}) = db.imm
          \/ del # {} /\ del = db.inputs /\ log = db.log_number /\ In(tables', {nf}) = In(tables', db.inputs)
      BY <2>6 DEF Source
    <3>6. Last(Base).next <= nf + 1 /\ Last(Base).seq <= db.seq
      <4>1. Last(Base).next \in Nat /\ Last(Base).next <= nf /\ Last(Base).seq <= db.seq
        BY <1>1, BaseLeft
      <4> QED  BY <4>1, <2>1
    <3>7. db.seq <= db.seq
      BY <2>2
    <3> QED  BY <3>1, <3>2, <3>3, <3>4, <3>5, <3>6, <3>7, <2>7, <2>8, <2>9, <2>14 DEF JobInv
  <2>16. CreatingInv' /\ ReplayInv' /\ RecoveredInv' /\ RepairInv'
    BY <1>1, NotMending DEF CreatingInv, ReplayInv, RecoveredInv, Repairing
  <2> QED  BY <2>5, <2>10, <2>12, <2>13, <2>14, <2>15, <2>16 DEF RecInv
<1> QED  BY <1>2, <1>3 DEF BuildTable

LEMMA CompactMemTableStep == ASSUME RecInv, CompactMemTable PROVE RecInv'
<1>1. /\ BuildTable(db.imm, {}, db.logfile) /\ Source(db.imm, {}, db.logfile)
      /\ (db.bg_error = "OK" \/ db.inputs # {})
  BY DEF CompactMemTable, Source
<1> QED  BY <1>1, BuildTableStep

LEMMA PickCompactionStep == ASSUME RecInv, PickCompaction PROVE RecInv'
<1>1. /\ pc = "open" /\ db.bg_error = "OK" /\ job.stage = "none" /\ left.compactions > 0
      /\ left' = [left EXCEPT !.compactions = @ - 1]
      /\ UNCHANGED <<files, current, manifests, logs, tables, pc, job, writes, acked, durable, opened>>
  BY DEF PickCompaction, files, history
<1> PICK inputs \in SUBSET db.version : db' = [db EXCEPT !.inputs = inputs]
  BY DEF PickCompaction
<1>2. db \in DBs /\ OpenInv /\ BaseInv /\ NumbersInv /\ ProcessTypes
  BY DEF RecInv, ProcessTypes
<1>3. /\ db' \in DBs /\ db'.mem = db.mem /\ db'.imm = db.imm /\ db'.logfile = db.logfile /\ db'.next_file = db.next_file
      /\ db'.seq = db.seq /\ db'.manifest = db.manifest /\ db'.log_number = db.log_number
      /\ db'.version = db.version /\ db'.adds = db.adds
      /\ db'.inputs = inputs /\ db'.tail = db.tail /\ db'.bg_error = db.bg_error
  <2>1. db' \in DBs
    BY <1>1, <1>2 DEF DBs
  <2> QED  BY <2>1, <1>1, <1>2 DEF DBs
<1>4. FileTypes' /\ Bounded' /\ Kept'
  BY FilesUnchanged, <1>1 DEF RecInv
<1>5. CurrentInv' /\ OpenedInv'
  BY CurrentUnchanged, <1>1 DEF RecInv, Mending, Repairing
<1>6. ProcessTypes'
  <2>1. left.compactions - 1 \in Nat
    BY <1>1, <1>2 DEF ProcessTypes
  <2>2. left' \in [writes : Nat, crashes : Nat, failures : Nat, compactions : Nat, repairs : Nat]
    BY <2>1, <1>1, <1>2 DEF ProcessTypes
  <2> QED  BY <2>2, <1>1, <1>2, <1>3 DEF ProcessTypes, Resting
<1>7. NumbersInv'
  BY <1>1, <1>2, <1>3 DEF NumbersInv
<1>8. Contents' = Contents /\ Base' = Base
  BY <1>1, <1>3 DEF Contents, EntriesOf, Base
<1>9. OpenInv'
  BY <1>1, <1>2, <1>3, <1>8 DEF OpenInv
<1>10. BaseInv'
  <2>1. Active' => Active
    BY <1>1, <1>3 DEF Active
  <2> QED  BY <2>1, <1>1, <1>2, <1>3, <1>8 DEF BaseInv
<1>11. JobInv'
  BY <1>1 DEF JobInv
<1>12. CreatingInv' /\ ReplayInv' /\ RecoveredInv' /\ RepairInv'
  BY <1>1, NotMending DEF CreatingInv, ReplayInv, RecoveredInv, Repairing
<1> QED  BY <1>4, <1>5, <1>6, <1>7, <1>9, <1>10, <1>11, <1>12 DEF RecInv

LEMMA CompactTablesStep == ASSUME RecInv, CompactTables PROVE RecInv'
<1>1. BuildTable(In(tables, db.inputs), db.inputs, db.log_number) /\ db.inputs # {}
  BY DEF CompactTables, EntriesOf, In
<1>2. Source(In(tables, db.inputs), db.inputs, db.log_number)
  BY <1>1 DEF Source
<1> QED  BY <1>1, <1>2, BuildTableStep

\* The version that an edit makes.
NewVersion == (db.version \ job.edit.del) \cup job.edit.add

LEMMA EditSound ==
  ASSUME RecInv, pc = "open", job.stage # "none"
  PROVE  /\ job.edit \in FullEdits /\ job.edit \in Edits /\ NewVersion \subseteq DOMAIN tables
         /\ job.edit.next \in Nat /\ job.edit.log \in Nat /\ job.edit.seq \in Nat
         /\ job.edit.log < job.edit.next
         /\ job.edit.next <= db.next_file /\ job.edit.log <= db.logfile /\ job.edit.seq <= db.seq
         /\ (\A t \in NewVersion : t < db.next_file)
         /\ \/ job.edit.del = {} /\ In(tables, NewVersion) = In(tables, db.version) \cup db.imm
                 /\ job.edit.log = db.logfile
            \/ job.edit.del # {} /\ job.edit.del = db.inputs
                 /\ In(tables, NewVersion) = In(tables, db.version) /\ job.edit.log = db.log_number
         /\ Holds(tables, logs, NewVersion, job.edit.log, acked, durable)
<1> DEFINE e == job.edit
<1>1. e \in FullEdits /\ e \in Edits /\ e.next \in Nat /\ e.log \in Nat /\ e.seq \in Nat /\ e.add \subseteq Nat
  BY DEF RecInv, ProcessTypes, FullEdits, Edits
<1>2. JobInv /\ OpenInv /\ NumbersInv
  BY DEF RecInv
<1>3. /\ db.logfile \in DOMAIN logs /\ db.logfile \in Nat /\ durable \subseteq acked /\ db.next_file \in Nat
      /\ acked \subseteq db.mem \cup db.imm \cup In(tables, db.version)
      /\ Holds(tables, logs, db.version, db.log_number, acked, durable)
  BY Running
<1>4. /\ e.add \subseteq DOMAIN tables /\ (\A t \in e.add : t < e.next)
      /\ e.next <= db.next_file /\ e.log <= db.logfile /\ e.log < e.next /\ e.seq <= db.seq
      /\ \/ e.del = {} /\ e.log = db.logfile /\ In(tables, e.add) = db.imm
         \/ e.del # {} /\ e.del = db.inputs /\ e.log = db.log_number /\ In(tables, e.add) = In(tables, db.inputs)
  BY <1>2 DEF JobInv
<1>5. db.version \subseteq DOMAIN tables /\ (\A t \in db.version : t < db.next_file) /\ db.inputs \subseteq db.version
  BY <1>2 DEF NumbersInv, OpenInv
<1>6. NewVersion \subseteq db.version \cup e.add
  BY DEF NewVersion
<1>7. \A t \in NewVersion : t < db.next_file
  <2>1. \A t \in e.add : t < db.next_file
    BY <1>1, <1>3, <1>4
  <2> QED  BY <2>1, <1>5, <1>6
<1>8. \/ e.del = {} /\ In(tables, NewVersion) = In(tables, db.version) \cup db.imm /\ e.log = db.logfile
      \/ e.del # {} /\ e.del = db.inputs
           /\ In(tables, NewVersion) = In(tables, db.version) /\ e.log = db.log_number
  <2>1. CASE e.del = {}
    <3>1. NewVersion = db.version \cup e.add
      BY <2>1 DEF NewVersion
    <3> QED  BY <3>1, <2>1, <1>4, InUnion
  <2>2. CASE e.del # {}
    <3>1. NewVersion = (db.version \ db.inputs) \cup e.add /\ db.version = (db.version \ db.inputs) \cup db.inputs
      BY <2>2, <1>4, <1>5 DEF NewVersion
    <3>2. In(tables, NewVersion) = In(tables, db.version \ db.inputs) \cup In(tables, db.inputs)
      BY <3>1, <2>2, <1>4, InUnion
    <3>3. In(tables, db.version) = In(tables, db.version \ db.inputs) \cup In(tables, db.inputs)
      BY <3>1, InUnion
    <3> QED  BY <3>2, <3>3, <2>2, <1>4
  <2> QED  BY <2>1, <2>2
<1>9. Holds(tables, logs, NewVersion, e.log, acked, durable)
  <2>1. CASE e.log = db.logfile /\ In(tables, NewVersion) = In(tables, db.version) \cup db.imm
    <3>1. /\ db.mem \cap acked \subseteq ToSet(logs[db.logfile].recs)
          /\ db.mem \cap durable \subseteq OnDevice(logs[db.logfile])
      BY <1>2 DEF OpenInv
    <3>2. db.logfile >= db.logfile
      BY <1>3
    <3>3. /\ db.mem \cap acked \subseteq Logged(logs, db.logfile)
          /\ db.mem \cap durable \subseteq LoggedSafely(logs, db.logfile)
      BY <3>1, <3>2, <1>3, InLogs
    <3> QED  BY <2>1, <3>3, <1>3 DEF Holds
  <2>2. CASE e.log = db.log_number /\ In(tables, NewVersion) = In(tables, db.version)
    BY <2>2, <1>3 DEF Holds
  <2> QED  BY <2>1, <2>2, <1>8
<1> QED  BY <1>1, <1>4, <1>5, <1>6, <1>7, <1>8, <1>9

\* The manifest can be recovered from once the edit is in it.
LEMMA EditReadable ==
  ASSUME RecInv, pc = "open", job.stage = "built", db.tail # "cut"
  PROVE  /\ Numbered(Append(Base, job.edit)) /\ Last(Append(Base, job.edit)) = job.edit
         /\ Sound(Append(Base, job.edit), tables, logs, acked, durable)
         /\ Last(Base).next <= job.edit.next /\ Front(Append(Base, job.edit)) = Base
<1> DEFINE e == job.edit
           q == Append(Base, e)
<1>1. /\ e \in Edits /\ e.next \in Nat /\ e.seq \in Nat /\ e.log < e.next
      /\ Holds(tables, logs, NewVersion, e.log, acked, durable)
  BY EditSound
<1>2. /\ Base \in Seq(Edits) /\ Last(Base).next \in Nat /\ Last(Base).seq \in Nat
      /\ Sound(Base, tables, logs, acked, durable)
  BY BaseLeft
<1>3. /\ Last(Base).next <= e.next /\ Last(Base).seq <= e.seq
      /\ e.add \subseteq DOMAIN tables /\ (\A t \in e.add : t < e.next)
      /\ \A x \in In(tables, e.add) : x.seq <= e.seq
  BY DEF RecInv, JobInv
<1>4. db.version \subseteq Applied(Base)
  BY DEF RecInv, BaseInv, Active
<1>5. Applied(q) = (Applied(Base) \ e.del) \cup e.add /\ Last(q) = e /\ q # <<>> /\ Front(q) = Base
  BY <1>1, <1>2, AppliedAppend
<1> HIDE DEF q, e
<1>6. Numbered(q)
  BY <1>1, <1>5, RecoveryAssumption DEF Numbered
<1>7. NewVersion \subseteq Applied(q) /\ Applied(q) \subseteq Applied(Base) \cup e.add
  BY <1>4, <1>5 DEF NewVersion, e
<1>8. Applied(q) \subseteq DOMAIN tables /\ \A t \in Applied(q) : t < Last(q).next
  <2>1. \A t \in Applied(Base) : t \in DOMAIN tables /\ t \in Nat /\ t < Last(Base).next
    BY <1>2 DEF Sound, RecInv, FileTypes
  <2>2. \A t \in Applied(Base) : t < e.next
    BY <2>1, <1>1, <1>2, <1>3
  <2> QED  BY <2>1, <2>2, <1>3, <1>5, <1>7
<1>9. \A x \in In(tables, Applied(q)) : x.seq <= Last(q).seq
  <2> SUFFICES ASSUME NEW x \in In(tables, Applied(q)) PROVE x.seq <= e.seq
    BY <1>5
  <2>1. x \in In(tables, Applied(Base)) \/ x \in In(tables, e.add)
    <3>1. PICK t \in Applied(q) : x \in tables[t]
      BY InTables
    <3> QED  BY <3>1, <1>7, InTables
  <2>2. CASE x \in In(tables, e.add)
    BY <2>2, <1>3
  <2>3. CASE x \in In(tables, Applied(Base))
    <3>1. PICK t \in Applied(Base) : x \in tables[t]
      BY <2>3, InTables
    <3>2. t \in DOMAIN tables /\ x.seq <= Last(Base).seq
      BY <3>1, <2>3, <1>2 DEF Sound
    <3>3. x.seq \in Nat
      BY <3>1, <3>2 DEF RecInv, FileTypes, Entries
    <3> QED  BY <3>2, <3>3, <1>1, <1>2, <1>3
  <2> QED  BY <2>1, <2>2, <2>3
<1>10. Holds(tables, logs, Applied(q), Last(q).log, acked, durable)
  <2>1. In(tables, NewVersion) \subseteq In(tables, Applied(q))
    BY <1>7, InMonotone
  <2> QED  BY <2>1, <1>1, <1>5 DEF Holds
<1>11. Sound(q, tables, logs, acked, durable)
  BY <1>1, <1>5, <1>8, <1>9, <1>10 DEF Sound
<1> QED  BY <1>3, <1>5, <1>6, <1>11 DEF q, e

\* The manifest in use grows, or more of it is on the device.
LEMMA ManifestGrows ==
  ASSUME RecInv, pc = "open", job.stage # "none", Succeeds,
         UNCHANGED <<current, logs, tables, pc, db, writes, acked, durable, opened>>,
         NEW f \in ManifestFiles, manifests' = [manifests EXCEPT ![db.manifest] = f],
         \A p \in Leftovers(f) : p \in Leftovers(manifests[current]) \/ p = f.recs,
         Numbered(f.recs), Last(f.recs) \in FullEdits, Sound(f.recs, tables, logs, acked, durable),
         Last(manifests[current].recs).next <= Last(f.recs).next, Last(f.recs).next <= db.next_file,
         Last(f.recs).log <= db.logfile, Last(f.recs).seq <= db.seq,
         NEW stage \in {"appended", "synced"}, job' = [job EXCEPT !.stage = stage], BaseInv', JobInv'
  PROVE  RecInv'
<1> DEFINE m == manifests[current]
           q == f.recs
<1>1. /\ db \in DBs /\ opened = TRUE /\ current = db.manifest /\ current \in DOMAIN manifests /\ current \in Nat
      /\ db.next_file \in Nat
  BY Running
<1>2. FileTypes /\ Last(q).next \in Nat
  BY DEF RecInv, FullEdits
<1>3. m \in [recs : Seq(Edits), synced : Nat] /\ m.synced <= Len(m.recs)
  BY <1>1, <1>2 DEF FileTypes, ManifestFiles
<1>4. m.recs \in Leftovers(m)
  BY <1>3, LeftoverWhole
<1>5. Numbered(m.recs) /\ current < Last(m.recs).next
  BY <1>1, <1>4 DEF RecInv, OpenedInv
<1>6. Last(m.recs).next \in Nat
  BY <1>1, <1>2, <1>4, <1>5, CurrentNext
<1>7. /\ DOMAIN manifests' = DOMAIN manifests /\ manifests'[current] = f
      /\ manifests' \in [DOMAIN manifests -> ManifestFiles]
  BY <1>1, <1>2 DEF FileTypes
<1>8. FileTypes'
  BY <1>2, <1>7 DEF FileTypes
<1>9. Bounded' /\ Kept'
  BY DEF RecInv, Bounded, Kept
<1>10. ASSUME NEW p \in Leftovers(f)
       PROVE  /\ Numbered(p) /\ Sound(p, tables, logs, acked, durable) /\ current < Last(p).next
              /\ Last(p).next <= Last(q).next /\ Last(p).next <= db.next_file
              /\ Last(p).log <= db.logfile /\ Last(p).seq <= db.seq
  <2>1. CASE p = q
    BY <2>1, <1>1, <1>2, <1>5, <1>6
  <2>2. CASE p \in Leftovers(m)
    <3>1. Numbered(p) /\ current < Last(p).next
      BY <2>2, <1>1 DEF RecInv, OpenedInv
    <3>2. Last(p).next <= db.next_file /\ Last(p).log <= db.logfile /\ Last(p).seq <= db.seq
      BY <3>1, <2>2, <1>1 DEF RecInv, NumbersInv, OpenInv
    <3>3. Sound(p, tables, logs, acked, durable) /\ Last(p).next <= Last(m.recs).next
      BY <3>1, <2>2, <1>1 DEF RecInv, CurrentInv, Repairing
    <3>4. Last(p).next \in Nat
      BY <3>1, <2>2, <1>1, <1>2, CurrentNext
    <3> QED  BY <3>1, <3>2, <3>3, <3>4, <1>2, <1>6
  <2> QED  BY <2>1, <2>2
<1>11. CurrentInv'
  <2>1. current' # NoFile
    BY <1>1, RecoveryAssumption
  <2> QED  BY <2>1, <1>7, <1>10 DEF CurrentInv
<1>12. OpenedInv' /\ NumbersInv' /\ OpenInv'
  <2>1. pc \notin Repairing \cup {"unrepaired", "corrupt"}
    BY DEF Repairing
  <2>2. OpenedInv'
    BY <2>1, <1>1, <1>7, <1>10 DEF OpenedInv
  <2>3. NumbersInv'
    BY <1>1, <1>7, <1>10 DEF RecInv, NumbersInv
  <2>4. Contents' = Contents
    BY DEF Contents, EntriesOf
  <2>5. OpenInv'
    BY <2>4, <1>1, <1>7, <1>10 DEF RecInv, OpenInv
  <2> QED  BY <2>2, <2>3, <2>5
<1>13. ProcessTypes'
  <2>1. left' \in [writes : Nat, crashes : Nat, failures : Nat, compactions : Nat, repairs : Nat]
    BY Budgeted DEF RecInv
  <2>2. job' \in [stage : {"none", "built", "appended", "synced"}, edit : FullEdits]
    BY DEF RecInv, ProcessTypes
  <2> QED  BY <2>1, <2>2 DEF RecInv, ProcessTypes, Resting
<1>14. CreatingInv' /\ ReplayInv' /\ RecoveredInv' /\ RepairInv'
  BY NotMending DEF CreatingInv, ReplayInv, RecoveredInv, Repairing
<1> QED  BY <1>8, <1>9, <1>11, <1>12, <1>13, <1>14 DEF RecInv

\* Behind a failed append the edit cannot be read, nor can any after it.
LEMMA EditUnread ==
  ASSUME RecInv, pc = "open", job.stage = "built", Succeeds, db.tail # "whole",
         db' = [db EXCEPT !.tail = "cut"], job' = [job EXCEPT !.stage = "appended"],
         UNCHANGED <<current, manifests, logs, tables, pc, writes, acked, durable, opened>>
  PROVE  RecInv'
<1>1. /\ db' \in DBs /\ db'.mem = db.mem /\ db'.imm = db.imm /\ db'.logfile = db.logfile /\ db'.next_file = db.next_file
      /\ db'.seq = db.seq /\ db'.manifest = db.manifest /\ db'.log_number = db.log_number
      /\ db'.version = db.version /\ db'.adds = db.adds
      /\ db'.inputs = db.inputs /\ db'.tail = "cut" /\ db'.bg_error = db.bg_error
  <2>1. db \in DBs
    BY DEF RecInv, ProcessTypes
  <2>2. db' \in DBs
    BY <2>1 DEF DBs
  <2> QED  BY <2>1, <2>2 DEF DBs
<1>2. job'.edit = job.edit /\ job' \in [stage : {"none", "built", "appended", "synced"}, edit : FullEdits]
  BY DEF RecInv, ProcessTypes
<1>3. FileTypes' /\ Bounded' /\ Kept'
  BY DEF RecInv, FileTypes, Bounded, Kept
<1>4. CurrentInv' /\ OpenedInv'
  BY CurrentUnchanged DEF RecInv, Mending, Repairing
<1>5. ProcessTypes'
  <2>1. left' \in [writes : Nat, crashes : Nat, failures : Nat, compactions : Nat, repairs : Nat]
    BY Budgeted DEF RecInv
  <2> QED  BY <2>1, <1>1, <1>2 DEF RecInv, ProcessTypes, Resting
<1>6. NumbersInv'
  BY <1>1 DEF RecInv, NumbersInv
<1>7. OpenInv'
  <2>1. Contents' = Contents
    BY <1>1 DEF Contents, EntriesOf
  <2> QED  BY <2>1, <1>1 DEF RecInv, OpenInv
<1>8. BaseInv'
  BY <1>1 DEF BaseInv, Active
<1>9. JobInv'
  BY <1>1, <1>2 DEF RecInv, JobInv
<1>10. CreatingInv' /\ ReplayInv' /\ RecoveredInv' /\ RepairInv'
  BY NotMending DEF CreatingInv, ReplayInv, RecoveredInv, Repairing
<1> QED  BY <1>3, <1>4, <1>5, <1>6, <1>7, <1>8, <1>9, <1>10 DEF RecInv

LEMMA AppendEditStep == ASSUME RecInv, AppendEdit PROVE RecInv'
<1> DEFINE m == manifests[db.manifest]
           f == Appended(m, job.edit)
<1>1. pc = "open" /\ job.stage = "built" /\ UNCHANGED <<current, logs, tables, pc, writes, acked, durable, opened>>
  BY DEF AppendEdit, history
<1>2. ASSUME Fails, UNCHANGED manifests, job' = NoJob,
             NEW tail \in IF db.tail = "whole" THEN {"torn"} ELSE {db.tail, "cut"},
             db' = [db EXCEPT !.bg_error = "IOError", !.tail = tail,
                              !.inputs = IF job.edit.del = {} THEN @ ELSE {}]
      PROVE  RecInv'
  <2> DEFINE inputs == IF job.edit.del = {} THEN db.inputs ELSE {}
  <2>1. db.tail \in {"whole", "torn", "cut"}
    BY DEF RecInv, ProcessTypes, DBs
  <2>2. tail \in {"whole", "torn", "cut"} /\ (tail # "cut" => db.tail # "cut")
    BY <2>1, <1>2
  <2>3. db' = [db EXCEPT !.bg_error = "IOError", !.inputs = inputs, !.tail = tail]
    BY <1>2 DEF RecInv, ProcessTypes, DBs
  <2>4. inputs = {} \/ (inputs = db.inputs /\ (job.stage = "none" \/ job.edit.del = {}))
    OBVIOUS
  <2>5. UNCHANGED <<current, manifests, logs, tables, pc, history>>
    BY <1>1, <1>2 DEF history
  <2> HIDE DEF inputs
  <2> QED  BY <2>2, <2>3, <2>4, <2>5, <1>1, <1>2, Aborting
<1>3. CASE /\ Succeeds /\ db.tail # "cut" /\ manifests' = [manifests EXCEPT ![db.manifest] = f]
           /\ job' = [job EXCEPT !.stage = "appended"] /\ UNCHANGED db
  <2>1. current = db.manifest /\ current \in DOMAIN manifests
    BY <1>1, Running
  <2>2. m.recs = Base /\ Base \in Seq(Edits)
    BY <1>1, <2>1, BaseLeft
  <2>3. job.edit \in FullEdits /\ job.edit \in Edits
    BY <1>1, EditSound
  <2>4. m \in ManifestFiles
    BY <2>1 DEF RecInv, FileTypes
  <2>5. /\ m \in [recs : Seq(Edits), synced : Nat] /\ m.synced <= Len(m.recs)
        /\ \A i \in 2..Len(m.recs) : m.recs[i] \in FullEdits
    BY <2>4 DEF ManifestFiles
  <2> HIDE DEF m
  <2>6. /\ f \in [recs : Seq(Edits), synced : Nat] /\ f.recs = Append(m.recs, job.edit) /\ f.synced = m.synced
        /\ Leftovers(f) = Leftovers(m) \cup {Append(m.recs, job.edit)}
    <3> DEFINE e == job.edit
    <3>1. m \in [recs : Seq(Edits), synced : Nat] /\ m.synced <= Len(m.recs) /\ e \in Edits
      BY <2>3, <2>5
    <3> HIDE DEF e
    <3>2. /\ Appended(m, e) \in [recs : Seq(Edits), synced : Nat]
          /\ Appended(m, e).recs = Append(m.recs, e) /\ Appended(m, e).synced = m.synced
          /\ Leftovers(Appended(m, e)) = Leftovers(m) \cup {Append(m.recs, e)}
      BY <3>1, AppendedFile
    <3> QED  BY <3>2 DEF e
  <2>7. f \in ManifestFiles
    <3>1. Len(m.recs) \in Nat /\ Len(f.recs) = Len(m.recs) + 1
      BY <2>3, <2>5, <2>6
    <3>2. ASSUME NEW i \in 2..Len(f.recs) PROVE f.recs[i] \in FullEdits
      <4>1. CASE i = Len(m.recs) + 1
        BY <4>1, <2>3, <2>5, <2>6
      <4>2. CASE i # Len(m.recs) + 1
        <5>1. i \in 2..Len(m.recs) /\ i \in 1..Len(m.recs)
          BY <4>2, <3>1
        <5>2. f.recs[i] = m.recs[i]
          BY <5>1, <2>3, <2>5, <2>6
        <5> QED  BY <5>1, <5>2, <2>5
      <4> QED  BY <4>1, <4>2
    <3>3. f.synced <= Len(f.recs)
      BY <3>1, <2>5, <2>6
    <3> QED  BY <3>2, <3>3, <2>6 DEF ManifestFiles
  <2> HIDE DEF f
  <2>8. f.recs = Append(Base, job.edit) /\ \A p \in Leftovers(f) : p \in Leftovers(manifests[current]) \/ p = f.recs
    BY <2>1, <2>2, <2>6 DEF m
  <2>9. /\ Numbered(f.recs) /\ Last(f.recs) = job.edit /\ Sound(f.recs, tables, logs, acked, durable)
        /\ Last(manifests[current].recs).next <= job.edit.next /\ Front(f.recs) = Base
    BY <2>1, <2>2, <2>8, <1>1, <1>3, EditReadable DEF m
  <2>10. job.edit.next <= db.next_file /\ job.edit.log <= db.logfile /\ job.edit.seq <= db.seq
    BY <1>1, EditSound
  <2>11. job'.stage = "appended" /\ job'.edit = job.edit /\ manifests'[db'.manifest] = f
    BY <2>1, <1>3 DEF RecInv, ProcessTypes, FileTypes
  <2>12. Base' = Base
    BY <2>9, <2>11 DEF Base
  <2>13. BaseInv'
    <3>1. BaseInv /\ Active
      BY <1>1, <1>3 DEF RecInv, Active
    <3> QED  BY <3>1, <2>8, <2>11, <2>12, <1>1, <1>3 DEF BaseInv
  <2>14. JobInv'
    BY <2>11, <2>12, <1>1, <1>3 DEF RecInv, JobInv
  <2>15. job.stage # "none" /\ "appended" \in {"appended", "synced"}
    BY <1>1
  <2>16. Last(f.recs) \in FullEdits /\ Last(f.recs).next <= db.next_file /\ Last(f.recs).log <= db.logfile
         /\ Last(f.recs).seq <= db.seq /\ Last(manifests[current].recs).next <= Last(f.recs).next
    BY <2>3, <2>9, <2>10
  <2> QED  BY <1>1, <1>3, <2>7, <2>8, <2>9, <2>13, <2>14, <2>15, <2>16, ManifestGrows, ZenonT(30)
<1>4. CASE /\ Succeeds /\ db.tail # "whole" /\ db' = [db EXCEPT !.tail = "cut"] /\ UNCHANGED manifests
           /\ job' = [job EXCEPT !.stage = "appended"]
  BY <1>1, <1>4, EditUnread
<1> QED  BY <1>2, <1>3, <1>4 DEF AppendEdit, AddEdit

LEMMA SyncEditStep == ASSUME RecInv, SyncEdit PROVE RecInv'
<1> DEFINE m == manifests[db.manifest]
           f == Synced(m)
<1>1. pc = "open" /\ job.stage = "appended" /\ UNCHANGED <<current, logs, tables, pc, writes, acked, durable, opened>>
  BY DEF SyncEdit, history
<1>2. CASE BackgroundFails(job.edit.del) /\ UNCHANGED manifests
  <2>1. UNCHANGED <<current, manifests, logs, tables, pc, history>>
    BY <1>1, <1>2 DEF history
  <2> QED  BY <2>1, <1>1, <1>2, BackgroundFailsStep
<1>3. CASE /\ Succeeds /\ manifests' = [manifests EXCEPT ![db.manifest] = f]
           /\ job' = [job EXCEPT !.stage = "synced"] /\ UNCHANGED db
  <2>1. current = db.manifest /\ current \in DOMAIN manifests /\ opened = TRUE
    BY <1>1, Running
  <2>2. m \in ManifestFiles
    BY <2>1 DEF RecInv, FileTypes
  <2>3. /\ m \in [recs : Seq(Edits), synced : Nat] /\ m.synced <= Len(m.recs)
        /\ \A i \in 2..Len(m.recs) : m.recs[i] \in FullEdits
    BY <2>2 DEF ManifestFiles
  <2> HIDE DEF m
  <2>4. /\ f \in [recs : Seq(Edits), synced : Nat] /\ f.recs = m.recs /\ f.synced = Len(m.recs)
        /\ Leftovers(f) = {m.recs}
    BY <2>3, SyncedFile
  <2>5. f \in ManifestFiles
    <3>1. Len(m.recs) \in Nat
      BY <2>3
    <3> QED  BY <3>1, <2>3, <2>4 DEF ManifestFiles
  <2> HIDE DEF f
  <2>6. m.recs \in Leftovers(m)
    BY <2>3, LeftoverWhole
  <2>7. Numbered(m.recs)
    BY <2>1, <2>6 DEF RecInv, OpenedInv, m
  <2>8. /\ Sound(m.recs, tables, logs, acked, durable) /\ Last(m.recs).next <= db.next_file
        /\ Last(m.recs).log <= db.logfile /\ Last(m.recs).seq <= db.seq
    BY <2>1, <2>6, <2>7, <1>1 DEF RecInv, CurrentInv, NumbersInv, OpenInv, m, Repairing
  <2>9. Last(m.recs) \in FullEdits /\ Last(m.recs).next \in Nat
    BY <2>1, <2>6, <2>7, CurrentNext DEF RecInv, m
  <2>10. /\ \A p \in Leftovers(f) : p \in Leftovers(manifests[current]) \/ p = f.recs
         /\ Last(manifests[current].recs).next <= Last(f.recs).next
    BY <2>1, <2>4, <2>9 DEF m
  <2>11. job'.stage = "synced" /\ job'.edit = job.edit /\ manifests'[db'.manifest] = f
    BY <2>1, <1>3 DEF RecInv, ProcessTypes, FileTypes
  <2>12. Base' = Base
    BY <2>4, <2>11, <1>1 DEF Base, m
  <2>13. BaseInv'
    <3>1. BaseInv /\ (Active' => Active)
      BY <1>1, <1>3 DEF RecInv, Active
    <3> QED  BY <3>1, <2>4, <2>11, <2>12, <1>1, <1>3 DEF BaseInv, m
  <2>14. JobInv'
    BY <2>11, <2>12, <1>1, <1>3 DEF RecInv, JobInv
  <2>15. job.stage # "none" /\ "synced" \in {"appended", "synced"}
    BY <1>1
  <2>16. /\ Numbered(f.recs) /\ Last(f.recs) \in FullEdits /\ Sound(f.recs, tables, logs, acked, durable)
         /\ Last(f.recs).next <= db.next_file /\ Last(f.recs).log <= db.logfile /\ Last(f.recs).seq <= db.seq
    BY <2>4, <2>7, <2>8, <2>9
  <2> QED  BY <1>1, <1>3, <2>5, <2>10, <2>13, <2>14, <2>15, <2>16, ManifestGrows, ZenonT(30)
<1> QED  BY <1>2, <1>3 DEF SyncEdit

LEMMA InstallStep == ASSUME RecInv, Install PROVE RecInv'
<1> DEFINE V == NewVersion
           e == job.edit
           i == IF e.del = {} THEN {} ELSE db.imm
           inputs == IF e.del = {} THEN db.inputs ELSE {}
           d == [db EXCEPT !.version = (@ \ job.edit.del) \cup job.edit.add, !.log_number = job.edit.log,
                           !.imm = IF job.edit.del = {} THEN {} ELSE @,
                           !.inputs = IF job.edit.del = {} THEN @ ELSE {}]
           kept == IF db.tail = "whole" THEN EntriesOf(d.version) ELSE {}
           q == Append(Base, e)
           m == manifests[current]
<1>1. /\ pc = "open" /\ job.stage = "synced" /\ db' = d /\ RemoveObsoleteFiles(d)
      /\ acked' = acked \cup kept /\ durable' = durable \cup kept /\ job' = NoJob
      /\ UNCHANGED <<current, pc, writes, opened, left>>
  BY DEF Install
<1>2. /\ db \in DBs /\ opened = TRUE /\ current = db.manifest /\ current \in DOMAIN manifests /\ current \in Nat
      /\ db.logfile \in DOMAIN logs /\ db.logfile \in Nat /\ db.next_file \in Nat /\ db.logfile < db.next_file
      /\ durable \subseteq acked /\ acked \subseteq Contents
      /\ Contents = db.mem \cup db.imm \cup In(tables, db.version)
      /\ \A x \in Contents : x.seq <= db.seq /\ x \in Entries
  BY <1>1, Running
<1>3. /\ e \in FullEdits /\ e \in Edits /\ V \subseteq DOMAIN tables
      /\ e.next \in Nat /\ e.log \in Nat /\ e.log < e.next
      /\ e.next <= db.next_file /\ e.log <= db.logfile
      /\ (\A t \in V : t < db.next_file)
      /\ \/ e.del = {} /\ In(tables, V) = In(tables, db.version) \cup db.imm /\ e.log = db.logfile
         \/ e.del # {} /\ In(tables, V) = In(tables, db.version) /\ e.log = db.log_number
      /\ Holds(tables, logs, V, e.log, acked, durable)
  BY <1>1, EditSound
<1>4. OpenInv /\ NumbersInv /\ BaseInv /\ db.adds = {} /\ db.inputs \subseteq db.version
  BY <1>1 DEF RecInv, OpenInv
<1>5. /\ d \in DBs /\ d.version = V /\ d.log_number = e.log /\ d.imm = i /\ d.mem = db.mem
      /\ d.logfile = db.logfile /\ d.manifest = db.manifest /\ d.next_file = db.next_file /\ d.seq = db.seq
      /\ d.adds = db.adds /\ d.inputs = inputs /\ d.tail = db.tail /\ d.bg_error = db.bg_error
  <2>1. V \subseteq Nat /\ i \in SUBSET Entries /\ inputs \in SUBSET Nat
    BY <1>2, <1>3 DEF RecInv, FileTypes, DBs
  <2>2. d = [db EXCEPT !.version = V, !.log_number = e.log, !.imm = i, !.inputs = inputs]
    BY <1>2 DEF NewVersion, DBs
  <2>3. e.log \in Nat
    BY <1>3
  <2> HIDE DEF V, d, i, e, inputs
  <2>4. d \in DBs
    BY <2>1, <2>2, <2>3, <1>2 DEF DBs
  <2> QED  BY <2>2, <2>4, <1>2 DEF DBs
<1>6. inputs \subseteq V
  BY <1>4 DEF NewVersion
<1>7. kept \subseteq In(tables, V) /\ (db.tail # "whole" => kept = {})
  BY <1>5 DEF EntriesOf, In
<1>8. ASSUME db.tail # "cut"
      PROVE  /\ m.recs = q /\ q \in Seq(Edits) /\ Leftovers(m) = {q} /\ Last(q) = e
             /\ V \subseteq Applied(q) /\ (db.bg_error = "OK" => Applied(q) = V)
  <2>1. /\ Base \in Seq(Edits) /\ m.recs = q /\ m.synced = Len(m.recs)
        /\ db.version \subseteq Applied(Base) /\ (db.bg_error = "OK" => Applied(Base) = db.version)
    BY <1>1, <1>2, <1>4, <1>8 DEF BaseInv, Active
  <2>2. m \in [recs : Seq(Edits), synced : Nat]
    BY <1>2 DEF RecInv, FileTypes, ManifestFiles
  <2>3. V = (db.version \ e.del) \cup e.add
    BY DEF NewVersion
  <2> HIDE DEF V, e, m
  <2>4. Applied(q) = (Applied(Base) \ e.del) \cup e.add /\ Last(q) = e /\ q \in Seq(Edits)
    BY <2>1, <1>3, AppliedAppend
  <2>5. Leftovers(m) = {m.recs}
    BY <2>1, <2>2, LeftoverSynced
  <2> QED  BY <2>1, <2>3, <2>4, <2>5
<1> HIDE DEF V, d, i, q, e, inputs, kept
<1>9. /\ FileTypes' /\ Bounded'
      /\ current \in DOMAIN manifests' /\ manifests'[current] = m
      /\ SameTables(tables, tables', V \cap DOMAIN tables)
      /\ DOMAIN logs' \subseteq DOMAIN logs
      /\ (\A n \in DOMAIN logs' : logs'[n] = logs[n])
      /\ (\A n \in DOMAIN logs : n >= e.log => n \in DOMAIN logs')
  <2>1. FileTypes /\ Bounded /\ d.manifest = current /\ current' = current /\ d.log_number \in Nat
        /\ current \in DOMAIN manifests
    BY <1>1, <1>2, <1>3, <1>5 DEF RecInv
  <2>2. /\ FileTypes' /\ Bounded'
        /\ current \in DOMAIN manifests' /\ manifests'[current] = manifests[current]
        /\ SameTables(tables, tables', d.version \cap DOMAIN tables)
        /\ DOMAIN logs' \subseteq DOMAIN logs
        /\ (\A n \in DOMAIN logs' : logs'[n] = logs[n])
        /\ (\A n \in DOMAIN logs : n >= d.log_number => n \in DOMAIN logs')
    BY <1>1, <2>1, Removal, Zenon
  <2> QED  BY <2>2, <1>5
<1>10. db.bg_error # "OK" => UNCHANGED <<logs, tables>>
  BY <1>1, <1>5 DEF RemoveObsoleteFiles
<1>11. SameTables(tables, tables', V) /\ V \subseteq DOMAIN tables' /\ In(tables', V) = In(tables, V)
  <2>1. SameTables(tables, tables', V)
    BY <1>3, <1>9 DEF SameTables
  <2> QED  BY <2>1, SameIn DEF SameTables
<1>12. MoreLogged(logs, logs', e.log)
  BY <1>9 DEF MoreLogged
<1>13. ASSUME NEW p \in Leftovers(m)
       PROVE  Numbered(p) /\ current < Last(p).next /\ Sound(p, tables', logs', acked', durable')
  <2>1. Numbered(p) /\ current < Last(p).next
    BY <1>2, <1>13 DEF RecInv, OpenedInv
  <2>2. Sound(p, tables, logs, acked, durable)
    BY <2>1, <1>1, <1>2, <1>13 DEF RecInv, CurrentInv, Repairing
  <2>3. CASE db.bg_error = "OK"
    <3>1. db.tail = "whole"
      BY <2>3, <1>1, <1>4 DEF OpenInv
    <3>2. p = q /\ Applied(p) = V /\ Last(p) = e
      BY <3>1, <2>3, <1>8, <1>13
    <3>3. SameTables(tables, tables', Applied(p)) /\ MoreLogged(logs, logs', Last(p).log)
      BY <3>2, <1>11, <1>12
    <3>4. kept \subseteq In(tables', Applied(p))
      BY <3>2, <1>7, <1>11
    <3> QED  BY <2>1, <2>2, <3>3, <3>4, <1>1, SoundStays
  <2>4. CASE db.bg_error # "OK"
    <3>1. SameTables(tables, tables', Applied(p)) /\ MoreLogged(logs, logs', Last(p).log)
      BY <2>2, <2>4, <1>10 DEF SameTables, MoreLogged, Sound
    <3>2. kept \subseteq In(tables', Applied(p))
      <4>1. CASE db.tail = "whole"
        <5>1. V \subseteq Applied(p)
          BY <4>1, <1>8, <1>13
        <5>2. In(tables', V) \subseteq In(tables', Applied(p))
          BY <5>1, InMonotone
        <5> QED  BY <5>2, <1>7, <1>11
      <4>2. CASE db.tail # "whole"
        BY <4>2, <1>7
      <4> QED  BY <4>1, <4>2
    <3> QED  BY <2>1, <2>2, <3>1, <3>2, <1>1, SoundStays
  <2> QED  BY <2>3, <2>4
<1>14. Kept'
  <2>1. acked' \subseteq acked \cup In(tables', V) /\ durable' \subseteq durable \cup In(tables', V)
    BY <1>1, <1>7, <1>11
  <2>2. Holds(tables', logs', V, e.log, acked', durable')
    BY <2>1, <1>3, <1>11, <1>12, HoldsStays
  <2>3. DOMAIN logs' \subseteq Nat
    BY <1>9 DEF FileTypes
  <2>4. Holds(tables', logs', DOMAIN tables', 0, acked', durable')
    BY <2>2, <2>3, <1>3, <1>11, HoldsMore
  <2> QED  BY <2>4 DEF Kept
<1>15. In(tables, V) \subseteq Contents
  BY <1>2, <1>3
<1>16. ProcessTypes'
  <2>1. db' \in DBs /\ durable' \subseteq acked' /\ acked' \subseteq Entries
    BY <1>1, <1>2, <1>5, <1>7, <1>15 DEF RecInv, ProcessTypes
  <2> QED  BY <2>1, <1>1, FreshTypes DEF RecInv, ProcessTypes, Resting
<1>17. CurrentInv' /\ OpenedInv'
  <2>1. current' # NoFile /\ m.recs = m.recs
    BY <1>1, <1>2, RecoveryAssumption
  <2>2. \A p \in Leftovers(m) : Numbered(p) => Numbered(m.recs) /\ Last(p).next <= Last(m.recs).next
    BY <1>1, <1>2 DEF RecInv, CurrentInv, Repairing
  <2>3. current' \in DOMAIN manifests' /\ manifests'[current'] = m
    BY <1>1, <1>9
  <2> HIDE DEF m
  <2>4. CurrentInv'
    BY <2>1, <2>2, <2>3, <1>13 DEF CurrentInv
  <2>5. pc' \notin Repairing \cup {"unrepaired", "corrupt"} /\ opened' \in BOOLEAN
    BY <1>1, <1>2 DEF Repairing
  <2>6. \A p \in Leftovers(m) : Numbered(p) /\ current' < Last(p).next
    BY <1>1, <1>13
  <2> QED  BY <2>3, <2>4, <2>5, <2>6 DEF OpenedInv
<1>18. NumbersInv'
  <2>1. \A p \in Leftovers(m) : Numbered(p) => Last(p).next <= db.next_file
    BY <1>1, <1>2, <1>4 DEF NumbersInv
  <2>2. db.manifest \in Nat /\ db.manifest < db.next_file /\ e.log < db.next_file
    BY <1>1, <1>2, <1>3, <1>4 DEF NumbersInv
  <2>3. manifests'[current'] = m
    BY <1>1, <1>9
  <2> QED  BY <2>1, <2>2, <2>3, <1>1, <1>3, <1>4, <1>5, <1>11 DEF NumbersInv
<1>19. OpenInv'
  <2>1. /\ db.mem \cap db.imm = {} /\ (db.mem \cup db.imm) \cap In(tables, db.version) = {}
        /\ db.mem \cap acked \subseteq ToSet(logs[db.logfile].recs)
        /\ db.mem \cap durable \subseteq OnDevice(logs[db.logfile])
        /\ db.imm \cap acked \subseteq Logged(logs, db.log_number)
        /\ db.imm \cap durable \subseteq LoggedSafely(logs, db.log_number)
        /\ (\A n \in DOMAIN logs : n < db.next_file)
        /\ (\A x \in ToSet(logs[db.logfile].recs) : x.seq <= db.seq)
        /\ (db.tail # "whole" => db.bg_error # "OK")
    BY <1>1, <1>4 DEF OpenInv
  <2>2. \/ i = {} /\ In(tables', V) = In(tables, db.version) \cup db.imm
        \/ i = db.imm /\ In(tables', V) = In(tables, db.version) /\ e.log = db.log_number
    BY <1>3, <1>11 DEF i
  <2>3. Contents' = Contents
    <3>1. Contents' = db'.mem \cup db'.imm \cup In(tables', db'.version)
      BY DEF Contents, EntriesOf, In
    <3>2. Contents' = db.mem \cup i \cup In(tables', V)
      BY <3>1, <1>1, <1>5
    <3> QED  BY <3>2, <2>2, <1>2
  <2>4. db.mem \cap i = {} /\ (db.mem \cup i) \cap In(tables', V) = {}
    BY <2>1, <2>2
  <2>5. db.logfile \in DOMAIN logs' /\ logs'[db.logfile] = logs[db.logfile]
    BY <1>2, <1>3, <1>9
  <2>6. /\ (db.mem \cup i) \cap acked' \subseteq acked
        /\ (db.mem \cup i) \cap durable' \subseteq durable
    BY <2>4, <1>1, <1>7, <1>11
  <2>7. i \cap acked' \subseteq Logged(logs', e.log) /\ i \cap durable' \subseteq LoggedSafely(logs', e.log)
    <3>1. Logged(logs, e.log) \subseteq Logged(logs', e.log) /\ LoggedSafely(logs, e.log) \subseteq LoggedSafely(logs', e.log)
      BY <1>12, MoreIn
    <3> QED  BY <3>1, <2>1, <2>2, <2>6
  <2>8. \A n \in DOMAIN logs' : n < db.next_file
    BY <2>1, <1>9
  <2>9. \A p \in Leftovers(manifests'[current']) : Last(p).log <= db.logfile /\ Last(p).seq <= db.seq
    <3>1. manifests'[current'] = manifests[current]
      BY <1>1, <1>9
    <3> QED  BY <3>1, <1>1, <1>4 DEF OpenInv
  <2>10. acked' \subseteq Contents' /\ \A x \in Contents' : x.seq <= db'.seq
    BY <2>3, <1>1, <1>2, <1>5, <1>7, <1>15
  <2>11. /\ opened' = TRUE /\ current' = db'.manifest /\ db'.adds = {} /\ db'.logfile < db'.next_file
         /\ db'.log_number <= db'.logfile /\ db'.inputs \subseteq db'.version
         /\ (db'.tail # "whole" => db'.bg_error # "OK")
    BY <2>1, <1>1, <1>2, <1>3, <1>4, <1>5, <1>6
  <2>12. /\ db'.mem \cap acked' \subseteq ToSet(logs'[db'.logfile].recs)
         /\ db'.mem \cap durable' \subseteq OnDevice(logs'[db'.logfile])
         /\ \A x \in ToSet(logs'[db'.logfile].recs) : x.seq <= db'.seq
    BY <2>1, <2>5, <2>6, <1>1, <1>5
  <2> QED  BY <2>4, <2>5, <2>7, <2>8, <2>9, <2>10, <2>11, <2>12, <1>1, <1>5 DEF OpenInv
<1>20. BaseInv' /\ JobInv'
  <2>1. job'.stage = "none" /\ manifests'[db'.manifest] = m
    BY <1>1, <1>2, <1>5, <1>9, FreshTypes
  <2>2. JobInv'
    BY <2>1 DEF JobInv
  <2>3. Base' = m.recs /\ db'.version = V /\ db'.tail = db.tail /\ db'.bg_error = db.bg_error
    BY <2>1, <1>1, <1>5 DEF Base
  <2>4. ASSUME db.tail # "cut" PROVE BaseInv'
    <3>1. Base' = q /\ q \in Seq(Edits) /\ V \subseteq Applied(q) /\ (db.bg_error = "OK" => Applied(q) = V)
          /\ q \in Leftovers(m)
      BY <2>3, <2>4, <1>8
    <3>2. Numbered(q) /\ current' < Last(q).next
      BY <3>1, <1>1, <1>13
    <3> HIDE DEF m
    <3> QED  BY <3>1, <3>2, <2>1, <2>3 DEF BaseInv
  <2>5. CASE db.tail = "cut"
    <3>1. ~Active'
      BY <2>3, <2>5 DEF Active
    <3> QED  BY <3>1, <2>2 DEF BaseInv
  <2> QED  BY <2>2, <2>4, <2>5
<1>21. CreatingInv' /\ ReplayInv' /\ RecoveredInv' /\ RepairInv'
  BY <1>1, NotMending DEF CreatingInv, ReplayInv, RecoveredInv, Repairing
<1> QED  BY <1>9, <1>14, <1>16, <1>17, <1>18, <1>19, <1>20, <1>21 DEF RecInv

-----------------------------------------------------------------------------
(***************************************************************************)
(* Repair.                                                                 *)
(***************************************************************************)

\* A step of a repair, or one that ends with an unfinished repair.
Mends ==
  /\ pc' \in Mending /\ db' \in DBs /\ job' = NoJob /\ opened = FALSE /\ opened' = opened
  /\ db'.inputs = {} /\ db'.tail = "whole"
  /\ writes' = writes /\ acked' \subseteq acked /\ durable' \subseteq acked' /\ (Succeeds \/ Fails \/ Stops)
  /\ pc' = "unrepaired" => db' = Fresh

LEMMA MendingKeeps ==
  ASSUME ProcessTypes, Mends
  PROVE  /\ ProcessTypes' /\ CurrentInv' /\ OpenedInv' /\ CreatingInv' /\ NumbersInv' /\ ReplayInv'
         /\ RecoveredInv' /\ OpenInv' /\ BaseInv' /\ JobInv'
<1>1. left' \in [writes : Nat, crashes : Nat, failures : Nat, compactions : Nat, repairs : Nat]
  BY Budgeted DEF Mends
<1>2. ProcessTypes'
  BY <1>1, FreshTypes DEF Mends, Mending, Repairing, ProcessTypes, Resting
<1>3. CurrentInv' /\ OpenedInv' /\ CreatingInv'
  BY DEF Mends, Mending, Repairing, CurrentInv, OpenedInv, CreatingInv
<1>4. NumbersInv' /\ ReplayInv' /\ RecoveredInv' /\ OpenInv' /\ BaseInv' /\ JobInv'
  BY NotOpen DEF Mends, Mending, Repairing, Opening
<1> QED  BY <1>2, <1>3, <1>4

LEMMA InRepairs ==
  ASSUME RecInv, pc \in Mending
  PROVE  /\ job = NoJob /\ opened = FALSE /\ durable \subseteq acked /\ db \in DBs
         /\ db.inputs = {} /\ db.tail = "whole"
BY DEF RecInv, ProcessTypes, OpenedInv, Mending, Repairing

\* A repair stops short, or fails.
LEMMA Unrepaired ==
  ASSUME RecInv, pc \in Mending, pc' = "unrepaired", db' = Fresh, job' = NoJob, opened' = opened,
         writes' = writes, acked' \subseteq acked, durable' \subseteq acked', Succeeds \/ Fails \/ Stops,
         FileTypes', Bounded', Kept'
  PROVE  RecInv'
<1>1. Mends
  BY InRepairs, FreshTypes DEF Mends, Mending
<1>2. ProcessTypes
  BY DEF RecInv
<1> QED  BY <1>1, <1>2, MendingKeeps, NotMending DEF RecInv, Repairing

LEMMA RepairDBStep == ASSUME RecInv, RepairDB PROVE RecInv'
<1> DEFINE S == {0} \cup DOMAIN logs \cup DOMAIN tables
           R == LogsToReplay(0)
           n == Max(S) + 1
<1>1. /\ pc \in {"closed", "corrupt", "unrepaired"} /\ pc' = "repairing" /\ db' = FoundFiles /\ opened' = FALSE
      /\ UNCHANGED <<files, job, writes, acked, durable>>
  BY DEF RepairDB
<1>2. left' \in [writes : Nat, crashes : Nat, failures : Nat, compactions : Nat, repairs : Nat]
  BY DEF RepairDB, Succeeds, RecInv, ProcessTypes
<1>3. DOMAIN logs \subseteq Nat \ {0} /\ DOMAIN tables \subseteq Nat /\ job = NoJob /\ durable \subseteq acked
  BY <1>1 DEF RecInv, FileTypes, ProcessTypes
<1>4. Max(S) \in Nat /\ \A k \in S : Max(S) >= k
  <2>1. PICK b \in Nat : \A k \in DOMAIN logs \cup DOMAIN tables : k <= b
    BY DEF RecInv, Bounded
  <2>2. S \in SUBSET Nat /\ 0 \in S /\ \A k \in S : k <= b
    BY <1>3, <2>1
  <2> HIDE DEF S
  <2>3. Max(S) \in S /\ \A k \in S : Max(S) >= k
    BY <2>2, MaxIsIn
  <2> QED  BY <2>2, <2>3
<1>5. R = DOMAIN logs
  BY <1>3 DEF LogsToReplay
<1>6. n \in Nat /\ n > 0 /\ \A t \in DOMAIN tables : t < n
  BY <1>3, <1>4
<1>7. db' = [Fresh EXCEPT !.replay = R, !.next_file = n]
  BY <1>1 DEF FoundFiles
<1> HIDE DEF S, R, n
<1>8. /\ db' \in DBs /\ db'.replay = R /\ db'.next_file = n /\ db'.pos = 0
      /\ db'.inputs = {} /\ db'.tail = "whole"
  <2>1. R \in SUBSET Nat
    BY <1>3, <1>5
  <2>2. db' = [next_file |-> n, manifest |-> NoFile, log_number |-> 0, seq |-> 0, version |-> {},
               logfile |-> NoFile, mem |-> {}, imm |-> {}, replay |-> R, pos |-> 0,
               adds |-> {}, max |-> 0, bg_error |-> "OK", inputs |-> {}, torn |-> FALSE,
               tail |-> "whole"]
    BY <1>7 DEF Fresh
  <2>3. db' \in DBs
    BY <2>1, <2>2, <1>6 DEF DBs
  <2> QED  BY <2>2, <2>3
<1>9. FileTypes' /\ Bounded' /\ Kept'
  BY <1>1, FilesUnchanged DEF RecInv
<1>10. ProcessTypes'
  BY <1>1, <1>2, <1>3, <1>8 DEF RecInv, ProcessTypes, Resting, Repairing
<1>11. CurrentInv' /\ OpenedInv' /\ CreatingInv' /\ NumbersInv' /\ ReplayInv' /\ RecoveredInv' /\ OpenInv'
       /\ BaseInv' /\ JobInv'
  BY <1>1, NotOpen DEF CurrentInv, OpenedInv, CreatingInv, Opening, Repairing
<1>12. RepairInv'
  <2>1. UNCHANGED <<logs, tables, manifests>>
    BY <1>1 DEF files
  <2> QED  BY <2>1, <1>1, <1>3, <1>5, <1>6, <1>8 DEF RepairInv
<1> QED  BY <1>9, <1>10, <1>11, <1>12 DEF RecInv

LEMMA ConvertLogStep == ASSUME RecInv, NEW n \in DOMAIN logs, ConvertLog(n) PROVE RecInv'
<1> DEFINE nf == db.next_file
           X == ToSet(logs[n].recs)
           lost == X \ In(tables, DOMAIN tables)
<1>1. /\ pc = "repairing" /\ pc' = pc /\ n \in db.replay /\ db.pos = 0
      /\ db' = [db EXCEPT !.pos = n, !.next_file = @ + 1]
      /\ UNCHANGED <<current, manifests, logs, job, writes, opened>>
      /\ \/ /\ Succeeds /\ tables' = (IF X = {} THEN tables ELSE Put(tables, nf, X))
            /\ UNCHANGED <<acked, durable>>
         \/ Fails /\ acked' = acked \ lost /\ durable' = durable \ lost /\ UNCHANGED tables
  BY DEF ConvertLog, ConvertLogToTable, EntriesOf, In
<1>2. job = NoJob /\ opened = FALSE /\ durable \subseteq acked /\ db \in DBs
      /\ db.inputs = {} /\ db.tail = "whole"
  BY <1>1, InRepairs DEF Mending, Repairing
<1>3. /\ (\A t \in DOMAIN tables : t < nf /\ t \in Nat) /\ nf \in Nat /\ db.replay \subseteq DOMAIN logs
      /\ (\A m \in DOMAIN logs \ db.replay : acked \cap ToSet(logs[m].recs) \subseteq In(tables, DOMAIN tables))
  BY <1>1, <1>2 DEF RecInv, FileTypes, RepairInv, Repairing, DBs
<1>4. FileTypes /\ Kept /\ n \in Nat /\ n # 0 /\ X \subseteq Entries
  <2>1. logs[n].recs \in Seq(Entries)
    BY DEF RecInv, FileTypes, LogFiles
  <2>2. X \subseteq Entries
    BY <2>1 DEF ToSet
  <2> QED  BY <2>2 DEF RecInv, FileTypes
<1> HIDE DEF X
<1>5. /\ FileTypes' /\ DOMAIN tables' \subseteq DOMAIN tables \cup {nf}
      /\ In(tables, DOMAIN tables) \subseteq In(tables', DOMAIN tables')
      /\ In(tables', DOMAIN tables') \subseteq In(tables, DOMAIN tables) \cup X
      /\ acked' \cap X \subseteq In(tables', DOMAIN tables')
  <2>1. CASE tables' = tables
    <3>1. acked' \cap X \subseteq In(tables, DOMAIN tables)
      <4>1. CASE acked' = acked \ lost
        BY <4>1
      <4>2. CASE X = {}
        BY <4>2
      <4>3. CASE tables' = Put(tables, nf, X)
        <5>1. DOMAIN tables' = DOMAIN tables \cup {nf}
          BY <4>3 DEF Put
        <5> QED  BY <5>1, <2>1, <1>3
      <4> QED  BY <4>1, <4>2, <4>3, <1>1
    <3> QED  BY <2>1, <3>1, <1>1, <1>4 DEF FileTypes
  <2>2. CASE tables' = Put(tables, nf, X)
    <3>1. tables \in [DOMAIN tables -> SUBSET Entries] /\ X \in SUBSET Entries
      BY <1>4 DEF FileTypes
    <3>2. /\ DOMAIN tables' = DOMAIN tables \cup {nf} /\ tables'[nf] = X
          /\ tables' \in [DOMAIN tables \cup {nf} -> SUBSET Entries]
          /\ \A m \in DOMAIN tables : m # nf => tables'[m] = tables[m]
      BY <2>2, <3>1 DEF Put
    <3>3. nf \notin DOMAIN tables
      BY <1>3
    <3>4. SameTables(tables, tables', DOMAIN tables)
      BY <3>2, <3>3 DEF SameTables
    <3>5. In(tables', DOMAIN tables) = In(tables, DOMAIN tables) /\ In(tables', {nf}) = X
      BY <3>2, <3>4, SameIn DEF In
    <3>6. In(tables', DOMAIN tables') = In(tables, DOMAIN tables) \cup X
      BY <3>2, <3>5, InUnion
    <3>7. FileTypes'
      BY <3>2, <1>1, <1>3, <1>4 DEF FileTypes
    <3> QED  BY <3>2, <3>6, <3>7
  <2> QED  BY <2>1, <2>2, <1>1
<1>6. acked' \subseteq acked /\ durable' \subseteq durable /\ durable' \subseteq acked' /\ (Succeeds \/ Fails \/ Stops)
  BY <1>1, <1>2
<1>7. Bounded'
  <2>1. PICK b \in Nat : \A k \in DOMAIN logs \cup DOMAIN tables : k <= b
    BY DEF RecInv, Bounded
  <2>2. PICK c \in Nat : \A x \in In(tables, DOMAIN tables) \cup Logged(logs, 0) : x.seq <= c
    BY DEF RecInv, Bounded
  <2>3. X \subseteq Logged(logs, 0)
    <3>1. n >= 0
      BY <1>4
    <3> QED  BY <3>1, InLogs DEF X
  <2>4. \A x \in In(tables', DOMAIN tables') \cup Logged(logs', 0) : x.seq <= c
    BY <2>2, <2>3, <1>1, <1>5
  <2>5. \A k \in DOMAIN logs' \cup DOMAIN tables' : k <= b + nf
    <3>1. \A k \in DOMAIN logs \cup DOMAIN tables : k <= b /\ k \in Nat
      BY <2>1, <1>4 DEF FileTypes
    <3>2. \A k \in DOMAIN logs \cup DOMAIN tables \cup {nf} : k <= b + nf
      BY <3>1, <1>3
    <3> QED  BY <3>2, <1>1, <1>5
  <2>6. b + nf \in Nat
    BY <1>3
  <2> QED  BY <2>4, <2>5, <2>6 DEF Bounded
<1>8. Kept'
  BY <1>1, <1>4, <1>5, <1>6 DEF Kept, Holds
<1>9. /\ db' \in DBs /\ db'.pos = n /\ db'.next_file = nf + 1 /\ db'.replay = db.replay
      /\ db'.inputs = db.inputs /\ db'.tail = db.tail
  <2>1. nf + 1 \in Nat
    BY <1>3
  <2>2. db' \in DBs
    BY <2>1, <1>1, <1>2, <1>4 DEF DBs
  <2> QED  BY <2>2, <1>1, <1>2 DEF DBs
<1>10. Mends /\ ProcessTypes
  BY <1>1, <1>2, <1>6, <1>9 DEF Mends, Mending, Repairing, RecInv
<1>11. RepairInv'
  <2>1. \A t \in DOMAIN tables' : t < nf + 1
    <3>1. \A t \in DOMAIN tables \cup {nf} : t < nf + 1
      BY <1>3
    <3> QED  BY <3>1, <1>5
  <2>2. ASSUME NEW m \in (DOMAIN logs \ db.replay) \cup (DOMAIN logs \cap {n})
        PROVE  acked' \cap ToSet(logs[m].recs) \subseteq In(tables', DOMAIN tables')
    <3>1. CASE m = n
      BY <3>1, <1>5 DEF X
    <3>2. CASE m \in DOMAIN logs \ db.replay
      BY <3>2, <1>3, <1>5, <1>6
    <3> QED  BY <3>1, <3>2
  <2>3. nf + 1 > 0
    BY <1>3
  <2> QED  BY <2>1, <2>2, <2>3, <1>1, <1>3, <1>9 DEF RepairInv
<1> QED  BY <1>5, <1>7, <1>8, <1>10, <1>11, MendingKeeps DEF RecInv

LEMMA ArchiveLogStep == ASSUME RecInv, ArchiveLog PROVE RecInv'
<1> DEFINE k == db.pos
<1>1. /\ pc = "repairing" /\ pc' = pc /\ k # 0
      /\ db' = [db EXCEPT !.pos = 0, !.replay = @ \ {k}]
      /\ UNCHANGED <<current, manifests, tables, job, writes, acked, durable, opened>>
      /\ (logs' = Keep(logs, DOMAIN logs \ {k}) \/ logs' = logs)
      /\ (Succeeds \/ Fails)
  BY DEF ArchiveLog, history
<1>2. job = NoJob /\ opened = FALSE /\ durable \subseteq acked /\ db \in DBs
      /\ db.inputs = {} /\ db.tail = "whole"
  BY <1>1, InRepairs DEF Mending, Repairing
<1>3. /\ (\A t \in DOMAIN tables : t < db.next_file) /\ db.next_file > 0 /\ db.replay \subseteq DOMAIN logs
      /\ (\A m \in (DOMAIN logs \ db.replay) \cup (DOMAIN logs \cap {k}) :
            acked \cap ToSet(logs[m].recs) \subseteq In(tables, DOMAIN tables))
  BY <1>1 DEF RecInv, RepairInv, Repairing
<1>4. /\ DOMAIN logs' \subseteq DOMAIN logs /\ DOMAIN logs \ {k} \subseteq DOMAIN logs'
      /\ (\A m \in DOMAIN logs' : logs'[m] = logs[m]) /\ logs' \in [DOMAIN logs' -> LogFiles]
  <2>1. logs \in [DOMAIN logs -> LogFiles]
    BY DEF RecInv, FileTypes
  <2>2. CASE logs' = Keep(logs, DOMAIN logs \ {k})
    BY <2>1, <2>2 DEF Keep
  <2>3. CASE logs' = logs
    BY <2>1, <2>3
  <2> QED  BY <2>2, <2>3, <1>1
<1>5. FileTypes'
  BY <1>1, <1>4 DEF RecInv, FileTypes
<1>6. Bounded'
  <2>1. PICK b \in Nat : \A m \in DOMAIN logs \cup DOMAIN tables : m <= b
    BY DEF RecInv, Bounded
  <2>2. PICK c \in Nat : \A x \in In(tables, DOMAIN tables) \cup Logged(logs, 0) : x.seq <= c
    BY DEF RecInv, Bounded
  <2>3. ASSUME NEW x \in Logged(logs', 0) PROVE x \in Logged(logs, 0)
    BY <1>4, InLogs
  <2>4. \A x \in In(tables', DOMAIN tables') \cup Logged(logs', 0) : x.seq <= c
    BY <2>2, <2>3, <1>1
  <2>5. \A m \in DOMAIN logs' \cup DOMAIN tables' : m <= b
    BY <2>1, <1>1, <1>4
  <2> QED  BY <2>4, <2>5 DEF Bounded
<1>7. Kept'
  <2>1. acked \subseteq In(tables, DOMAIN tables) \cup Logged(logs, 0)
        /\ durable \subseteq In(tables, DOMAIN tables) \cup LoggedSafely(logs, 0)
    BY DEF RecInv, Kept, Holds
  <2>2. ASSUME NEW x \in acked PROVE x \in In(tables, DOMAIN tables) \cup Logged(logs', 0)
    <3>1. CASE x \in Logged(logs, 0)
      <4>1. PICK m \in DOMAIN logs : m >= 0 /\ x \in ToSet(logs[m].recs)
        BY <3>1, InLogs
      <4>2. CASE m = k
        BY <4>1, <4>2, <1>3
      <4>3. CASE m # k
        BY <4>1, <4>3, <1>4, InLogs
      <4> QED  BY <4>2, <4>3
    <3> QED  BY <3>1, <2>1
  <2>3. ASSUME NEW x \in durable PROVE x \in In(tables, DOMAIN tables) \cup LoggedSafely(logs', 0)
    <3>1. CASE x \in LoggedSafely(logs, 0)
      <4>1. PICK m \in DOMAIN logs : m >= 0 /\ x \in OnDevice(logs[m])
        BY <3>1, InLogs
      <4>2. CASE m = k
        <5> DEFINE f == logs[m]
        <5>1. f \in LogFiles
          BY DEF RecInv, FileTypes
        <5>2. f.recs \in Seq(Entries) /\ f.synced \in Nat /\ f.synced <= Len(f.recs)
          BY <5>1 DEF LogFiles
        <5>3. x \in OnDevice(f)
          BY <4>1
        <5> HIDE DEF f
        <5>4. PICK i \in 1..f.synced : x = f.recs[i]
          BY <5>3 DEF OnDevice
        <5>5. i \in DOMAIN f.recs
          BY <5>2
        <5>6. x \in ToSet(f.recs)
          BY <5>4, <5>5 DEF ToSet
        <5> QED  BY <5>6, <4>2, <1>2, <1>3 DEF f
      <4>3. CASE m # k
        BY <4>1, <4>3, <1>4, InLogs
      <4> QED  BY <4>2, <4>3
    <3> QED  BY <3>1, <2>1
  <2> QED  BY <2>2, <2>3, <1>1 DEF Kept, Holds
<1>8. /\ db' \in DBs /\ db'.pos = 0 /\ db'.next_file = db.next_file /\ db'.replay = db.replay \ {k}
      /\ db'.inputs = db.inputs /\ db'.tail = db.tail
  <2>1. db.replay \ {k} \in SUBSET Nat
    BY <1>2 DEF DBs
  <2>2. db' \in DBs
    BY <2>1, <1>1, <1>2 DEF DBs
  <2> QED  BY <2>2, <1>1, <1>2 DEF DBs
<1>9. Mends /\ ProcessTypes
  BY <1>1, <1>2, <1>8 DEF Mends, Mending, Repairing, RecInv
<1>10. RepairInv'
  <2>1. 0 \notin DOMAIN logs'
    BY <1>5 DEF FileTypes
  <2>2. ASSUME NEW m \in (DOMAIN logs' \ (db.replay \ {k})) \cup (DOMAIN logs' \cap {0})
        PROVE  acked \cap ToSet(logs'[m].recs) \subseteq In(tables, DOMAIN tables)
    <3>1. m \in (DOMAIN logs \ db.replay) \cup (DOMAIN logs \cap {k}) /\ logs'[m] = logs[m]
      BY <2>1, <1>4
    <3> QED  BY <3>1, <1>3
  <2>3. db.replay \ {k} \subseteq DOMAIN logs'
    BY <1>3, <1>4
  <2> QED  BY <2>2, <2>3, <1>1, <1>3, <1>8 DEF RepairInv
<1> QED  BY <1>5, <1>6, <1>7, <1>9, <1>10, MendingKeeps DEF RecInv

\* A failed step of a repair that leaves the files alone.
LEMMA RepairFailsStep ==
  ASSUME RecInv, RepairFails, pc \in Repairing, UNCHANGED <<files, job, history>>
  PROVE  RecInv'
<1>1. job' = NoJob /\ UNCHANGED <<opened, writes, acked, durable>> /\ durable \subseteq acked /\ pc \in Mending
  BY InRepairs DEF Mending, history
<1>2. FileTypes' /\ Bounded' /\ Kept'
  BY <1>1, FilesUnchanged DEF RecInv
<1> QED  BY <1>1, <1>2, Unrepaired DEF RepairFails

LEMMA WriteDescriptorStep == ASSUME RecInv, WriteDescriptor PROVE RecInv'
<1> DEFINE S == {0} \cup {e.seq : e \in EntriesOf(DOMAIN tables)}
           mx == Max(S)
<1>1. pc = "repairing" /\ db.replay = {} /\ UNCHANGED <<files, job, history>>
  BY DEF WriteDescriptor
<1>2. CASE RepairFails
  BY <1>1, <1>2, RepairFailsStep DEF Repairing
<1>3. CASE Succeeds /\ pc' = "described" /\ db' = ExtractMetaData(db)
  <2>1. job = NoJob /\ opened = FALSE /\ durable \subseteq acked /\ db \in DBs
        /\ db.inputs = {} /\ db.tail = "whole"
    BY <1>1, InRepairs DEF Mending, Repairing
  <2>2. UNCHANGED <<current, manifests, logs, tables, job, writes, acked, durable, opened>>
    BY <1>1 DEF files, history
  <2>3. DOMAIN tables \subseteq Nat /\ In(tables, DOMAIN tables) \subseteq Entries
        /\ EntriesOf(DOMAIN tables) = In(tables, DOMAIN tables)
    BY DEF RecInv, FileTypes, EntriesOf, In
  <2>4. mx \in Nat /\ \A e \in In(tables, DOMAIN tables) : e.seq <= mx
    <3>1. PICK c \in Nat : \A x \in In(tables, DOMAIN tables) \cup Logged(logs, 0) : x.seq <= c
      BY DEF RecInv, Bounded
    <3>2. \A e \in In(tables, DOMAIN tables) : e.seq \in Nat
      BY <2>3 DEF Entries
    <3>3. S \in SUBSET Nat /\ 0 \in S /\ \A k \in S : k <= c
      BY <3>1, <3>2, <2>3
    <3>4. \A e \in In(tables, DOMAIN tables) : e.seq \in S
      BY <2>3
    <3> HIDE DEF S
    <3>5. mx \in S /\ \A k \in S : mx >= k
      BY <3>3, MaxIsIn
    <3> QED  BY <3>2, <3>3, <3>4, <3>5
  <2>5. db' = [db EXCEPT !.adds = DOMAIN tables, !.max = mx]
    BY <1>3 DEF ExtractMetaData
  <2> HIDE DEF mx
  <2>6. /\ db' \in DBs /\ db'.adds = DOMAIN tables /\ db'.max = mx /\ db'.next_file = db.next_file
        /\ db'.replay = db.replay /\ db'.pos = db.pos
        /\ db'.inputs = db.inputs /\ db'.tail = db.tail
    <3>1. db' \in DBs
      BY <2>1, <2>3, <2>4, <2>5 DEF DBs
    <3> QED  BY <3>1, <2>1, <2>5 DEF DBs
  <2>7. Mends /\ ProcessTypes
    BY <1>3, <2>1, <2>2, <2>6 DEF Mends, Mending, Repairing, RecInv
  <2>8. FileTypes' /\ Bounded' /\ Kept'
    BY <1>1, <2>2, FilesUnchanged DEF RecInv
  <2>9. RepairInv
    BY DEF RecInv
  <2>10. acked \subseteq In(tables, DOMAIN tables)
    <3> SUFFICES ASSUME NEW x \in acked PROVE x \in In(tables, DOMAIN tables)
      OBVIOUS
    <3>1. x \in In(tables, DOMAIN tables) \/ x \in Logged(logs, 0)
      BY DEF RecInv, Kept, Holds
    <3>2. CASE x \in Logged(logs, 0)
      <4>1. PICK m \in DOMAIN logs : x \in ToSet(logs[m].recs)
        BY <3>2, InLogs
      <4> QED  BY <4>1, <1>1, <2>9 DEF RepairInv, Repairing
    <3> QED  BY <3>1, <3>2
  <2>11. RepairInv'
    BY <1>1, <1>3, <2>2, <2>4, <2>6, <2>9, <2>10 DEF RepairInv, Repairing
  <2> QED  BY <2>7, <2>8, <2>11, MendingKeeps DEF RecInv
<1> QED  BY <1>2, <1>3 DEF WriteDescriptor

LEMMA ArchiveManifestsStep == ASSUME RecInv, ArchiveManifests PROVE RecInv'
<1>1. /\ pc = "described" /\ pc' = "archived"
      /\ UNCHANGED <<current, logs, tables, db, job, writes, acked, durable, opened, left>>
  BY DEF ArchiveManifests, history
<1>2. PICK kept \in SUBSET DOMAIN manifests : manifests' = Keep(manifests, kept)
  BY DEF ArchiveManifests
<1>3. manifests \in [DOMAIN manifests -> ManifestFiles] /\ DOMAIN manifests \subseteq Nat
  BY DEF RecInv, FileTypes
<1>4. DOMAIN manifests' \subseteq Nat /\ manifests' \in [DOMAIN manifests' -> ManifestFiles]
  BY <1>2, <1>3 DEF Keep
<1>5. FileTypes' /\ Bounded' /\ Kept'
  BY <1>1, <1>4 DEF RecInv, FileTypes, Bounded, Kept
<1>6. job = NoJob /\ opened = FALSE /\ durable \subseteq acked /\ db \in DBs
      /\ db.inputs = {} /\ db.tail = "whole"
  BY <1>1, InRepairs DEF Mending, Repairing
<1>7. Mends /\ ProcessTypes
  BY <1>1, <1>6 DEF Mends, Mending, Repairing, RecInv, Succeeds
<1>8. RepairInv'
  BY <1>1 DEF RecInv, RepairInv, Repairing
<1> QED  BY <1>5, <1>7, <1>8, MendingKeeps DEF RecInv

LEMMA DescriptorTypes ==
  ASSUME db \in DBs
  PROVE  LET e == Edit(db.adds, {}, 0, db.next_file, db.max)
         IN /\ e \in Edits /\ e \in FullEdits /\ e.add = db.adds /\ e.log = 0 /\ e.next = db.next_file
            /\ e.seq = db.max
BY DEF DBs, Edit, Edits, FullEdits

LEMMA InstallDescriptorStep == ASSUME RecInv, InstallDescriptor PROVE RecInv'
<1> DEFINE e == Edit(db.adds, {}, 0, db.next_file, db.max)
           f == NewFile(<<e>>)
<1>1. pc = "archived" /\ UNCHANGED <<current, logs, tables, damaged, job, writes, acked, durable, opened>>
  BY DEF InstallDescriptor, history
<1>2. CASE RepairFails /\ UNCHANGED manifests
  <2>1. UNCHANGED <<files, job, history>>
    BY <1>1, <1>2 DEF files, history
  <2> QED  BY <2>1, <1>1, <1>2, RepairFailsStep DEF Repairing
<1>3. CASE Succeeds /\ manifests' = Put(manifests, 1, f) /\ pc' = "installed" /\ UNCHANGED db
  <2>1. job = NoJob /\ opened = FALSE /\ durable \subseteq acked /\ db \in DBs
        /\ db.inputs = {} /\ db.tail = "whole"
    BY <1>1, InRepairs DEF Mending, Repairing
  <2>2. e \in Edits
    BY <2>1, DescriptorTypes
  <2> HIDE DEF e
  <2>3. f \in ManifestFiles
    BY <2>2, ManifestOfOne
  <2> HIDE DEF f
  <2>4. manifests \in [DOMAIN manifests -> ManifestFiles] /\ DOMAIN manifests \subseteq Nat
    BY DEF RecInv, FileTypes
  <2>5. /\ DOMAIN manifests' = DOMAIN manifests \cup {1} /\ manifests'[1] = f
        /\ manifests' \in [DOMAIN manifests' -> ManifestFiles]
    BY <1>3, <2>3, <2>4 DEF Put
  <2>6. FileTypes' /\ Bounded' /\ Kept'
    BY <1>1, <2>4, <2>5 DEF RecInv, FileTypes, Bounded, Kept
  <2>7. Mends /\ ProcessTypes
    BY <1>1, <1>3, <2>1 DEF Mends, Mending, Repairing, RecInv
  <2>8. RepairInv'
    <3>1. RepairInv /\ 1 \in DOMAIN manifests' /\ manifests'[1] = f
      BY <2>5 DEF RecInv
    <3>2. f = NewFile(<<Edit(db'.adds, {}, 0, db'.next_file, db'.max)>>)
      BY <1>3 DEF f, e
    <3> QED  BY <1>1, <1>3, <3>1, <3>2 DEF RepairInv, Repairing
  <2> QED  BY <2>6, <2>7, <2>8, MendingKeeps DEF RecInv
<1> QED  BY <1>2, <1>3 DEF InstallDescriptor

LEMMA RepairedStep == ASSUME RecInv, Repaired PROVE RecInv'
<1> DEFINE e == Edit(db.adds, {}, 0, db.next_file, db.max)
<1>1. pc = "installed" /\ UNCHANGED <<manifests, logs, tables, job, writes, acked, durable, opened>>
  BY DEF Repaired, history
<1>2. CASE RepairFails /\ UNCHANGED <<current, damaged>>
  <2>1. UNCHANGED <<files, job, history>>
    BY <1>1, <1>2 DEF files, history
  <2> QED  BY <2>1, <1>1, <1>2, RepairFailsStep DEF Repairing
<1>3. CASE Succeeds /\ current' = 1 /\ pc' = "closed" /\ db' = Fresh
  <2>1. job = NoJob /\ opened = FALSE /\ durable \subseteq acked /\ db \in DBs
        /\ db.inputs = {} /\ db.tail = "whole"
    BY <1>1, InRepairs DEF Mending, Repairing
  <2>2. /\ e \in Edits /\ e \in FullEdits /\ e.add = db.adds /\ e.log = 0 /\ e.next = db.next_file /\ e.seq = db.max
    BY <2>1, DescriptorTypes
  <2>3. /\ (\A t \in DOMAIN tables : t < db.next_file) /\ db.next_file > 0
        /\ acked \subseteq In(tables, DOMAIN tables) /\ db.adds = DOMAIN tables
        /\ (\A x \in In(tables, DOMAIN tables) : x.seq <= db.max)
        /\ 1 \in DOMAIN manifests /\ manifests[1] = NewFile(<<e>>)
    BY <1>1 DEF RecInv, RepairInv, Repairing
  <2> HIDE DEF e
  <2>4. Leftovers(manifests[1]) = {<<>>, <<e>>} /\ manifests[1].recs = <<e>>
    BY <2>2, <2>3, NewFileOne
  <2>5. Applied(<<e>>) = DOMAIN tables /\ Last(<<e>>) = e /\ <<e>> # <<>>
    BY <2>2, <2>3, AppliedOne
  <2> DEFINE q == <<e>>
  <2>6. \A p \in Leftovers(manifests[1]) : Numbered(p) => p = q
    BY <2>4 DEF Numbered
  <2>7. Applied(q) = DOMAIN tables /\ Last(q) = e /\ q # <<>> /\ manifests[1].recs = q
    BY <2>4, <2>5
  <2> HIDE DEF q
  <2>8. Numbered(q) /\ e.next <= e.next
    BY <2>2, <2>7, RecoveryAssumption DEF Numbered, FullEdits
  <2>9. Sound(q, tables, logs, acked, durable)
    <3>1. Holds(tables, logs, DOMAIN tables, 0, acked, durable)
      BY <2>1, <2>3 DEF Holds
    <3>2. 0 < db.next_file
      BY <2>1, <2>3 DEF DBs
    <3> QED  BY <3>1, <3>2, <2>2, <2>3, <2>7 DEF Sound
  <2>10. FileTypes' /\ Bounded' /\ Kept'
    BY <1>1, <1>3 DEF RecInv, FileTypes, Bounded, Kept
  <2>11. CurrentInv'
    <3>1. current' # NoFile
      BY <1>3, RecoveryAssumption
    <3>2. \A p \in Leftovers(manifests'[current']) : Numbered(p) =>
            /\ Sound(p, tables', logs', acked', durable') /\ Numbered(manifests'[current'].recs)
            /\ Last(p).next <= Last(manifests'[current'].recs).next
      BY <1>1, <1>3, <2>6, <2>7, <2>8, <2>9
    <3> QED  BY <3>1, <3>2 DEF CurrentInv
  <2>12. OpenedInv' /\ CreatingInv'
    BY <1>1, <1>3, <2>1 DEF OpenedInv, CreatingInv
  <2>13. ProcessTypes'
    BY <1>1, <1>3, <2>1, IdleTypes DEF RecInv, Idles, Resting
  <2>14. NumbersInv' /\ ReplayInv' /\ RecoveredInv' /\ OpenInv' /\ BaseInv' /\ JobInv' /\ RepairInv'
    BY <1>3, NotOpen, NotMending DEF Opening, Repairing
  <2> QED  BY <2>10, <2>11, <2>12, <2>13, <2>14 DEF RecInv
<1> QED  BY <1>2, <1>3 DEF Repaired

-----------------------------------------------------------------------------
(***************************************************************************)
(* Stopping.                                                               *)
(***************************************************************************)

LEMMA ProcessStopsStep == ASSUME RecInv, ProcessStops PROVE RecInv'
<1>1. /\ pc \notin {"closed", "corrupt", "unrepaired"} /\ Stops /\ db' = Fresh /\ job' = NoJob
      /\ pc' = (IF pc \in Repairing THEN "unrepaired" ELSE "closed")
      /\ UNCHANGED <<current, manifests, logs, tables, damaged, writes, acked, durable, opened>>
  BY DEF ProcessStops, Stop, InRepair, Repairing
<1>2. durable \subseteq acked /\ UNCHANGED files
  BY <1>1 DEF RecInv, ProcessTypes, files
<1>3. CASE pc \in Repairing
  <2>1. FileTypes' /\ Bounded' /\ Kept'
    BY <1>1, <1>2, FilesUnchanged DEF RecInv
  <2> QED  BY <1>1, <1>2, <1>3, <2>1, Unrepaired DEF Mending
<1>4. CASE pc \notin Repairing
  <2>1. Idles /\ pc' = "closed" /\ pc \notin Mending /\ pc' # "creating"
    BY <1>1, <1>2, <1>4 DEF Idles, Resting, Mending
  <2> QED  BY <2>1, <1>1, <1>2, Idling
<1> QED  BY <1>3, <1>4

\* What is on the device is all that must survive now.
LEMMA TornHolds ==
  ASSUME NEW T, NEW G, NEW V, NEW min, NEW A, NEW D, Holds(T, G, V, min, A, D),
         DOMAIN G \subseteq Nat, G \in [DOMAIN G -> LogFiles], NEW G2 \in Torn(G)
  PROVE  Holds(T, G2, V, min, D, D)
<1>1. /\ DOMAIN G2 = DOMAIN G
      /\ \A n \in DOMAIN G : OnDevice(G[n]) \subseteq OnDevice(G2[n]) /\ OnDevice(G2[n]) = ToSet(G2[n].recs)
  BY TornLogs
<1>2. LoggedSafely(G, min) \subseteq LoggedSafely(G2, min) /\ LoggedSafely(G2, min) = Logged(G2, min)
  <2>1. ASSUME NEW e \in LoggedSafely(G, min) PROVE e \in LoggedSafely(G2, min)
    BY <1>1, InLogs
  <2>2. ASSUME NEW e PROVE e \in LoggedSafely(G2, min) <=> e \in Logged(G2, min)
    BY <1>1, InLogs
  <2> QED  BY <2>1, <2>2
<1> QED  BY <1>2 DEF Holds

LEMMA MachineStopsStep == ASSUME RecInv, MachineStops PROVE RecInv'
<1>1. /\ pc \notin {"closed", "corrupt", "unrepaired"} /\ Stops /\ db' = Fresh /\ job' = NoJob
      /\ pc' = (IF pc \in Repairing THEN "unrepaired" ELSE "closed")
      /\ UNCHANGED <<current, tables, writes, durable, opened>>
      /\ logs' \in Torn(logs) /\ manifests' \in Torn(manifests) /\ acked' = durable
  BY DEF MachineStops, Stop, InRepair, Repairing
<1>2. durable \subseteq acked /\ FileTypes
  BY DEF RecInv, ProcessTypes
<1>3. /\ DOMAIN logs \subseteq Nat /\ logs \in [DOMAIN logs -> LogFiles]
      /\ DOMAIN manifests \subseteq Nat /\ manifests \in [DOMAIN manifests -> ManifestFiles]
  BY <1>2 DEF FileTypes
<1>4. /\ DOMAIN logs' = DOMAIN logs /\ logs' \in [DOMAIN logs -> LogFiles]
      /\ \A n \in DOMAIN logs : ToSet(logs'[n].recs) \subseteq ToSet(logs[n].recs)
  BY <1>1, <1>3, TornLogs
<1>5. /\ DOMAIN manifests' = DOMAIN manifests /\ manifests' \in [DOMAIN manifests -> ManifestFiles]
      /\ \A n \in DOMAIN manifests :
           manifests'[n].recs \in Leftovers(manifests[n]) /\ Leftovers(manifests'[n]) = {manifests'[n].recs}
  BY <1>1, <1>3, TornManifests
<1>6. FileTypes'
  BY <1>1, <1>2, <1>4, <1>5 DEF FileTypes
<1>7. Bounded'
  <2>1. PICK c \in Nat : \A x \in In(tables, DOMAIN tables) \cup Logged(logs, 0) : x.seq <= c
    BY DEF RecInv, Bounded
  <2>2. ASSUME NEW x \in Logged(logs', 0) PROVE x \in Logged(logs, 0)
    BY <1>4, InLogs
  <2>3. \A x \in In(tables', DOMAIN tables') \cup Logged(logs', 0) : x.seq <= c
    BY <2>1, <2>2, <1>1
  <2>4. \E b \in Nat : \A m \in DOMAIN logs' \cup DOMAIN tables' : m <= b
    BY <1>1, <1>4 DEF RecInv, Bounded
  <2> QED  BY <2>3, <2>4 DEF Bounded
<1>8. Kept'
  BY <1>1, <1>3, TornHolds DEF RecInv, Kept
<1>9. CASE pc \in Repairing
  <2>1. pc' = "unrepaired" /\ pc \in Mending /\ acked' \subseteq acked /\ durable' \subseteq acked'
    BY <1>1, <1>2, <1>9 DEF Mending
  <2> QED  BY <1>1, <2>1, <1>6, <1>7, <1>8, Unrepaired
<1>10. CASE pc \notin Repairing
  <2>1. Idles /\ pc' = "closed" /\ pc \notin Mending
    BY <1>1, <1>2, <1>10 DEF Idles, Resting, Mending
  <2>2. ProcessTypes'
    BY <2>1, IdleTypes DEF RecInv
  <2>3. CurrentInv'
    <3>1. ASSUME current' \in DOMAIN manifests', NEW p \in Leftovers(manifests'[current']), Numbered(p)
          PROVE  /\ Sound(p, tables', logs', acked', durable') /\ Numbered(manifests'[current'].recs)
                 /\ Last(p).next <= Last(manifests'[current'].recs).next
      <4>1. /\ current \in DOMAIN manifests /\ p = manifests'[current'].recs
            /\ p \in Leftovers(manifests[current])
        BY <3>1, <1>1, <1>5
      <4>2. Sound(p, tables, logs, acked, durable)
        BY <4>1, <3>1, <2>1 DEF RecInv, CurrentInv, Mending
      <4>3. Holds(tables, logs', Applied(p), Last(p).log, durable, durable)
        BY <4>2, <1>1, <1>3, TornHolds DEF Sound
      <4>4. Sound(p, tables', logs', acked', durable')
        BY <4>2, <4>3, <1>1 DEF Sound
      <4>5. Last(p).next \in Nat
        BY <4>1, <3>1, <1>2, CurrentNext
      <4>6. Last(p).next <= Last(p).next
        BY <4>5
      <4> QED  BY <4>1, <4>4, <4>6, <3>1
    <3>2. current' = NoFile => acked' = {} /\ opened' = FALSE
      BY <1>1, <1>2, <2>1 DEF RecInv, CurrentInv, Mending
    <3> QED  BY <3>1, <3>2 DEF CurrentInv
  <2>4. OpenedInv'
    <3>1. ASSUME opened = TRUE
          PROVE  /\ current' \in DOMAIN manifests'
                 /\ \A p \in Leftovers(manifests'[current']) : Numbered(p) /\ current' < Last(p).next
      <4>1. current \in DOMAIN manifests
            /\ \A p \in Leftovers(manifests[current]) : Numbered(p) /\ current < Last(p).next
        BY <3>1 DEF RecInv, OpenedInv
      <4>2. \A p \in Leftovers(manifests'[current]) : p \in Leftovers(manifests[current])
        BY <4>1, <1>5
      <4> QED  BY <4>1, <4>2, <1>1, <1>5
    <3>2. pc' \notin Repairing \cup {"unrepaired", "corrupt"} /\ opened' = opened /\ opened \in BOOLEAN
      BY <1>1, <2>1 DEF Repairing, RecInv, OpenedInv
    <3> QED  BY <3>1, <3>2 DEF OpenedInv
  <2>5. CreatingInv' /\ NumbersInv' /\ ReplayInv' /\ RecoveredInv' /\ OpenInv' /\ BaseInv' /\ JobInv' /\ RepairInv'
    BY <2>1, NotOpen, NotMending DEF CreatingInv, Opening, Repairing
  <2> QED  BY <2>2, <2>3, <2>4, <2>5, <1>6, <1>7, <1>8 DEF RecInv
<1> QED  BY <1>9, <1>10

LEMMA NoFilesAtAll == DOMAIN NoFiles = {} /\ \A S : NoFiles \in [{} -> S]
BY DEF NoFiles

\* There are no files and there is nothing to keep.
LEMMA NothingThere ==
  ASSUME current' = NoFile, manifests' = NoFiles, logs' = NoFiles, tables' = NoFiles, acked' = {}, durable' = {},
         opened' = FALSE, pc' = "closed"
  PROVE  /\ FileTypes' /\ Bounded' /\ Kept' /\ CurrentInv' /\ OpenedInv' /\ CreatingInv' /\ NumbersInv'
         /\ ReplayInv' /\ RecoveredInv' /\ OpenInv' /\ BaseInv' /\ JobInv' /\ RepairInv'
<1>1. DOMAIN manifests' = {} /\ DOMAIN logs' = {} /\ DOMAIN tables' = {}
      /\ manifests' \in [{} -> ManifestFiles] /\ logs' \in [{} -> LogFiles] /\ tables' \in [{} -> SUBSET Entries]
  BY NoFilesAtAll
<1>2. FileTypes'
  BY <1>1 DEF FileTypes
<1>3. In(tables', DOMAIN tables') = {} /\ Logged(logs', 0) = {}
  BY <1>1 DEF In, Logged
<1>4. Bounded' /\ Kept'
  BY <1>1, <1>3 DEF Bounded, Kept, Holds
<1>5. CurrentInv' /\ OpenedInv' /\ CreatingInv'
  BY <1>1 DEF CurrentInv, OpenedInv, CreatingInv
<1> QED  BY <1>2, <1>4, <1>5, NotOpen, NotMending DEF Opening, Repairing

LEMMA DestroyDBStep == ASSUME RecInv, DestroyDB PROVE RecInv'
<1>1. /\ pc' = "closed" /\ pc = "closed" /\ current' = NoFile /\ manifests' = NoFiles /\ logs' = NoFiles
      /\ tables' = NoFiles /\ acked' = {} /\ durable' = {} /\ opened' = FALSE /\ Stops
      /\ UNCHANGED <<db, job, writes>>
  BY DEF DestroyDB
<1>2. Idles
  BY <1>1 DEF RecInv, ProcessTypes, Idles, Resting
<1>3. ProcessTypes'
  BY <1>2, IdleTypes DEF RecInv
<1> QED  BY <1>1, <1>3, NothingThere DEF RecInv

-----------------------------------------------------------------------------
(***************************************************************************)
(* The theorems.                                                           *)
(***************************************************************************)

LEMMA InitRecInv == Init => RecInv
<1> SUFFICES ASSUME Init PROVE RecInv
  OBVIOUS
<1>1. DOMAIN manifests = {} /\ DOMAIN logs = {} /\ DOMAIN tables = {}
      /\ manifests \in [{} -> ManifestFiles] /\ logs \in [{} -> LogFiles] /\ tables \in [{} -> SUBSET Entries]
  BY NoFilesAtAll DEF Init
<1>2. FileTypes
  BY <1>1 DEF FileTypes, Init
<1>3. In(tables, DOMAIN tables) = {} /\ Logged(logs, 0) = {}
  BY <1>1 DEF In, Logged
<1>4. Bounded /\ Kept
  BY <1>1, <1>3 DEF Bounded, Kept, Holds, Init
<1>5. ProcessTypes
  <2>1. left \in [writes : Nat, crashes : Nat, failures : Nat, compactions : Nat, repairs : Nat]
    BY RecoveryAssumption DEF Init
  <2> QED  BY <2>1, FreshTypes DEF Init, ProcessTypes, Resting
<1>6. CurrentInv /\ OpenedInv /\ CreatingInv /\ NumbersInv /\ ReplayInv /\ RecoveredInv /\ OpenInv /\ BaseInv
      /\ JobInv /\ RepairInv
  BY <1>1 DEF Init, CurrentInv, OpenedInv, CreatingInv, NumbersInv, ReplayInv, RecoveredInv, OpenInv, BaseInv,
              JobInv, RepairInv, Opening, Repairing
<1> QED  BY <1>2, <1>4, <1>5, <1>6 DEF RecInv

LEMMA StutterRecInv == ASSUME RecInv, UNCHANGED vars PROVE RecInv'
<1>1. UNCHANGED <<current, manifests, logs, tables, damaged, pc, db, job, writes, acked, durable, opened, left>>
  BY DEF vars, files, history
<1>2. FileTypes' /\ ProcessTypes' /\ Bounded' /\ Kept'
  BY <1>1 DEF RecInv, FileTypes, ProcessTypes, Bounded, Kept
<1>3. CurrentInv' /\ OpenedInv' /\ CreatingInv' /\ NumbersInv' /\ ReplayInv'
  BY <1>1 DEF RecInv, CurrentInv, OpenedInv, CreatingInv, NumbersInv, ReplayInv
<1>4. RecoveredInv' /\ RepairInv'
  BY <1>1 DEF RecInv, RecoveredInv, RepairInv, NewManifest, Snapshot, NewEdit
<1>5. Contents' = Contents /\ Base' = Base
  BY <1>1 DEF Contents, EntriesOf, Base
<1>6. OpenInv' /\ BaseInv' /\ JobInv'
  BY <1>1, <1>5 DEF RecInv, OpenInv, BaseInv, Active, JobInv
<1> QED  BY <1>2, <1>3, <1>4, <1>6 DEF RecInv

LEMMA NextRecInv == RecInv /\ [Next]_vars => RecInv'
<1> SUFFICES ASSUME RecInv, [Next]_vars PROVE RecInv'
  OBVIOUS
<1>1. CASE Open BY <1>1, OpenStep
<1>2. CASE NewDB BY <1>2, NewDBStep
<1>3. CASE NameFirstManifest BY <1>3, NameFirstManifestStep
<1>4. CASE ReadCurrent BY <1>4, ReadCurrentStep
<1>5. CASE ReplayTable BY <1>5, ReplayTableStep
<1>6. CASE ReplayNext BY <1>6, ReplayNextStep
<1>7. CASE NewLog BY <1>7, NewLogStep
<1>8. CASE WriteManifest BY <1>8, WriteManifestStep
<1>9. CASE SyncManifest BY <1>9, SyncManifestStep
<1>10. CASE SetCurrentFile BY <1>10, SetCurrentFileStep
<1>11. CASE Opened BY <1>11, OpenedStep
<1>12. CASE \E sync \in BOOLEAN : Write(sync) BY <1>12, WriteStep
<1>13. CASE WriteFails BY <1>13, WriteFailsStep
<1>14. CASE SwitchMemTable BY <1>14, SwitchMemTableStep
<1>15. CASE CompactMemTable BY <1>15, CompactMemTableStep
<1>16. CASE PickCompaction BY <1>16, PickCompactionStep
<1>17. CASE CompactTables BY <1>17, CompactTablesStep
<1>18. CASE AppendEdit BY <1>18, AppendEditStep
<1>19. CASE SyncEdit BY <1>19, SyncEditStep
<1>20. CASE Install BY <1>20, InstallStep
<1>21. CASE RepairDB BY <1>21, RepairDBStep
<1>22. CASE \E n \in DOMAIN logs : ConvertLog(n) BY <1>22, ConvertLogStep
<1>23. CASE ArchiveLog BY <1>23, ArchiveLogStep
<1>24. CASE WriteDescriptor BY <1>24, WriteDescriptorStep
<1>25. CASE ArchiveManifests BY <1>25, ArchiveManifestsStep
<1>26. CASE InstallDescriptor BY <1>26, InstallDescriptorStep
<1>27. CASE Repaired BY <1>27, RepairedStep
<1>28. CASE ProcessStops BY <1>28, ProcessStopsStep
<1>29. CASE MachineStops BY <1>29, MachineStopsStep
<1>30. CASE DestroyDB BY <1>30, DestroyDBStep
<1>31. CASE UNCHANGED vars BY <1>31, StutterRecInv
<1> QED  BY <1>1, <1>2, <1>3, <1>4, <1>5, <1>6, <1>7, <1>8, <1>9, <1>10, <1>11, <1>12, <1>13, <1>14, <1>15,
            <1>16, <1>17, <1>18, <1>19, <1>20, <1>21, <1>22, <1>23, <1>24, <1>25, <1>26, <1>27, <1>28, <1>29, <1>30, <1>31
         DEF Next

\* The invariant holds of every behaviour of DB::Open, the running database,
\* RepairDB and the crashes among them.
THEOREM RecInvHolds == Spec => []RecInv
<1>1. Init => RecInv
  BY InitRecInv
<1>2. RecInv /\ [Next]_vars => RecInv'
  BY NextRecInv
<1> QED  BY <1>1, <1>2, PTL DEF Spec

\* What was acknowledged is in the open database, however often the process or
\* the machine stopped, a write, flush or compaction failed or a repair was cut
\* off before: after the machine stopped, what was synced, had reached a table of
\* the manifest or had been recovered before.  A write behind a failed append to
\* its log counts from when a table has it.
THEOREM AckedSurviveHolds == Spec => []AckedSurvive
<1>1. RecInv => AckedSurvive
  BY DEF RecInv, OpenInv, AckedSurvive
<1> QED  BY <1>1, RecInvHolds, PTL

\* Open finds no damage in a database that Open has returned before, unless an
\* edit followed a failed append to the manifest and the reader stumbles there: at
\* no point does CURRENT name a manifest without numbers or with a missing table.
THEOREM NeverCorruptHolds == Spec => []NeverCorrupt
<1>1. RecInv => NeverCorrupt
  BY DEF RecInv, OpenedInv, NeverCorrupt
<1> QED  BY <1>1, RecInvHolds, PTL

\* The next write gets a sequence number above those of all entries of the
\* database, those that recovery found only in a log included.
THEOREM SequencesFreshHolds == Spec => []SequencesFresh
<1>1. RecInv => SequencesFresh
  BY DEF RecInv, OpenInv, SequencesFresh
<1> QED  BY <1>1, RecInvHolds, PTL
===============================================================================
