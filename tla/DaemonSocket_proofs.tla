------------------------- MODULE DaemonSocket_proofs -------------------------
(***************************************************************************)
(* Proofs about what daemons share: the socket one of them serves          *)
(* (DaemonSocket), and the project's database that each opens as it starts *)
(* (Records), for any number of processes.                                 *)
(***************************************************************************)
EXTENDS DaemonSocket, Records, TLAPS, FiniteSetTheorems, SequenceTheorems, WellFoundedInduction

\* A daemon's own socket is at the path only between its bind and its exit, and a serving
\* daemon that does not know it as its own has lost it: what was bound is never bound again.
OwnSocket ==
  \A d \in Daemons : file = d =>
    /\ pc[d] \in {"bound", "serving", "closing", "dead"}
    /\ pc[d] = "serving" => own[d] = d

LEMMA TypeNext == TypeOK /\ [Next]_vars => TypeOK'
<1> SUFFICES ASSUME TypeOK, [Next]_vars PROVE TypeOK'
  OBVIOUS
<1> USE SocketConfig DEF TypeOK, Files, Starting, Exited, Goto
<1>1. ASSUME NEW d \in Daemons, Spawn(d) PROVE TypeOK'
  BY <1>1 DEF Spawn
<1>2. ASSUME NEW d \in Daemons, Connects(d) PROVE TypeOK'
  BY <1>2 DEF Connects
<1>3. ASSUME NEW d \in Daemons, GivesUp(d) PROVE TypeOK'
  BY <1>3 DEF GivesUp
<1>4. ASSUME NEW d \in Daemons, Bind(d) PROVE TypeOK'
  BY <1>4 DEF Bind
<1>5. ASSUME NEW d \in Daemons, Probe(d) PROVE TypeOK'
  BY <1>5 DEF Probe
<1>6. ASSUME NEW d \in Daemons, ClearPath(d) PROVE TypeOK'
  BY <1>6 DEF ClearPath
<1>7. ASSUME NEW d \in Daemons, Rebind(d) PROVE TypeOK'
  BY <1>7 DEF Rebind
<1>8. ASSUME NEW d \in Daemons, Serve(d) PROVE TypeOK'
  BY <1>8 DEF Serve
<1>9. ASSUME NEW d \in Daemons, Watchdog(d) PROVE TypeOK'
  BY <1>9 DEF Watchdog, Leaves, FileOnLoss
<1>10. ASSUME NEW d \in Daemons, Signalled(d) PROVE TypeOK'
  BY <1>10 DEF Signalled, Leaves, FileOnLoss
<1>11. ASSUME NEW d \in Daemons, Close(d) PROVE TypeOK'
  BY <1>11 DEF Close, FileAfterClose
<1>12. ASSUME NEW d \in Daemons, Dies(d) PROVE TypeOK'
  BY <1>12 DEF Dies
<1>13. ASSUME FileRemoved PROVE TypeOK'
  BY <1>13 DEF FileRemoved
<1> QED
  BY <1>1, <1>2, <1>3, <1>4, <1>5, <1>6, <1>7, <1>8, <1>9, <1>10, <1>11, <1>12, <1>13
  DEF Next, Step, vars

LEMMA OwnNext == TypeOK /\ OwnSocket /\ [Next]_vars => OwnSocket'
<1> SUFFICES ASSUME TypeOK, OwnSocket, [Next]_vars PROVE OwnSocket'
  OBVIOUS
<1> USE SocketConfig DEF OwnSocket, TypeOK, Goto
<1>1. ASSUME UNCHANGED <<file, pc, own>> PROVE OwnSocket'
  BY <1>1
<1>2. ASSUME NEW d \in Daemons, \/ Bind(d) \/ Rebind(d) PROVE OwnSocket'
  BY <1>2 DEF Bind, Rebind
<1>3. ASSUME NEW d \in Daemons, \/ Spawn(d) \/ Probe(d) \/ ClearPath(d) PROVE OwnSocket'
  BY <1>3 DEF Spawn, Probe, ClearPath
<1>4. ASSUME NEW d \in Daemons, Serve(d) PROVE OwnSocket'
  BY <1>4 DEF Serve
<1>5. ASSUME NEW d \in Daemons, \/ Watchdog(d) \/ Signalled(d) PROVE OwnSocket'
  BY <1>5 DEF Watchdog, Signalled, Leaves, SocketLost, FileOnLoss
<1>6. ASSUME NEW d \in Daemons, \/ Close(d) \/ Dies(d) PROVE OwnSocket'
  BY <1>6 DEF Close, FileAfterClose, Dies
<1>7. ASSUME FileRemoved PROVE OwnSocket'
  BY <1>7 DEF FileRemoved
<1> QED
  BY <1>1, <1>2, <1>3, <1>4, <1>5, <1>6, <1>7 DEF Next, Step, Connects, GivesUp, vars

LEMMA InitHolds == Init => TypeOK /\ OwnSocket
  BY SocketConfig DEF Init, TypeOK, OwnSocket, Files

\* Types.
THEOREM TypeCorrect == Spec => []TypeOK
  BY InitHolds, TypeNext, PTL DEF Spec

\* However starts, thefts, signals and deletions overlap, a daemon that loses the race,
\* fails, loses its path or is signalled leaves no socket of its own (listen and close).
THEOREM NoDebrisAfterExit == Spec => []ExitLeavesNothing
<1>1. OwnSocket => ExitLeavesNothing
  BY DEF OwnSocket, ExitLeavesNothing
<1> QED
  BY <1>1, InitHolds, TypeNext, OwnNext, PTL DEF Spec

(***************************************************************************)
(* The database.  A process reads the version under the write lock and     *)
(* works on a draft of the file, so a draft is the committed file with a   *)
(* build's first migrations added, and what a build writes a newer version *)
(* of the table takes as well.                                             *)
(***************************************************************************)

\* Every kind of event that any build knows.
AllKinds == Kinds4 \cup {"session.landed"}

\* The migrations in their three parts, and the kinds of event each rebuilds the table for.
LEMMA FirstFive ==
  /\ Len(Migrations1To5) = 5 /\ DOMAIN Migrations1To5 = 1..5
  /\ Migrations1To5[1].kinds = {} /\ Migrations1To5[2].kinds = {} /\ Migrations1To5[5].kinds = {}
  /\ Migrations1To5[3].kinds = {"session.started", "commit.made"} /\ Migrations1To5[4].kinds = Kinds4
  <1>1. Len(Migrations1To5) = 5 /\ DOMAIN Migrations1To5 = 1..5
    BY DEF Migrations1To5
  <1>2. /\ Migrations1To5[1] = Adds({"schema_meta", "workspace", "session"}, {}, {})
        /\ Migrations1To5[2] = Adds({"lease"}, {}, {})
        /\ Migrations1To5[3] = Adds({"event", "message", "context_entry"}, {}, {"session.started", "commit.made"})
        /\ Migrations1To5[4] = Adds({}, {}, Kinds4)
        /\ Migrations1To5[5] = Adds({"file_claim", "contract", "contract_sub"}, {}, {})
    BY DEF Migrations1To5
  <1>3. ASSUME NEW t, NEW c, NEW k PROVE Adds(t, c, k).kinds = k
    BY DEF Adds
  <1> QED BY <1>1, <1>2, <1>3

\* As above, for versions 6 to 13.
LEMMA NextEight ==
  /\ Len(Migrations6To13) = 8 /\ DOMAIN Migrations6To13 = 1..8
  /\ Migrations6To13[1].kinds = AllKinds
  /\ \A i \in 2..8 : Migrations6To13[i].kinds = {}
  <1>1. Len(Migrations6To13) = 8 /\ DOMAIN Migrations6To13 = 1..8
    BY DEF Migrations6To13
  <1>2. /\ Migrations6To13[1] = Adds({"merge_trial"}, {}, Kinds4 \cup {"session.landed"})
        /\ Migrations6To13[2] = Adds({"config_trust"}, {}, {})
        /\ Migrations6To13[3] = Adds({}, {"cost_spent_usd", "cost_budget_usd"}, {})
        /\ Migrations6To13[4] = Adds({"notify_config"}, {}, {})
        /\ Migrations6To13[5] = Adds({}, {"base_head"}, {})
        /\ Migrations6To13[6] = Adds({}, {"pairwise"}, {})
        /\ Migrations6To13[7] = Adds({}, {"launch_args"}, {})
        /\ Migrations6To13[8] = Adds({}, {"note"}, {})
    BY DEF Migrations6To13
  <1>3. ASSUME NEW t, NEW c, NEW k PROVE Adds(t, c, k).kinds = k
    BY DEF Adds
  <1> QED BY <1>1, <1>2, <1>3 DEF AllKinds

\* As above, for versions 14 to 18.
LEMMA LastFive ==
  /\ Len(Migrations14To18) = 5 /\ DOMAIN Migrations14To18 = 1..5
  /\ \A i \in 1..5 : Migrations14To18[i].kinds = {}
  <1>1. Len(Migrations14To18) = 5 /\ DOMAIN Migrations14To18 = 1..5
    BY DEF Migrations14To18
  <1>2. /\ Migrations14To18[1] = Adds({"session_setup"}, {"hooks_hash"}, {})
        /\ Migrations14To18[2] = Adds({"terminal"}, {}, {})
        /\ Migrations14To18[3] = Adds({}, {"exit_code"}, {})
        /\ Migrations14To18[4] = Adds({"session_history"}, {}, {})
        /\ Migrations14To18[5] = Adds({"session_check"}, {}, {})
    BY DEF Migrations14To18
  <1>3. ASSUME NEW t, NEW c, NEW k PROVE Adds(t, c, k).kinds = k
    BY DEF Adds
  <1> QED BY <1>1, <1>2, <1>3

\* What the builds know: eighteen migrations, of which three rebuild the event table.
LEMMA Known ==
  /\ SCHEMA_VERSION = 18
  /\ \A v \in 1..18 : MIGRATIONS[v].kinds = IF v = 3 THEN {"session.started", "commit.made"}
                                            ELSE IF v = 4 THEN Kinds4 ELSE IF v = 6 THEN AllKinds ELSE {}
  <1> DEFINE a == Migrations1To5
             b == Migrations6To13
             c == Migrations14To18
             S == {a[i] : i \in 1..5} \cup {b[i] : i \in 1..8} \cup {c[i] : i \in 1..5}
  <1>1. Len(a) = 5 /\ DOMAIN a = 1..5 /\ Len(b) = 8 /\ DOMAIN b = 1..8 /\ Len(c) = 5 /\ DOMAIN c = 1..5
    BY FirstFive, NextEight, LastFive
  <1>2. a \in Seq(S) /\ b \in Seq(S) /\ c \in Seq(S)
    <2>1. a = [i \in 1..5 |-> a[i]] /\ b = [i \in 1..8 |-> b[i]] /\ c = [i \in 1..5 |-> c[i]]
      BY <1>1 DEF Migrations1To5, Migrations6To13, Migrations14To18
    <2> HIDE DEF a, b, c
    <2> QED BY <1>1, <2>1
  <1> HIDE DEF a, b, c, S
  <1>3. PICK d : d = a \o b
    OBVIOUS
  <1>4. PICK e : e = d \o c
    OBVIOUS
  <1>5. d \in Seq(S) /\ Len(d) = 13 /\ \A i \in 1..13 : d[i] = IF i <= 5 THEN a[i] ELSE b[i - 5]
    <2>1. /\ d \in Seq(S) /\ Len(d) = Len(a) + Len(b)
          /\ \A i \in 1..(Len(a) + Len(b)) : d[i] = IF i <= Len(a) THEN a[i] ELSE b[i - Len(a)]
      BY <1>2, <1>3, ConcatProperties, Zenon
    <2>2. Len(a) = 5 /\ Len(b) = 8 /\ 1..(Len(a) + Len(b)) = 1..13
      BY <1>1
    <2> QED BY <2>1, <2>2
  <1>6. Len(e) = 18 /\ \A i \in 1..18 : e[i] = IF i <= 13 THEN d[i] ELSE c[i - 13]
    <2>1. /\ Len(e) = Len(d) + Len(c)
          /\ \A i \in 1..(Len(d) + Len(c)) : e[i] = IF i <= Len(d) THEN d[i] ELSE c[i - Len(d)]
      BY <1>2, <1>4, <1>5, ConcatProperties, Zenon
    <2>2. Len(c) = 5 /\ Len(d) = 13 /\ 1..(Len(d) + Len(c)) = 1..18
      BY <1>1, <1>5
    <2> QED BY <2>1, <2>2
  <1>7. /\ \A i \in 1..5 : a[i].kinds = IF i = 3 THEN {"session.started", "commit.made"} ELSE IF i = 4 THEN Kinds4 ELSE {}
        /\ \A i \in 1..8 : b[i].kinds = IF i = 1 THEN AllKinds ELSE {}
        /\ \A i \in 1..5 : c[i].kinds = {}
    BY FirstFive, NextEight, LastFive DEF a, b, c
  <1>e. MIGRATIONS = e
    BY <1>3, <1>4, Zenon DEF MIGRATIONS, a, b, c
  <1>8. SCHEMA_VERSION = 18
    BY <1>6, <1>e DEF SCHEMA_VERSION
  <1>9. ASSUME NEW v \in 1..18
        PROVE  MIGRATIONS[v].kinds = IF v = 3 THEN {"session.started", "commit.made"}
                                     ELSE IF v = 4 THEN Kinds4 ELSE IF v = 6 THEN AllKinds ELSE {}
    <2>1. CASE v \in 1..5
      <3>1. MIGRATIONS[v] = a[v]
        BY <1>5, <1>6, <1>e, <2>1
      <3>2. a[v].kinds = IF v = 3 THEN {"session.started", "commit.made"} ELSE IF v = 4 THEN Kinds4 ELSE {}
        BY <1>7, <2>1
      <3> QED BY <2>1, <3>1, <3>2
    <2>2. CASE v \in 6..13
      <3>1. MIGRATIONS[v] = b[v - 5] /\ v - 5 \in 1..8 /\ (v - 5 = 1 <=> v = 6)
        BY <1>5, <1>6, <1>e, <2>2
      <3>2. b[v - 5].kinds = IF v - 5 = 1 THEN AllKinds ELSE {}
        BY <1>7, <3>1
      <3> QED BY <2>2, <3>1, <3>2
    <2>3. CASE v \in 14..18
      <3>1. MIGRATIONS[v] = c[v - 13] /\ v - 13 \in 1..5
        BY <1>6, <1>e, <2>3
      <3>2. c[v - 13].kinds = {}
        BY <1>7, <3>1
      <3> QED BY <2>3, <3>1, <3>2
    <2> QED BY <2>1, <2>2, <2>3
  <1> QED BY <1>8, <1>9

\* A build's events are those of its latest rebuild of the table: none is ever dropped from it.
LEMMA KindsGrow ==
  /\ KindsOf(0) = {}
  /\ \A n \in 0..17 : LET m == MIGRATIONS[n + 1] IN
        /\ KindsOf(n) \subseteq KindsOf(n + 1)
        /\ KindsOf(n + 1) = IF m.kinds = {} THEN KindsOf(n) ELSE m.kinds
  <1>1. KindsOf(0) = {}
    BY DEF KindsOf
  <1>2. ASSUME NEW n \in 0..17
        PROVE  LET m == MIGRATIONS[n + 1] IN
                 /\ KindsOf(n) \subseteq KindsOf(n + 1)
                 /\ KindsOf(n + 1) = IF m.kinds = {} THEN KindsOf(n) ELSE m.kinds
    <2> DEFINE K(v) == MIGRATIONS[v].kinds
    <2>1. \A v \in 1..(n + 1) : K(v) = IF v = 3 THEN {"session.started", "commit.made"}
                                       ELSE IF v = 4 THEN Kinds4 ELSE IF v = 6 THEN AllKinds ELSE {}
      <3>1. \A v \in 1..(n + 1) : v \in 1..18
        OBVIOUS
      <3> QED BY <3>1, Known
    <2>2. \A v \in 1..(n + 1) : K(v) \subseteq AllKinds /\ (K(n + 1) # {} => K(v) \subseteq K(n + 1))
      BY <2>1 DEF AllKinds, Kinds4
    <2>3. n \in Nat /\ 1..(n + 1) = (1..n) \cup {n + 1} /\ n + 1 \in 1..(n + 1)
      OBVIOUS
    <2>4. \A w \in {n, n + 1} : KindsOf(w) = {k \in AllKinds : \E v \in 1..w : k \in K(v)}
      BY DEF KindsOf, AllKinds
    <2> HIDE DEF K
    <2>5. KindsOf(n) \subseteq KindsOf(n + 1) /\ KindsOf(n + 1) = KindsOf(n) \cup K(n + 1)
      BY <2>2, <2>3, <2>4
    <2>6. K(n + 1) # {} => KindsOf(n) \subseteq K(n + 1)
      BY <2>2, <2>3, <2>4
    <2> QED BY <2>5, <2>6 DEF K
  <1> QED BY <1>1, <1>2

-----------------------------------------------------------------------------
\* A version of the file: what the migrations up to it add, and events its table takes.
TablesTo(n) == UNION {MIGRATIONS[v].tables : v \in 1..n}
ColumnsTo(n) == UNION {MIGRATIONS[v].columns : v \in 1..n}
IsWhole(d) ==
  /\ d = [version |-> d.version, tables |-> d.tables, columns |-> d.columns, kinds |-> d.kinds, rows |-> d.rows]
  /\ d.version \in 0..18 /\ d.tables = TablesTo(d.version) /\ d.columns = ColumnsTo(d.version)
  /\ d.kinds = KindsOf(d.version) /\ d.rows \subseteq d.kinds

\* A process has an older file before it only until it has migrated it, and migrates alone.
OpenersTyped ==
  /\ opener = [p \in Openers |-> opener[p]]
  /\ \A p \in Openers : DOMAIN opener[p] = {"build", "pc", "tries", "work"} /\ opener[p].build \in 1..18
MigratesOnly(p) ==
  /\ opener[p].pc = "open" => opener[p].build <= disk.version
  /\ opener[p].pc = "migrating" =>
        /\ IsWhole(opener[p].work) /\ opener[p].work.rows = disk.rows
        /\ disk.version <= opener[p].work.version /\ opener[p].work.version <= opener[p].build
        /\ \A q \in Openers : opener[q].pc = "migrating" => q = p
OpeningIInv ==
  /\ OpenersTyped /\ IsWhole(disk) /\ disk.rows = wrote
  /\ \A p \in Openers : MigratesOnly(p)

\* What a build writes, a newer one writes too.
LEMMA KindsMono ==
  ASSUME NEW m \in 0..18, NEW n \in 0..18, m <= n
  PROVE  KindsOf(m) \subseteq KindsOf(n)
  <1>1. 1..m \subseteq 1..n
    OBVIOUS
  <1> QED BY <1>1 DEF KindsOf

\* A file that is not there yet is whole, at version 0.
LEMMA EmptyIsWhole == IsWhole(NoFile)
  <1>1. TablesTo(0) = {} /\ ColumnsTo(0) = {}
    BY DEF TablesTo, ColumnsTo
  <1> QED BY <1>1, KindsGrow DEF IsWhole, NoFile

\* One migration more: nothing but what it adds, and no row lost with the table copied over.
LEMMA ApplyIsWhole ==
  ASSUME NEW d, IsWhole(d), d.version < 18, NEW e, e = Apply(d, MIGRATIONS[d.version + 1])
  PROVE  IsWhole(e) /\ e.rows = d.rows /\ e.version = d.version + 1
  <1> DEFINE n == d.version
             m == MIGRATIONS[n + 1]
  <1>1. n \in 0..17 /\ n + 1 \in 1..18 /\ 1..(n + 1) = (1..n) \cup {n + 1}
    BY DEF IsWhole
  <1>2. TablesTo(n + 1) = TablesTo(n) \cup m.tables
    BY <1>1 DEF TablesTo
  <1>3. ColumnsTo(n + 1) = ColumnsTo(n) \cup m.columns
    BY <1>1 DEF ColumnsTo
  <1>4. KindsOf(n) \subseteq KindsOf(n + 1) /\ KindsOf(n + 1) = IF m.kinds = {} THEN KindsOf(n) ELSE m.kinds
    BY <1>1, KindsGrow
  <1> HIDE DEF m
  <1>5. e = [version |-> n + 1, tables |-> d.tables \cup m.tables, columns |-> d.columns \cup m.columns,
             kinds |-> IF m.kinds = {} THEN d.kinds ELSE m.kinds,
             rows |-> IF m.kinds = {} THEN d.rows ELSE d.rows \cap m.kinds]
    BY DEF Apply, m
  <1>6. d.tables = TablesTo(n) /\ d.columns = ColumnsTo(n) /\ d.kinds = KindsOf(n) /\ d.rows \subseteq d.kinds
    BY DEF IsWhole
  <1> HIDE DEF n
  <1>7. /\ e = [version |-> e.version, tables |-> e.tables, columns |-> e.columns, kinds |-> e.kinds, rows |-> e.rows]
        /\ e.version = n + 1 /\ e.tables = d.tables \cup m.tables /\ e.columns = d.columns \cup m.columns
        /\ e.kinds = (IF m.kinds = {} THEN d.kinds ELSE m.kinds)
        /\ e.rows = (IF m.kinds = {} THEN d.rows ELSE d.rows \cap m.kinds)
    BY <1>5
  <1>8. e.kinds = KindsOf(n + 1) /\ e.rows = d.rows /\ e.rows \subseteq e.kinds
    BY <1>4, <1>6, <1>7
  <1>9. IsWhole(e)
    BY <1>1, <1>2, <1>3, <1>6, <1>7, <1>8 DEF IsWhole
  <1> QED BY <1>7, <1>8, <1>9 DEF n

\* At the start nobody has the file open, and it is empty.
LEMMA OpeningInit == StoreInit => OpeningIInv
  <1> SUFFICES ASSUME StoreInit PROVE OpeningIInv
    OBVIOUS
  <1>1. IsWhole(disk) /\ disk.rows = wrote
    BY EmptyIsWhole DEF StoreInit, NoFile
  <1>2. Builds \subseteq 1..18
    BY StoreAssumption, Known
  <1>3. \A p \in Openers : /\ opener[p].pc = "closed" /\ opener[p].build \in 1..18
                           /\ DOMAIN opener[p] = {"build", "pc", "tries", "work"}
    <2> TAKE p \in Openers
    <2>1. PICK b \in Builds : opener[p] = [build |-> b, pc |-> "closed", tries |-> 0, work |-> NoFile]
      BY DEF StoreInit
    <2> QED BY <1>2, <2>1
  <1>4. opener = [p \in Openers |-> opener[p]]
    BY DEF StoreInit
  <1> QED BY <1>1, <1>3, <1>4, Zenon DEF OpeningIInv, OpenersTyped, MigratesOnly

\* A process moves, and no other with it; a build stays what it is.
Moves(p) ==
  /\ opener' = [q \in Openers |-> opener'[q]] /\ \A q \in Openers \ {p} : opener'[q] = opener[q]
  /\ DOMAIN opener'[p] = {"build", "pc", "tries", "work"} /\ opener'[p].build = opener[p].build

\* A process goes on without writing: to no state in which it would claim more.
LEMMA OpenerSteps ==
  ASSUME OpeningIInv, NEW p \in Openers, Moves(p), UNCHANGED <<disk, wrote>>,
         opener'[p].pc = "open" => opener[p].build <= disk.version,
         opener'[p].pc = "migrating" =>
            /\ IsWhole(opener'[p].work) /\ opener'[p].work.rows = disk.rows
            /\ disk.version <= opener'[p].work.version /\ opener'[p].work.version <= opener[p].build
            /\ \A q \in Openers \ {p} : opener[q].pc # "migrating"
  PROVE  OpeningIInv'
  <1>2. OpenersTyped'
    BY DEF OpeningIInv, OpenersTyped, Moves
  <1>3. IsWhole(disk)' /\ disk'.rows = wrote'
    BY DEF OpeningIInv, IsWhole
  <1>4. MigratesOnly(p)'
    BY DEF MigratesOnly, IsWhole, Moves
  <1>5. ASSUME NEW q \in Openers \ {p} PROVE MigratesOnly(q)'
    <2>1. MigratesOnly(q) /\ opener'[q] = opener[q]
      BY DEF OpeningIInv, Moves
    <2>2. opener[q].pc = "migrating" => opener'[p].pc # "migrating"
      OBVIOUS
    <2>3. \A r \in Openers : opener'[r].pc = "migrating" /\ opener[q].pc = "migrating" => r = q
      BY <2>1, <2>2 DEF MigratesOnly, Moves
    <2> QED BY <2>1, <2>3 DEF MigratesOnly, IsWhole
  <1> QED BY <1>2, <1>3, <1>4, <1>5 DEF OpeningIInv

\* A process begins: it holds nothing yet.
LEMMA OpenDatabaseOpens ==
  ASSUME OpeningIInv, NEW p \in Openers, OpenDatabase(p)
  PROVE  OpeningIInv'
  <1>1. Moves(p) /\ opener'[p].pc = "journal"
    BY DEF OpenDatabase, Moves, OpeningIInv, OpenersTyped
  <1> QED BY <1>1, OpenerSteps DEF OpenDatabase

\* The journal's switch, made, found made, or refused: nothing of the schema is touched.
LEMMA EnableWalOpens ==
  ASSUME OpeningIInv, NEW p \in Openers, EnableWal(p)
  PROVE  OpeningIInv'
  <1>1. Moves(p) /\ opener'[p].pc \notin {"open", "migrating"}
    BY DEF EnableWal, OpenerGoes, Moves, OpeningIInv, OpenersTyped
  <1> QED BY <1>1, OpenerSteps DEF EnableWal

\* Killed or failed: its draft goes with it, and the write lock.
LEMMA OpenerGoneOpens ==
  ASSUME OpeningIInv, NEW p \in Openers, OpenerGone(p)
  PROVE  OpeningIInv'
  <1>1. Moves(p) /\ opener'[p].pc = "closed"
    BY DEF OpenerGone, Moves, OpeningIInv, OpenersTyped
  <1> QED BY <1>1, OpenerSteps DEF OpenerGone

\* The draft begins as what is committed, of a version the build knows, and nobody else has the lock.
LEMMA BeginImmediateOpens ==
  ASSUME OpeningIInv, NEW p \in Openers, BeginImmediate(p)
  PROVE  OpeningIInv'
  <1>1. disk.version \in 0..18 /\ opener[p].build \in 1..18
    BY DEF OpeningIInv, OpenersTyped, IsWhole
  <1>2. UNCHANGED <<disk, wrote>> /\ \A q \in Openers \ {p} : opener[q].pc # "migrating"
    BY DEF BeginImmediate, WriteLocked
  <1>3. CASE disk.version > opener[p].build
    <2>1. Moves(p) /\ opener'[p].pc = "failed"
      BY <1>3 DEF BeginImmediate, ReadVersion, Moves, OpeningIInv, OpenersTyped
    <2> QED BY <1>2, <2>1, OpenerSteps
  <1>4. CASE ~(disk.version > opener[p].build)
    <2>1. Moves(p) /\ opener'[p].pc = "migrating" /\ opener'[p].work = disk
      BY <1>4 DEF BeginImmediate, ReadVersion, Moves, OpeningIInv, OpenersTyped
    <2>2. IsWhole(opener'[p].work) /\ opener'[p].work.rows = disk.rows /\ opener'[p].work.version = disk.version
      BY <2>1 DEF OpeningIInv
    <2> QED BY <1>1, <1>2, <1>4, <2>1, <2>2, OpenerSteps
  <1> QED BY <1>3, <1>4

\* One more migration is applied to the draft, which stays whole and keeps every row.
LEMMA MigrateOpens ==
  ASSUME OpeningIInv, NEW p \in Openers, Migrate(p)
  PROVE  OpeningIInv'
  <1>1. PICK d : d = opener[p].work
    OBVIOUS
  <1>2. PICK e : e = Apply(d, MIGRATIONS[d.version + 1])
    OBVIOUS
  <1>3. opener[p].build \in 1..18 /\ disk.version \in 0..18 /\ d.version \in 0..18
    BY <1>1 DEF OpeningIInv, OpenersTyped, IsWhole, MigratesOnly, Migrate
  <1>4. /\ IsWhole(d) /\ d.rows = disk.rows /\ disk.version <= d.version /\ d.version < opener[p].build
        /\ \A q \in Openers \ {p} : opener[q].pc # "migrating"
    BY <1>1 DEF OpeningIInv, MigratesOnly, Migrate
  <1>5. IsWhole(e) /\ e.rows = d.rows /\ e.version = d.version + 1
    BY <1>2, <1>3, <1>4, ApplyIsWhole
  <1>6. Moves(p) /\ opener'[p].pc = "migrating" /\ opener'[p].work = e
    <2>1. opener' = [opener EXCEPT ![p].work = e]
      BY <1>1, <1>2 DEF Migrate
    <2> QED BY <2>1 DEF Migrate, Moves, OpeningIInv, OpenersTyped
  <1> QED BY <1>3, <1>4, <1>5, <1>6, OpenerSteps DEF Migrate

\* The draft becomes the file: no older than it was, so those who have it open are still served.
LEMMA CommitOpens ==
  ASSUME OpeningIInv, NEW p \in Openers, Commit(p)
  PROVE  OpeningIInv'
  <1>1. /\ Moves(p) /\ opener'[p].pc = "open" /\ disk' = opener[p].work /\ wrote' = wrote
        /\ opener[p].pc = "migrating" /\ disk'.version = opener[p].build
    BY DEF Commit, Moves, OpeningIInv, OpenersTyped
  <1>2. /\ IsWhole(disk)' /\ disk'.rows = wrote' /\ disk.version <= disk'.version
        /\ \A q \in Openers \ {p} : opener[q].pc # "migrating"
    BY <1>1 DEF OpeningIInv, MigratesOnly, IsWhole
  <1>3. OpenersTyped'
    BY <1>1 DEF OpeningIInv, OpenersTyped, Moves
  <1>4. disk.version \in 0..18 /\ disk'.version \in 0..18 /\ \A q \in Openers : opener[q].build \in 1..18
    BY <1>2 DEF OpeningIInv, OpenersTyped, IsWhole
  <1>5. ASSUME NEW q \in Openers PROVE MigratesOnly(q)'
    <2>1. CASE q = p
      BY <1>1, <1>4, <2>1 DEF MigratesOnly, Moves
    <2>2. CASE q # p
      <3>1. opener'[q] = opener[q] /\ MigratesOnly(q)
        BY <1>1, <2>2 DEF Moves, OpeningIInv
      <3>2. opener[q].pc = "open" => opener[q].build <= disk'.version
        BY <1>2, <1>4, <3>1 DEF MigratesOnly
      <3>3. opener'[q].pc # "migrating"
        BY <1>2, <2>2, <3>1
      <3> QED BY <3>1, <3>2, <3>3 DEF MigratesOnly
    <2> QED BY <2>1, <2>2
  <1> QED BY <1>2, <1>3, <1>5 DEF OpeningIInv

\* An event is of a kind that the writer's build knows, and so of one the file's table takes.
LEMMA LedgerAppendOpens ==
  ASSUME OpeningIInv, NEW p \in Openers, NEW kind, LedgerAppend(p, kind)
  PROVE  OpeningIInv'
  <1>1. disk.version \in 0..18 /\ opener[p].build \in 1..18 /\ opener[p].build <= disk.version
    BY DEF OpeningIInv, OpenersTyped, IsWhole, MigratesOnly, LedgerAppend
  <1>2. kind \in disk.kinds
    <2>1. KindsOf(opener[p].build) \subseteq KindsOf(disk.version)
      BY <1>1, KindsMono
    <2> QED BY <2>1 DEF LedgerAppend, OpeningIInv, IsWhole
  <1>3. PICK d : d = disk
    OBVIOUS
  <1>4. PICK e : e = [d EXCEPT !.rows = d.rows \cup {kind}]
    OBVIOUS
  <1>5. disk' = e
    BY <1>2, <1>3, <1>4 DEF LedgerAppend
  <1>6. IsWhole(e) /\ e.version = d.version /\ e.rows = d.rows \cup {kind}
    <2>1. IsWhole(d)
      BY <1>3 DEF OpeningIInv
    <2> QED BY <1>2, <1>3, <1>4, <2>1 DEF IsWhole
  <1>7. disk'.rows = wrote' /\ opener' = opener /\ \A q \in Openers : opener[q].pc # "migrating"
    BY <1>3, <1>5, <1>6 DEF LedgerAppend, OpeningIInv, WriteLocked
  <1> QED BY <1>3, <1>5, <1>6, <1>7 DEF OpeningIInv, OpenersTyped, MigratesOnly

\* Every step of the store keeps the opening's invariant.
LEMMA OpeningStep == OpeningIInv /\ [OpeningNext \/ HistoryNext]_storeVars => OpeningIInv'
  <1> SUFFICES ASSUME OpeningIInv, [OpeningNext \/ HistoryNext]_storeVars PROVE OpeningIInv'
    OBVIOUS
  <1>1. CASE OpeningNext
    BY <1>1, OpenDatabaseOpens, EnableWalOpens, BeginImmediateOpens, MigrateOpens, CommitOpens, OpenerGoneOpens,
       LedgerAppendOpens DEF OpeningNext
  <1>2. CASE UNCHANGED openingVars
    BY <1>2 DEF openingVars, OpeningIInv, OpenersTyped, MigratesOnly, IsWhole
  <1>3. CASE HistoryNext
    BY <1>2, <1>3 DEF HistoryNext, RecordEnded
  <1>4. CASE UNCHANGED storeVars
    BY <1>2, <1>4 DEF storeVars
  <1> QED BY <1>1, <1>3, <1>4

\* What the invariant says of the store's own properties.
LEMMA OpeningMeans == OpeningIInv => SchemaIsWhole /\ BuildsAreServed /\ EventsSurvive
  <1> SUFFICES ASSUME OpeningIInv PROVE SchemaIsWhole /\ BuildsAreServed /\ EventsSurvive
    OBVIOUS
  <1>1. SchemaIsWhole
    <2>1. TablesTo(disk.version) = UNION {m.tables : m \in {MIGRATIONS[v] : v \in 1..disk.version}}
      BY DEF TablesTo
    <2>2. ColumnsTo(disk.version) = UNION {m.columns : m \in {MIGRATIONS[v] : v \in 1..disk.version}}
      BY DEF ColumnsTo
    <2> QED BY <2>1, <2>2 DEF OpeningIInv, IsWhole, SchemaIsWhole
  <1>2. BuildsAreServed
    <2> SUFFICES ASSUME NEW p \in Openers, opener[p].pc = "open"
                 PROVE  disk.version >= opener[p].build /\ KindsOf(opener[p].build) \subseteq disk.kinds
      BY DEF BuildsAreServed
    <2>1. disk.version \in 0..18 /\ opener[p].build \in 1..18 /\ opener[p].build <= disk.version
          /\ disk.kinds = KindsOf(disk.version)
      BY DEF OpeningIInv, OpenersTyped, IsWhole, MigratesOnly
    <2> QED BY <2>1, KindsMono
  <1>3. EventsSurvive
    BY DEF OpeningIInv, EventsSurvive
  <1> QED BY <1>1, <1>2, <1>3
\* A nonempty set of naturals has a least element.
LEMMA LeastNat ==
  ASSUME NEW U, U \subseteq Nat, U # {}
  PROVE  \E n \in U : \A m \in U : n <= m
  <1>1. IsWellFoundedOn(OpToRel(<, Nat), Nat)
    BY NatLessThanWellFounded DEF OpToRel
  <1>2. PICK n \in U : \A m \in U : ~(<<m, n>> \in OpToRel(<, Nat))
    BY <1>1, WFMin
  <1>3. \A m \in U : ~(m < n)
    BY <1>2 DEF OpToRel
  <1> QED BY <1>3

\* The order of the ended sessions, and those of T that are later than r.
Ended == [at : Nat, id : Nat]
LaterIn(T, r) == {o \in T : Later(o, r)}

\* Later is a strict order.
LEMMA LaterOrder ==
  /\ \A r \in Ended : ~Later(r, r)
  /\ \A r, o, q \in Ended : Later(r, o) /\ Later(o, q) => Later(r, q)
  BY DEF Ended, Later

\* A part of the sessions has no more that are later than r.
LEMMA LaterCounts ==
  ASSUME NEW T, IsFiniteSet(T), NEW S \in SUBSET T, NEW r
  PROVE  /\ IsFiniteSet(LaterIn(S, r)) /\ LaterIn(S, r) \subseteq LaterIn(T, r)
         /\ Cardinality(LaterIn(S, r)) \in Nat /\ Cardinality(LaterIn(T, r)) \in Nat
         /\ Cardinality(LaterIn(S, r)) <= Cardinality(LaterIn(T, r))
  <1>1. LaterIn(T, r) \in SUBSET T /\ LaterIn(S, r) \in SUBSET LaterIn(T, r)
    BY DEF LaterIn
  <1>2. IsFiniteSet(LaterIn(T, r))
    BY <1>1, FS_Subset
  <1>3. IsFiniteSet(LaterIn(S, r)) /\ Cardinality(LaterIn(S, r)) <= Cardinality(LaterIn(T, r))
    BY <1>1, <1>2, FS_Subset
  <1> QED BY <1>1, <1>2, <1>3, FS_CardinalityType

\* Of those outside S that are later than r there is one that none of them is later than.
LEMMA LatestOutside ==
  ASSUME NEW T \in SUBSET Ended, IsFiniteSet(T), NEW S \in SUBSET T, NEW r \in Ended,
         LaterIn(T, r) \ S # {}
  PROVE  \E o \in LaterIn(T, r) \ S : LaterIn(T, o) \subseteq LaterIn(S, r)
  <1> DEFINE Out == LaterIn(T, r) \ S
             C == {Cardinality(LaterIn(T, o)) : o \in Out}
  <1>a. \A o \in Out : Cardinality(LaterIn(T, o)) \in Nat
    BY LaterCounts
  <1>1. C \subseteq Nat /\ C # {}
    BY <1>a
  <1>2. PICK n \in C : \A m \in C : n <= m
    <2> HIDE DEF C
    <2> QED BY <1>1, LeastNat
  <1>3. PICK o \in Out : n = Cardinality(LaterIn(T, o))
    BY <1>2
  <1>4. o \in T /\ o \in Ended /\ Later(o, r)
    BY DEF LaterIn
  <1>5. ASSUME NEW x \in LaterIn(T, o) PROVE x \in LaterIn(S, r)
    <2>1. x \in T /\ x \in Ended /\ Later(x, o) /\ Later(x, r)
      BY <1>4, LaterOrder DEF LaterIn
    <2>2. ASSUME x \notin S PROVE FALSE
      <3>1. x \in Out
        BY <2>1, <2>2 DEF LaterIn
      <3>2. LaterIn(T, x) \in SUBSET LaterIn(T, o)
        BY <1>4, <2>1, LaterOrder DEF LaterIn
      <3>3. x \in LaterIn(T, o) /\ x \notin LaterIn(T, x)
        BY <2>1, LaterOrder DEF LaterIn
      <3>4. IsFiniteSet(LaterIn(T, o)) /\ Cardinality(LaterIn(T, o)) \in Nat /\ Cardinality(LaterIn(T, x)) \in Nat
        BY LaterCounts
      <3>5. Cardinality(LaterIn(T, x)) <= n /\ Cardinality(LaterIn(T, x)) # n
        <4>1. /\ Cardinality(LaterIn(T, x)) <= Cardinality(LaterIn(T, o))
              /\ Cardinality(LaterIn(T, o)) = Cardinality(LaterIn(T, x)) => LaterIn(T, o) = LaterIn(T, x)
          BY <3>2, <3>4, FS_Subset, Zenon
        <4> QED BY <1>3, <3>3, <3>4, <4>1
      <3>6. n <= Cardinality(LaterIn(T, x))
        BY <1>2, <3>1
      <3> QED BY <1>3, <3>4, <3>5, <3>6
    <2> QED BY <2>1, <2>2 DEF LaterIn
  <1> QED BY <1>5

\* A part of the ended sessions that holds the k newest of them all has the same n newest, for n up to k.
LEMMA TrimIsEnough ==
  ASSUME NEW T \in SUBSET Ended, IsFiniteSet(T), NEW k \in Nat, NEW n \in Nat, n <= k,
         NEW S \in SUBSET T, Newest(T, k) \subseteq S
  PROVE  Newest(S, n) = Newest(T, n)
  <1>1. \A r : /\ r \in Newest(T, n) <=> r \in T /\ Cardinality(LaterIn(T, r)) < n
               /\ r \in Newest(T, k) <=> r \in T /\ Cardinality(LaterIn(T, r)) < k
               /\ r \in Newest(S, n) <=> r \in S /\ Cardinality(LaterIn(S, r)) < n
    BY DEF Newest, LaterIn
  <1>2. ASSUME NEW r \in Newest(T, n) PROVE r \in Newest(S, n)
    <2>1. /\ r \in T /\ Cardinality(LaterIn(T, r)) < n /\ Cardinality(LaterIn(T, r)) \in Nat
          /\ Cardinality(LaterIn(S, r)) \in Nat /\ Cardinality(LaterIn(S, r)) <= Cardinality(LaterIn(T, r))
      BY <1>1, LaterCounts
    <2>2. r \in S
      BY <1>1, <2>1
    <2> QED BY <1>1, <2>1, <2>2
  <1>3. ASSUME NEW r \in Newest(S, n) PROVE r \in Newest(T, n)
    <2>1. /\ r \in S /\ r \in T /\ r \in Ended /\ Cardinality(LaterIn(S, r)) < n
          /\ Cardinality(LaterIn(S, r)) \in Nat /\ IsFiniteSet(LaterIn(S, r))
      BY <1>1, LaterCounts
    <2>2. CASE LaterIn(T, r) \ S # {}
      <3>1. PICK o \in LaterIn(T, r) \ S : LaterIn(T, o) \in SUBSET LaterIn(S, r)
        BY <2>1, <2>2, LatestOutside
      <3>2. o \in T /\ o \notin Newest(T, k)
        BY DEF LaterIn
      <3>3. ~(Cardinality(LaterIn(T, o)) < k) /\ Cardinality(LaterIn(T, o)) \in Nat
        BY <1>1, <3>2, LaterCounts
      <3>4. Cardinality(LaterIn(T, o)) <= Cardinality(LaterIn(S, r))
        BY <2>1, <3>1, FS_Subset
      <3> QED BY <2>1, <3>3, <3>4
    <2>3. CASE LaterIn(T, r) \subseteq S
      <3>1. LaterIn(S, r) = LaterIn(T, r)
        BY <2>3 DEF LaterIn
      <3> QED BY <1>1, <2>1, <3>1
    <2> QED BY <2>2, <2>3
  <1> QED BY <1>2, <1>3

\* What is kept is the newest of all that ever ended.
HistoryIInv ==
  /\ endedLog \in Seq(Ended) /\ IsFiniteSet(ToSet(endedLog))
  /\ history = Newest(ToSet(endedLog), HistoryKeep)

\* Nothing has ended and nothing is kept.
LEMMA HistoryInit == StoreInit => HistoryIInv
  <1> SUFFICES ASSUME StoreInit PROVE HistoryIInv
    OBVIOUS
  <1>1. endedLog = <<>> /\ history = {}
    BY DEF StoreInit
  <1>2. ToSet(endedLog) = {}
    BY <1>1 DEF ToSet
  <1>3. Newest({}, HistoryKeep) = {}
    BY DEF Newest
  <1> QED BY <1>1, <1>2, <1>3, FS_EmptySet DEF HistoryIInv

\* The rows kept and the new one hold the newest of all that ended, so trimming them gives those.
LEMMA RecordEndedKeeps ==
  ASSUME HistoryIInv, NEW when \in 1..MaxEnded, RecordEnded(when)
  PROVE  HistoryIInv'
  <1>1. PICK rec : rec = [at |-> when, id |-> Len(endedLog) + 1]
    OBVIOUS
  <1>2. endedLog \in Seq(Ended) /\ Len(endedLog) \in Nat
    BY DEF HistoryIInv
  <1>3. rec \in Ended
    BY <1>1, <1>2, StoreAssumption DEF Ended
  <1>4. PICK E : E = ToSet(endedLog)
    OBVIOUS
  <1>5. E \in SUBSET Ended /\ IsFiniteSet(E) /\ history = Newest(E, HistoryKeep)
    BY <1>2, <1>4 DEF HistoryIInv, ToSet
  <1>6. endedLog' = Append(endedLog, rec) /\ history' = Newest(history \cup {rec}, HistoryKeep)
    BY <1>1 DEF RecordEnded
  <1>7. endedLog' \in Seq(Ended) /\ ToSet(endedLog') = E \cup {rec}
    BY <1>2, <1>3, <1>4, <1>6 DEF ToSet
  <1>8. E \cup {rec} \in SUBSET Ended /\ IsFiniteSet(E \cup {rec})
    BY <1>3, <1>5, FS_AddElement
  <1>9. Newest(E \cup {rec}, HistoryKeep) \subseteq history \cup {rec}
    <2> SUFFICES ASSUME NEW r \in Newest(E \cup {rec}, HistoryKeep), r # rec PROVE r \in Newest(E, HistoryKeep)
      BY <1>5
    <2>1. r \in E /\ Cardinality(LaterIn(E \cup {rec}, r)) < HistoryKeep
      BY DEF Newest, LaterIn
    <2>2. /\ Cardinality(LaterIn(E, r)) \in Nat /\ Cardinality(LaterIn(E \cup {rec}, r)) \in Nat
          /\ Cardinality(LaterIn(E, r)) <= Cardinality(LaterIn(E \cup {rec}, r))
      <3>1. E \in SUBSET (E \cup {rec})
        OBVIOUS
      <3> QED BY <1>8, <3>1, LaterCounts
    <2>3. Cardinality(LaterIn(E, r)) < HistoryKeep
      BY <2>1, <2>2, StoreAssumption
    <2> QED BY <2>1, <2>3 DEF Newest, LaterIn
  <1>10. history \cup {rec} \in SUBSET (E \cup {rec})
    BY <1>5 DEF Newest
  <1>11. HistoryKeep \in Nat /\ HistoryKeep <= HistoryKeep
    BY StoreAssumption
  <1>12. history' = Newest(E \cup {rec}, HistoryKeep)
    <2>1. Newest(history \cup {rec}, HistoryKeep) = Newest(E \cup {rec}, HistoryKeep)
      <3>1. PICK T : T = E \cup {rec}
        OBVIOUS
      <3>2. PICK S : S = history \cup {rec}
        OBVIOUS
      <3>3. PICK k : k = HistoryKeep
        OBVIOUS
      <3>4. T \in SUBSET Ended /\ IsFiniteSet(T) /\ k \in Nat /\ k <= k /\ S \in SUBSET T /\ Newest(T, k) \subseteq S
        BY <1>8, <1>9, <1>10, <1>11, <3>1, <3>2, <3>3
      <3>5. Newest(S, k) = Newest(T, k)
        BY <3>4, TrimIsEnough
      <3> QED BY <3>1, <3>2, <3>3, <3>5, Zenon
    <2> QED BY <1>6, <2>1
  <1> QED BY <1>7, <1>8, <1>12 DEF HistoryIInv

\* Every step of the store keeps the history's invariant.
LEMMA HistoryStep == HistoryIInv /\ [OpeningNext \/ HistoryNext]_storeVars => HistoryIInv'
  <1> SUFFICES ASSUME HistoryIInv, [OpeningNext \/ HistoryNext]_storeVars PROVE HistoryIInv'
    OBVIOUS
  <1>1. CASE UNCHANGED historyVars
    BY <1>1 DEF historyVars, HistoryIInv
  <1>2. CASE OpeningNext
    <2>1. UNCHANGED historyVars
      BY <1>2 DEF OpeningNext, OpenDatabase, EnableWal, BeginImmediate, Migrate, Commit, OpenerGone, LedgerAppend
    <2> QED BY <1>1, <2>1
  <1>3. CASE HistoryNext
    BY <1>3, RecordEndedKeeps DEF HistoryNext
  <1>4. CASE UNCHANGED storeVars
    BY <1>1, <1>4 DEF storeVars
  <1> QED BY <1>2, <1>3, <1>4

\* A listing of no more than is kept shows what a listing of all would.
LEMMA HistoryMeans == HistoryIInv => HistoryIsComplete
  <1> SUFFICES ASSUME HistoryIInv, NEW limit \in 1..HistoryKeep
               PROVE  ListByWorkspace(limit) = Newest(ToSet(endedLog), limit)
    BY DEF HistoryIsComplete
  <1>1. PICK E : E = ToSet(endedLog)
    OBVIOUS
  <1>2. E \in SUBSET Ended /\ IsFiniteSet(E) /\ history = Newest(E, HistoryKeep)
    BY <1>1 DEF HistoryIInv, ToSet
  <1>3. history \in SUBSET E /\ HistoryKeep \in Nat /\ limit \in Nat /\ limit <= HistoryKeep
    BY <1>2, StoreAssumption DEF Newest
  <1>4. Newest(history, limit) = Newest(E, limit)
    BY <1>2, <1>3, TrimIsEnough
  <1> QED BY <1>1, <1>4 DEF ListByWorkspace

-----------------------------------------------------------------------------
\* Drafts, versions and kept rows, for any processes and builds: the inductive invariant.
THEOREM StoreHolds == StoreSpec => [](OpeningIInv /\ HistoryIInv)
  BY OpeningInit, HistoryInit, OpeningStep, HistoryStep, PTL DEF StoreSpec

\* However builds open, migrate, are cut short and write, the file is whole for its version,
\* serves all that have it open and has lost no event (open.ts, schema.ts); and a trim of the
\* history drops nothing that a listing would have shown (session-history.ts).
THEOREM StoreKept == StoreSpec => []StoreIsWhole
  <1>1. OpeningIInv /\ HistoryIInv => StoreIsWhole
    BY OpeningMeans, HistoryMeans DEF StoreIsWhole
  <1> QED BY <1>1, StoreHolds, PTL
=============================================================================
