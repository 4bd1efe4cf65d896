------------------------- MODULE ConvergenceProofs --------------------------
(***************************************************************************)
(* What holds of the clients of a group for any number of clients and      *)
(* commits, whatever fails, is lost or restarts: the engines keep their    *)
(* type, a kept state is of the epoch it is kept under, and nobody applies *)
(* a commit that is not published.                                         *)
(*                                                                         *)
(* The handlers are operators on an engine, so the proof says of every one *)
(* of them that it takes a sound engine to a sound engine (Engines).  What *)
(* a client knows of the commits of others is published; its own commit is *)
(* in its path only after a relay has it.  The states a client keeps, in   *)
(* its anchors, its incumbents, its pending commit, and inside each other, *)
(* are bound by the same rule, for any of them may become the live state.  *)
(***************************************************************************)
EXTENDS Convergence, BranchSelectionProofs

\* The modes of a group.
Modes == {"Stable", "Pending", "Recovering", "Unrecoverable"}

\* Rows of commits, as client me may have them: it knows of no commit of
\* another client that is not published.
RowsOf(me) ==
    {r \in [Commits -> RowType] :
        \A c \in Commits : Author[c] # me /\ r[c].st # "None" => c \in wire}

\* A raw row is of a commit on the wire.
RawRows == [c : wire, st : RawStates, at : Nat]

\* A state of the group with its message rows, live or kept.
SavedBy(me) == [path : Seq(wire), rows : RowsOf(me), raw : Seq(RawRows)]

\* States kept under their epoch.
AnchorsOf(me) ==
    {f \in UNION {[D -> SavedBy(me)] : D \in SUBSET Nat} :
        \A e \in DOMAIN f : Len(f[e].path) = e}

\* Incumbents: a commit, and the state it was made in.
Wins(me) == {w \in [commit : wire, snap : SavedBy(me)] : w.snap.path = base[w.commit]}

\* The recorded decisions of a client.
WinsOf(me) ==
    {f \in UNION {[D -> Wins(me)] : D \in SUBSET Nat} :
        \A e \in DOMAIN f : Len(f[e].snap.path) = e}

\* The own commit a client may have staged.
PendingOf(me) ==
    [commit : {None}] \union
    {p \in [commit : Made, snap : SavedBy(me)] : p.snap.path = base[p.commit]}

\* The engines client me may have.
Engines(me) ==
    {n \in [path : Seq(wire), mode : Modes, pending : PendingOf(me), rows : RowsOf(me),
            raw : Seq(RawRows), anchors : AnchorsOf(me), wins : WinsOf(me), from : SUBSET Nat] :
        n.mode = "Pending" <=> n.pending.commit # None}

\* The engines without a pending commit, in which messages are processed.
Idle(me) == {n \in Engines(me) : n.mode # "Pending"}

\* Commits are published after they are made, and made in a published state.
Published ==
    /\ Made \subseteq Commits /\ IsFiniteSet(Made)
    /\ wire \subseteq Made
    /\ base \in [Made -> Seq(wire)]

\* The inductive invariant.
ConvInv ==
    /\ Published
    /\ node = [cl \in Clients |-> node[cl]]
    /\ \A cl \in Clients : node[cl] \in Engines(cl)
    /\ got \in [Clients -> SUBSET wire]

-----------------------------------------------------------------------------
(* Recursion over the rows of a client. *)

\* A property of the first value that every step keeps is one of the last.
LEMMA FoldKeeps ==
    ASSUME NEW N \in Nat, NEW A, NEW h, h[0] \in A,
           \A k \in 1 .. N : h[k - 1] \in A => h[k] \in A
    PROVE  h[N] \in A
<1>. DEFINE Bad == {k \in 0 .. N : h[k] \notin A}
<1>1. SUFFICES ASSUME Bad # {} PROVE FALSE
    OBVIOUS
<1>2. PICK m \in Bad : \A k \in Bad : m <= k
  <2>1. Bad \in SUBSET Nat
      OBVIOUS
  <2>. HIDE DEF Bad
  <2>. QED
      BY Zenon, <1>1, <2>1, NatLeast
<1>3. m # 0 /\ m \in 1 .. N /\ m - 1 \in 0 .. N /\ ~(m <= m - 1)
    BY <1>2
<1>4. h[m - 1] \in A
    BY Zenon, <1>2, <1>3
<1>. QED
    BY Zenon, <1>2, <1>3, <1>4

\* f holds the values of a recursion over 1 .. N that starts with a.
IsFold(f, N, A, a, g) ==
    f \in [0 .. N -> A] /\ f[0] = a /\ \A k \in 1 .. N : f[k] = g[<< f[k - 1], k >>]

\* Recursion over 1 .. N with values in A defines a function.
LEMMA FoldExists ==
    ASSUME NEW N \in Nat, NEW A, NEW a \in A, NEW g \in [A \X (1 .. N) -> A]
    PROVE  \E f : IsFold(f, N, A, a, g)
<1>. DEFINE Ends(m, f) == f[0] = a /\ \A k \in 1 .. m : f[k] = g[<< f[k - 1], k >>]
            Bad == {m \in 0 .. N : ~ \E f \in [0 .. m -> A] : Ends(m, f)}
<1>1. SUFFICES ASSUME Bad # {} PROVE FALSE
  <2>1. Bad = {} => \E f \in [0 .. N -> A] : Ends(N, f)
    <3>1. N \in 0 .. N
        OBVIOUS
    <3>. QED
        BY Zenon, <3>1
  <2>. QED
      BY Zenon, <2>1 DEF IsFold
<1>2. PICK m \in Bad : \A k \in Bad : m <= k
  <2>1. Bad \in SUBSET Nat
      OBVIOUS
  <2>. HIDE DEF Bad
  <2>. QED
      BY Zenon, <1>1, <2>1, NatLeast
<1>3. m # 0
  <2>. SUFFICES ASSUME m = 0 PROVE FALSE
      BY Zenon
  <2>. DEFINE f == [k \in 0 .. 0 |-> a]
  <2>1. f \in [0 .. m -> A] /\ Ends(m, f)
      OBVIOUS
  <2>. QED
      BY ZenonT(30), <1>2, <2>1
<1>4. m \in 1 .. N /\ m - 1 \in 0 .. N /\ ~(m <= m - 1)
    BY <1>2, <1>3
<1>5. PICK f \in [0 .. m - 1 -> A] : Ends(m - 1, f)
    BY Zenon, <1>2, <1>4
<1>. DEFINE b == g[<< f[m - 1], m >>]
            h == [k \in 0 .. m |-> IF k = m THEN b ELSE f[k]]
<1>6. b \in A /\ f[m - 1] \in A
    BY <1>4, <1>5
<1>7. h \in [0 .. m -> A]
    BY <1>4, <1>5, <1>6
<1>8. h[0] = a
    BY <1>4, <1>5
<1>9. ASSUME NEW k \in 1 .. m PROVE h[k] = g[<< h[k - 1], k >>]
  <2>1. CASE k = m
    <3>1. h[k - 1] = f[m - 1] /\ h[k] = b
        BY <1>4, <2>1
    <3>. QED
        BY ZenonT(30), <2>1, <3>1
  <2>2. CASE k # m
      BY <1>4, <2>2, <1>5
  <2>. QED
      BY Zenon, <2>1, <2>2
<1>10. Ends(m, h)
    BY ZenonT(30), <1>8, <1>9
<1>. QED
    BY ZenonT(30), <1>2, <1>7, <1>10

-----------------------------------------------------------------------------
(* Storage. *)

\* A function on 1 .. n is a sequence.
LEMMA MapIsSeq ==
    ASSUME NEW R, NEW s \in Seq(R), NEW f \in [DOMAIN s -> R]
    PROVE  f \in Seq(R)
OBVIOUS

\* What can be done with an engine without reading it.
LEMMA EngineFields ==
    ASSUME NEW me, NEW n \in Engines(me)
    PROVE  /\ n.path \in Seq(wire) /\ Len(n.path) \in Nat /\ n.mode \in Modes
           /\ n.pending \in PendingOf(me) /\ n.rows \in RowsOf(me) /\ n.raw \in Seq(RawRows)
           /\ n.anchors \in AnchorsOf(me) /\ n.wins \in WinsOf(me) /\ n.from \in SUBSET Nat
           /\ n.mode = "Pending" <=> n.pending.commit # None
BY DEF Engines

\* The result of an operation that leaves the pending commit alone.
Keeps(me, n, m) ==
    m \in Engines(me) /\ m.mode = n.mode /\ m.pending = n.pending

\* Saving and restoring a snapshot keeps a client an engine.
LEMMA SaveIn ==
    ASSUME NEW me, NEW n \in Engines(me)
    PROVE  Save(n) \in SavedBy(me) /\ Save(n).path = n.path
BY Zenon DEF Save, Engines, SavedBy

\* A restored snapshot is a state the client has been in.
LEMMA RestoreIn ==
    ASSUME NEW me, NEW n \in Engines(me), NEW s \in SavedBy(me)
    PROVE  /\ Keeps(me, n, Restore(n, s)) /\ Restore(n, s).path = s.path
           /\ Restore(n, s).wins = n.wins
BY ZenonT(30) DEF Restore, Engines, SavedBy, Keeps

\* Retaining the live state keeps it under its epoch.
LEMMA RetainIn ==
    ASSUME NEW me, NEW n \in Engines(me)
    PROVE  Keeps(me, n, Retain(n)) /\ Retain(n).path = n.path
<1>. DEFINE tip == Len(n.path)
            kept == {e \in DOMAIN n.anchors : e >= Floor(tip)} \ {tip}
            A == [e \in kept \union {tip} |-> IF e = tip THEN Save(n) ELSE n.anchors[e]]
<1>1. tip \in Nat /\ Save(n) \in SavedBy(me) /\ Len(Save(n).path) = tip
    BY Zenon, SaveIn, EngineFields
<1>2. /\ n.anchors \in [DOMAIN n.anchors -> SavedBy(me)] /\ DOMAIN n.anchors \in SUBSET Nat
      /\ \A e \in DOMAIN n.anchors : Len(n.anchors[e].path) = e
    BY EngineFields DEF AnchorsOf
<1>3. kept \union {tip} \in SUBSET Nat /\ kept \subseteq DOMAIN n.anchors
    BY Zenon, <1>1, <1>2
<1>. HIDE DEF kept
<1>4. A \in [kept \union {tip} -> SavedBy(me)] /\ \A e \in DOMAIN A : Len(A[e].path) = e
    BY Zenon, <1>1, <1>2, <1>3
<1>5. A \in AnchorsOf(me)
    BY ZenonT(30), <1>3, <1>4 DEF AnchorsOf
<1>6. Retain(n) = [n EXCEPT !.anchors = A]
    BY Zenon DEF Retain, kept
<1>. HIDE DEF A
<1>. QED
    BY Zenon, <1>5, <1>6 DEF Engines, Keeps

\* persist_transport_message of a published commit.
LEMMA PutRawIn ==
    ASSUME NEW me, NEW n \in Engines(me), NEW c \in wire, NEW st \in RawStates
    PROVE  Keeps(me, n, PutRaw(n, c, st)) /\ PutRaw(n, c, st).path = n.path
<1>. DEFINE r == [c |-> c, st |-> st, at |-> Len(n.path)]
            Q == IF HasRaw(n.raw, c) THEN [i \in DOMAIN n.raw |-> IF n.raw[i].c = c THEN r ELSE n.raw[i]]
                 ELSE Append(n.raw, r)
<1>1. n.raw \in Seq(RawRows) /\ r \in RawRows
    BY ZenonT(30), EngineFields DEF RawRows
<1>. HIDE DEF r
<1>2. [i \in DOMAIN n.raw |-> IF n.raw[i].c = c THEN r ELSE n.raw[i]] \in [DOMAIN n.raw -> RawRows]
    BY <1>1
<1>3. Q \in Seq(RawRows)
    BY <1>1, <1>2, MapIsSeq
<1>4. PutRaw(n, c, st) = [n EXCEPT !.raw = Q]
    BY Zenon DEF PutRaw, r, Engines
<1>. HIDE DEF Q
<1>. QED
    BY Zenon, <1>3, <1>4 DEF Engines, Keeps

\* Changing the state of a raw row keeps it one.
LEMMA SetRawIn ==
    ASSUME NEW me, NEW n \in Engines(me), NEW c, NEW st \in RawStates
    PROVE  Keeps(me, n, SetRaw(n, c, st)) /\ SetRaw(n, c, st).path = n.path
<1>. DEFINE Q == [i \in DOMAIN n.raw |-> IF n.raw[i].c = c THEN [n.raw[i] EXCEPT !.st = st] ELSE n.raw[i]]
<1>1. n.raw \in Seq(RawRows)
    BY Zenon, EngineFields
<1>a. \A r \in RawRows : [r EXCEPT !.st = st] \in RawRows
    BY Zenon DEF RawRows
<1>b. \A i \in DOMAIN n.raw : n.raw[i] \in RawRows
    BY <1>1
<1>2. \A i \in DOMAIN n.raw : n.raw[i] \in RawRows /\ [n.raw[i] EXCEPT !.st = st] \in RawRows
    BY Zenon, <1>a, <1>b
<1>3. Q \in Seq(RawRows)
    BY ZenonT(30), <1>1, <1>2, MapIsSeq
<1>4. SetRaw(n, c, st) = [n EXCEPT !.raw = Q]
    BY Zenon DEF SetRaw, Engines
<1>. HIDE DEF Q
<1>. QED
    BY Zenon, <1>3, <1>4 DEF Engines, Keeps

\* A row is made of a published commit or of one of the client's own.
LEMMA PutRowIn ==
    ASSUME NEW me, NEW n \in Engines(me), NEW c \in Commits, c \in wire \/ Author[c] = me,
           NEW st \in RowStates, NEW at \in Nat
    PROVE  /\ Keeps(me, n, PutRow(n, c, st, at)) /\ PutRow(n, c, st, at).path = n.path
           /\ PutRow(n, c, st, at).wins = n.wins
<1>. DEFINE Q == [n.rows EXCEPT ![c] = Row(st, at)]
<1>1. n.rows \in RowsOf(me) /\ Row(st, at) \in RowType
    BY Zenon, EngineFields DEF Row, RowType
<1>2. Q \in RowsOf(me)
    BY Zenon, <1>1 DEF RowsOf
<1>3. PutRow(n, c, st, at) = [n EXCEPT !.rows = Q]
    BY Zenon DEF PutRow, Engines
<1>. HIDE DEF Q
<1>. QED
    BY Zenon, <1>2, <1>3 DEF Engines, Keeps

\* So does changing the state of an ordering row.
LEMMA SetRowIn ==
    ASSUME NEW me, NEW n \in Engines(me), NEW c \in Commits, NEW st \in RowStates
    PROVE  /\ Keeps(me, n, SetRow(n, c, st)) /\ SetRow(n, c, st).path = n.path
           /\ SetRow(n, c, st).wins = n.wins
<1>1. CASE n.rows[c].st = "None"
    BY Zenon, <1>1 DEF SetRow, Keeps
<1>2. CASE n.rows[c].st # "None"
  <2>. DEFINE Q == [n.rows EXCEPT ![c].st = st]
  <2>1. n.rows \in RowsOf(me)
      BY Zenon, EngineFields
  <2>2. Q \in RowsOf(me)
      BY Zenon, <1>2, <2>1 DEF RowsOf, RowType
  <2>3. SetRow(n, c, st) = [n EXCEPT !.rows = Q]
      BY Zenon, <1>2 DEF SetRow, Engines
  <2>. HIDE DEF Q
  <2>. QED
      BY Zenon, <2>2, <2>3 DEF Engines, Keeps
<1>. QED
    BY Zenon, <1>1, <1>2

\* Pruning drops anchors and snapshots only.
LEMMA PruneIn ==
    ASSUME NEW me, NEW n \in Engines(me)
    PROVE  Keeps(me, n, Prune(n)) /\ Prune(n).path = n.path
<1>. DEFINE old == Floor(Len(n.path))
            D == {f \in DOMAIN n.wins : f >= old}
            W == [e \in D |-> n.wins[e]]
            F == {e \in n.from : e >= old}
<1>1. /\ n.wins \in [DOMAIN n.wins -> Wins(me)] /\ DOMAIN n.wins \in SUBSET Nat
      /\ \A e \in DOMAIN n.wins : Len(n.wins[e].snap.path) = e
    BY EngineFields DEF WinsOf
<1>2. D \in SUBSET Nat /\ D \subseteq DOMAIN n.wins /\ F \in SUBSET Nat
    BY Zenon, <1>1, EngineFields
<1>3. Prune(n) = [n EXCEPT !.wins = W, !.from = F]
    BY Zenon DEF Prune, Engines
<1>. HIDE DEF D, F
<1>4. W \in [D -> Wins(me)] /\ \A e \in DOMAIN W : Len(W[e].snap.path) = e
    BY Zenon, <1>1, <1>2
<1>5. W \in WinsOf(me)
    BY ZenonT(30), <1>2, <1>4 DEF WinsOf
<1>. HIDE DEF W
<1>. QED
    BY ZenonT(30), <1>2, <1>3, <1>5 DEF Engines, Keeps

\* An incumbent is kept under the epoch its commit was made in.
LEMMA IncumbentIn ==
    ASSUME NEW me, NEW n \in Engines(me), NEW c \in wire, NEW snap \in SavedBy(me),
           snap.path = base[c], Source(c) \in Nat
    PROVE  /\ Keeps(me, n, Incumbent(n, Source(c), c, snap))
           /\ Incumbent(n, Source(c), c, snap).path = n.path
<1>. DEFINE e == Source(c)
            v == [commit |-> c, snap |-> snap]
            W == [f \in DOMAIN n.wins \union {e} |-> IF f = e THEN v ELSE n.wins[f]]
<1>1. /\ n.wins \in [DOMAIN n.wins -> Wins(me)] /\ DOMAIN n.wins \in SUBSET Nat
      /\ \A f \in DOMAIN n.wins : Len(n.wins[f].snap.path) = f
    BY EngineFields DEF WinsOf
<1>2. v \in Wins(me) /\ Len(v.snap.path) = e
    BY Zenon DEF Wins, Source
<1>3. DOMAIN n.wins \union {e} \in SUBSET Nat
    BY Zenon, <1>1
<1>4. Incumbent(n, e, c, snap) = [n EXCEPT !.wins = W]
    BY Zenon DEF Incumbent
<1>. HIDE DEF v, e
<1>5. W \in [DOMAIN n.wins \union {e} -> Wins(me)] /\ \A f \in DOMAIN W : Len(W[f].snap.path) = f
    BY Zenon, <1>1, <1>2
<1>6. W \in WinsOf(me)
    BY ZenonT(30), <1>3, <1>5 DEF WinsOf
<1>. HIDE DEF W
<1>. QED
    BY Zenon, <1>4, <1>6 DEF Engines, Keeps, e

-----------------------------------------------------------------------------
(* ingest_group_message. *)

\* What a delivery may end in.
Outcomes == {"Processed", "Buffered", "Stale", "PeelFailed", "Forked", "Error"}

\* What is known of a commit on the wire.
LEMMA WireFacts ==
    ASSUME Published, NEW c \in wire
    PROVE  /\ c \in Commits /\ c \in Made /\ base[c] \in Seq(wire)
           /\ Source(c) \in Nat /\ Branch(c) \in Seq(wire)
BY DEF Published, Source, Branch

\* An idle client is an engine.
LEMMA IdleIsEngine ==
    ASSUME NEW me, NEW n
    PROVE  /\ n \in Idle(me) => n \in Engines(me)
           /\ n \in Idle(me) => \A m : Keeps(me, n, m) => m \in Idle(me)
BY Zenon DEF Idle, Keeps

\* A commit processed in the state it was made in.
LEMMA ApplyIn ==
    ASSUME Published, NEW me, NEW n \in Idle(me), NEW c \in wire, n.path = base[c]
    PROVE  Apply(n, c) \in Idle(me)
<1>. DEFINE r == Retain(n)
            g == Merge(n, c)
            i == Incumbent(g, Source(c), c, Save(n))
            p == Prune(i)
<1>1. c \in Commits /\ Source(c) \in Nat /\ Branch(c) \in Seq(wire)
    BY Zenon, WireFacts
<1>2. r \in Idle(me)
    BY Zenon, RetainIn, IdleIsEngine
<1>3. g \in Idle(me)
  <2>1. g = [r EXCEPT !.path = Branch(c), !.mode = "Stable"]
      BY Zenon DEF Merge
  <2>. HIDE DEF g, r
  <2>2. Branch(c) \in Seq(wire) /\ "Stable" \in Modes
      BY Zenon, <1>1 DEF Modes
  <2>. QED
      BY ZenonT(30), <1>2, <2>1, <2>2 DEF Idle, Engines
<1>4. Save(n) \in SavedBy(me) /\ Save(n).path = base[c]
    BY Zenon, SaveIn, IdleIsEngine
<1>. HIDE DEF g
<1>5. i \in Idle(me)
    BY Zenon, <1>1, <1>3, <1>4, IncumbentIn, IdleIsEngine
<1>. HIDE DEF i
<1>6. p \in Idle(me)
    BY Zenon, <1>5, PruneIn, IdleIsEngine
<1>. HIDE DEF p
<1>7. "Processed" \in RowStates
    BY Zenon DEF RowStates
<1>8. SetRow(p, c, "Processed") \in Idle(me)
    BY Zenon, <1>1, <1>6, <1>7, SetRowIn, IdleIsEngine
<1>. QED
    BY Zenon, <1>8 DEF Apply, p, i, g

\* A commit that follows the tip is applied to it.
LEMMA ApplyDirectlyIn ==
    ASSUME Published, NEW me, NEW n \in Idle(me), NEW c \in wire, n.path = base[c]
    PROVE  ApplyDirectly(n, c) \in Idle(me)
<1>. DEFINE s == PutRow(n, c, "Created", Source(c))
<1>1. c \in Commits /\ Source(c) \in Nat /\ "Created" \in RowStates
    BY Zenon, WireFacts DEF RowStates
<1>2. s \in Idle(me) /\ s.path = base[c]
    BY <1>1, PutRowIn, IdleIsEngine
<1>. HIDE DEF s
<1>3. Apply(s, c) \in Idle(me)
    BY Zenon, <1>2, ApplyIn
<1>. QED
    BY Zenon, <1>3 DEF ApplyDirectly, s

\* The state before an incumbent is the one the incumbent was made in.
LEMMA RollBackIn ==
    ASSUME Published, NEW me, NEW n \in Idle(me), NEW e \in DOMAIN n.wins
    PROVE  /\ RollBack(n, n.wins[e], e) \in Idle(me)
           /\ RollBack(n, n.wins[e], e).path = n.wins[e].snap.path
<1>. DEFINE win == n.wins[e]
            s == Restore(n, win.snap)
            t == SetRow(s, win.commit, "EpochInvalidated")
            W == [f \in DOMAIN n.wins \ {e} |-> n.wins[f]]
<1>1. /\ n.wins \in [DOMAIN n.wins -> Wins(me)] /\ DOMAIN n.wins \in SUBSET Nat
      /\ \A f \in DOMAIN n.wins : Len(n.wins[f].snap.path) = f
    BY EngineFields, IdleIsEngine DEF WinsOf
<1>2. win \in Wins(me)
    BY Zenon, <1>1
<1>3. win.snap \in SavedBy(me) /\ win.commit \in Commits /\ "EpochInvalidated" \in RowStates
    BY Zenon, <1>2, WireFacts DEF Wins, RowStates
<1>4. s \in Idle(me) /\ s.path = win.snap.path
    BY <1>3, RestoreIn, IdleIsEngine
<1>5. W \in WinsOf(me)
  <2>1. DOMAIN n.wins \ {e} \in SUBSET Nat
      BY Zenon, <1>1
  <2>2. W \in [DOMAIN n.wins \ {e} -> Wins(me)] /\ \A f \in DOMAIN W : Len(W[f].snap.path) = f
      BY Zenon, <1>1
  <2>. QED
      BY ZenonT(30), <2>1, <2>2 DEF WinsOf
<1>. HIDE DEF s
<1>6. t \in Idle(me) /\ t.path = win.snap.path
    BY <1>3, <1>4, SetRowIn, IdleIsEngine
<1>7. RollBack(n, win, e) = [t EXCEPT !.wins = W, !.mode = "Stable"]
    BY Zenon DEF RollBack, t, s
<1>. HIDE DEF t, W, win
<1>8. "Stable" \in Modes
    BY Zenon DEF Modes
<1>9. RollBack(n, win, e) \in Idle(me) /\ RollBack(n, win, e).path = win.snap.path
    BY ZenonT(30), <1>5, <1>6, <1>7, <1>8 DEF Idle, Engines
<1>. QED
    BY Zenon, <1>9 DEF win

\* Looking at the raw rows again keeps a client an engine.
LEMMA AgainIn ==
    ASSUME Published, NEW me, NEW n \in Idle(me), NEW c \in wire, n.path = base[c]
    PROVE  Again(n, c).n \in Idle(me) /\ Again(n, c).out \in Outcomes
BY Zenon, ApplyDirectlyIn DEF Again, Result, Recorded, Outcomes

\* Resolving a fork picks one of its two commits.
LEMMA ResolveIn ==
    ASSUME Published, NEW me, NEW n \in Idle(me), NEW c \in wire, Source(c) \in DOMAIN n.wins
    PROVE  /\ Resolve(n, c, n.wins[Source(c)]).n \in Idle(me)
           /\ Resolve(n, c, n.wins[Source(c)]).out \in Outcomes
<1>. DEFINE win == n.wins[Source(c)]
            back == RollBack(n, win, Source(c))
<1>1. back \in Idle(me) /\ back.path = win.snap.path
    BY Zenon, RollBackIn
<1>2. c \in Commits /\ "EpochInvalidated" \in RowStates
    BY Zenon, WireFacts DEF RowStates
<1>3. SetRow(n, c, "EpochInvalidated") \in Idle(me)
    BY Zenon, <1>2, SetRowIn, IdleIsEngine
<1>. HIDE DEF win, back
<1>4. win.snap.path = base[c] => Again(back, c).n \in Idle(me) /\ Again(back, c).out \in Outcomes
    BY Zenon, <1>1, AgainIn
<1>5. Resolve(n, c, win).n \in Idle(me) /\ Resolve(n, c, win).out \in Outcomes
    BY Zenon, <1>3, <1>4 DEF Resolve, Result, Outcomes, back
<1>. QED
    BY Zenon, <1>5 DEF win

\* Fork recovery restores a kept snapshot.
LEMMA ForkRecoveryIn ==
    ASSUME Published, NEW me, NEW n \in Idle(me), NEW c \in wire
    PROVE  ForkRecovery(n, c).n \in Idle(me) /\ ForkRecovery(n, c).out \in Outcomes
<1>. DEFINE s == SetRow(n, c, "EpochInvalidated")
<1>1. c \in Commits /\ "EpochInvalidated" \in RowStates /\ "Recovering" \in Modes
    BY Zenon, WireFacts DEF RowStates, Modes
<1>2. s \in Idle(me)
    BY Zenon, <1>1, SetRowIn, IdleIsEngine
<1>. HIDE DEF s
<1>3. [s EXCEPT !.mode = "Recovering"] \in Idle(me)
    BY ZenonT(30), <1>1, <1>2 DEF Idle, Engines
<1>. QED
    BY Zenon, <1>3, ResolveIn DEF ForkRecovery, Result, Outcomes, s

\* A commit of another epoch is kept, refused or resolved.
LEMMA WrongEpochIn ==
    ASSUME Published, NEW me, NEW n \in Idle(me), NEW c \in wire
    PROVE  WrongEpoch(n, c).n \in Idle(me) /\ WrongEpoch(n, c).out \in Outcomes
BY Zenon, WireFacts, SetRowIn, IdleIsEngine, ForkRecoveryIn DEF RowStates, WrongEpoch,
   Result, Outcomes

\* What ingest does with a message that it opens.
LEMMA OpenedIn ==
    ASSUME Published, NEW me, NEW n \in Idle(me), NEW c \in wire
    PROVE  LET r == IF n.rows[c].st # "None" THEN Result(n, Recorded(n.rows[c].st))
                    ELSE IF EntersConvergence(n, Source(c))
                    THEN Result(PutRow(n, c, "Created", Source(c)), "Buffered")
                    ELSE WrongEpoch(PutRow(n, c, "Created", Len(n.path)), c)
           IN  r.n \in Idle(me) /\ r.out \in Outcomes
<1>. DEFINE s == PutRow(n, c, "Created", Len(n.path))
<1>1. c \in Commits /\ Source(c) \in Nat /\ Len(n.path) \in Nat /\ "Created" \in RowStates
    BY Zenon, WireFacts, EngineFields, IdleIsEngine DEF RowStates
<1>2. PutRow(n, c, "Created", Source(c)) \in Idle(me) /\ s \in Idle(me)
    BY Zenon, <1>1, PutRowIn, IdleIsEngine
<1>. HIDE DEF s
<1>3. WrongEpoch(s, c).n \in Idle(me) /\ WrongEpoch(s, c).out \in Outcomes
    BY Zenon, <1>2, WrongEpochIn
<1>4. \A st : Recorded(st) \in Outcomes
    BY Zenon DEF Recorded, Outcomes
<1>. QED
    BY Zenon, <1>2, <1>3, <1>4 DEF Result, Outcomes, s

\* Ingesting a delivery keeps a client an engine.
LEMMA IngestIn ==
    ASSUME Published, NEW me, NEW n \in Engines(me), NEW c \in wire
    PROVE  /\ Ingest(n, c).n \in Engines(me) /\ Ingest(n, c).out \in Outcomes
           /\ n \in Idle(me) => Ingest(n, c).n \in Idle(me)
<1>1. n.mode \in Modes
    BY Zenon, EngineFields
<1>2. CASE n.mode \in {"Pending", "Unrecoverable"}
  <2>1. Ingest(n, c) = Result(PutRaw(n, c, "Retryable"), "Buffered")
      BY Zenon, <1>2 DEF Ingest
  <2>2. "Retryable" \in RawStates
      BY Zenon DEF RawStates
  <2>3. Keeps(me, n, PutRaw(n, c, "Retryable"))
      BY Zenon, <2>2, PutRawIn
  <2>. QED
      BY <2>1, <2>3, IdleIsEngine DEF Keeps, Result, Outcomes
<1>3. CASE n.mode \in {"Stable", "Recovering"} /\ ~Peelable(n, base[c])
    BY <1>3, PutRawIn, IdleIsEngine DEF Ingest, RawStates, Keeps, Result, Outcomes
<1>4. CASE n.mode \in {"Stable", "Recovering"} /\ Peelable(n, base[c])
    BY Zenon, <1>4, OpenedIn, IdleIsEngine DEF Idle, Ingest
<1>. QED
    BY Zenon, <1>1, <1>2, <1>3, <1>4 DEF Modes

-----------------------------------------------------------------------------
(* A convergence pass. *)

\* A client's rows of the commits of others are of published commits.
LEMMA RowsKnown ==
    ASSUME NEW me, NEW n \in Engines(me), NEW c \in Commits
    PROVE  /\ n.rows[c].st # "None" => c \in wire \/ Author[c] = me
           /\ n.rows[c].at \in Nat
BY Zenon, EngineFields DEF RowsOf, RowType

\* Filing the outcome keeps a client an engine.
LEMMA DisposeIn ==
    ASSUME NEW me, NEW n \in Engines(me), NEW won \in SUBSET wire, NEW lost,
           \A c \in lost : c \in wire \/ Author[c] = me
    PROVE  Keeps(me, n, Dispose(n, won, lost)) /\ Dispose(n, won, lost).path = n.path
<1>. DEFINE q(c) == CASE c \in won -> [n.rows[c] EXCEPT !.st = "Processed"]
                      [] c \in lost \ won -> [n.rows[c] EXCEPT !.st = "EpochInvalidated"]
                      [] OTHER -> n.rows[c]
            Q == [c \in Commits |-> q(c)]
<1>1. n.rows \in [Commits -> RowType]
    BY Zenon, EngineFields DEF RowsOf
<1>2. ASSUME NEW c \in Commits
      PROVE  q(c) \in RowType /\ (Author[c] # me /\ q(c).st # "None" => c \in wire)
    BY Zenon, <1>1, RowsKnown DEF RowType, RowStates
<1>3. Dispose(n, won, lost) = [n EXCEPT !.rows = Q]
    BY Zenon DEF Dispose, Engines
<1>. HIDE DEF q
<1>4. Q \in RowsOf(me)
    BY Zenon, <1>2 DEF RowsOf
<1>. HIDE DEF Q
<1>. QED
    BY Zenon, <1>3, <1>4 DEF Engines, Keeps

\* A commit that was not seen before gets its rows.
LEMMA UnknownIn ==
    ASSUME NEW old, NEW raw \in Seq(RawRows)
    PROVE  Unknown(old, raw) \in Seq(RawRows)
<1>. DEFINE N == Len(raw)
            A == Seq(RawRows)
            E(s, k) == IF HasRaw(old, raw[k].c) THEN s ELSE Append(s, raw[k])
            g == [p \in A \X (1 .. N) |-> E(p[1], p[2])]
            new[k \in 0 .. N] ==
                IF k = 0 THEN << >>
                ELSE IF HasRaw(old, raw[k].c) THEN new[k - 1] ELSE Append(new[k - 1], raw[k])
<1>1. N \in Nat /\ \A k \in 1 .. N : raw[k] \in RawRows
    OBVIOUS
<1>2. \A s \in A, k \in 1 .. N : E(s, k) \in A
    BY <1>1
<1>. HIDE DEF A, E
<1>3. g \in [A \X (1 .. N) -> A] /\ << >> \in A
    BY <1>2 DEF A
<1>4. PICK f : IsFold(f, N, A, << >>, g)
  <2>. HIDE DEF g, N, new
  <2>. QED
      BY ZenonT(30), <1>1, <1>3, FoldExists
<1>5. f = [k \in 0 .. N |-> IF k = 0 THEN << >> ELSE E(f[k - 1], k)]
    BY <1>1, <1>4 DEF IsFold
<1>6. new = [k \in 0 .. N |-> IF k = 0 THEN << >> ELSE E(new[k - 1], k)]
  <2>. HIDE DEF N
  <2>. QED
      BY ZenonT(30), <1>5 DEF E
<1>7. new[0] = << >> /\ \A k \in 1 .. N : new[k] = E(new[k - 1], k)
  <2>. HIDE DEF new
  <2>. QED
      BY <1>1, <1>6
<1>8. new[0] \in A /\ \A k \in 1 .. N : new[k - 1] \in A => new[k] \in A
    BY ZenonT(30), <1>2, <1>3, <1>7
<1>9. new[N] \in A
  <2>. HIDE DEF new, N
  <2>. QED
      BY Zenon, <1>1, <1>8, FoldKeeps
<1>10. Unknown(old, raw) = new[N]
    BY Zenon DEF Unknown
<1>. QED
    BY Zenon, <1>9, <1>10 DEF A

\* Putting a client back after a failure keeps it an engine.
LEMMA PutBackIn ==
    ASSUME NEW me, NEW old \in SavedBy(me), NEW n \in Engines(me)
    PROVE  PutBack(old, n) \in SavedBy(me) /\ PutBack(old, n).path = old.path
<1>. DEFINE R == [c \in Commits |-> IF n.rows[c].st = "None" THEN old.rows[c] ELSE n.rows[c]]
            one(i) == IF HasRaw(n.raw, old.raw[i].c)
                      THEN n.raw[CHOOSE j \in DOMAIN n.raw : n.raw[j].c = old.raw[i].c]
                      ELSE old.raw[i]
            M == [i \in DOMAIN old.raw |-> one(i)]
            U == Unknown(old.raw, n.raw)
<1>1. old.path \in Seq(wire) /\ old.rows \in RowsOf(me) /\ old.raw \in Seq(RawRows)
    BY Zenon DEF SavedBy
<1>2. n.rows \in RowsOf(me) /\ n.raw \in Seq(RawRows)
    BY Zenon, EngineFields
<1>3. R \in RowsOf(me)
    BY Zenon, <1>1, <1>2 DEF RowsOf
<1>4. ASSUME NEW i \in DOMAIN old.raw PROVE one(i) \in RawRows
    BY <1>2, <1>1 DEF HasRaw
<1>5. PutBack(old, n) = [path |-> old.path, rows |-> R, raw |-> M \o U]
    BY Zenon DEF PutBack
<1>. HIDE DEF one
<1>6. M \in [DOMAIN old.raw -> RawRows]
    BY Zenon, <1>4
<1>. HIDE DEF M, R
<1>7. M \in Seq(RawRows)
    BY ZenonT(30), <1>1, <1>6, MapIsSeq
<1>8. U \in Seq(RawRows)
    BY Zenon, <1>2, UnknownIn
<1>. HIDE DEF U
<1>9. M \o U \in Seq(RawRows)
    BY <1>7, <1>8
<1>. HIDE DEF RawRows
<1>. QED
    BY <1>1, <1>3, <1>5, <1>9 DEF SavedBy

\* What to replay from, or a state that is none of the group's.
LEMMA ApplyFromIn ==
    ASSUME NEW me, NEW n \in Engines(me), NEW at
    PROVE  ApplyFrom(n, at) \in SavedBy(me) \/ ApplyFrom(n, at).path = << None >>
BY SaveIn, EngineFields, PutBackIn DEF AnchorsOf, ApplyFrom

\* The rest of a path is over the same commits.
LEMMA SuffixIn ==
    ASSUME Published, NEW w \in wire, NEW start \in Seq(wire)
    PROVE  Suffix(w, start) \in SUBSET wire
BY SMTT(30), WireFacts DEF Suffix

\* Applying a path keeps a client an engine.
LEMMA ApplyPathIn ==
    ASSUME Published, NEW me, NEW n \in Idle(me), NEW w \in wire, NEW start \in Seq(wire),
           NEW live, live \in SavedBy(me) \/ live.path = << None >>,
           NEW lost, \A c \in lost : c \in wire \/ Author[c] = me
    PROVE  /\ ApplyPath(n, live, start, w, lost).n \in Idle(me)
           /\ ApplyPath(n, live, start, w, lost).out \in {"Error", "Settled"}
<1>1. CASE live.path # start
    BY Zenon, <1>1 DEF ApplyPath, Result
<1>2. CASE live.path = start
  <2>. DEFINE r == Restore(n, live)
              d == Dispose(r, Suffix(w, start), lost)
              m == [d EXCEPT !.path = Branch(w), !.mode = "Stable"]
  <2>1. live \in SavedBy(me)
    <3>1. start # << None >>
      <4>1. None \notin wire
          BY ZenonT(30), ConvergenceAssumption DEF Published
      <4>. QED
          BY <4>1
    <3>. QED
        BY Zenon, <1>2, <3>1
  <2>2. r \in Idle(me)
      BY Zenon, <2>1, RestoreIn, IdleIsEngine
  <2>. HIDE DEF r
  <2>3. d \in Idle(me)
      BY Zenon, <2>2, SuffixIn, DisposeIn, IdleIsEngine
  <2>. HIDE DEF d
  <2>4. Branch(w) \in Seq(wire) /\ "Stable" \in Modes
      BY Zenon, WireFacts DEF Modes
  <2>5. m \in Idle(me)
      BY ZenonT(30), <2>3, <2>4 DEF Idle, Engines
  <2>. HIDE DEF m
  <2>6. Retain(m) \in Idle(me)
      BY Zenon, <2>5, RetainIn, IdleIsEngine
  <2>7. ApplyPath(n, live, start, w, lost) = Result(Retain(m), "Settled")
      BY Zenon, <1>2 DEF ApplyPath, m, d, r
  <2>. QED
      BY <2>6, <2>7 DEF Result
<1>. QED
    BY Zenon, <1>1, <1>2

\* Commits dismissed as stale are known.
LEMMA StaleKnown ==
    ASSUME Published, NEW me, NEW n \in Engines(me), NEW c \in Stale(n)
    PROVE  c \in wire \/ Author[c] = me
BY Zenon, RowsKnown DEF Stale, Open, Published

\* The selected branch is one of the candidates.
LEMMA SelectIn ==
    ASSUME Published, NEW me, NEW n \in Idle(me), NEW w \in wire, NEW start \in Seq(wire),
           NEW all \in SUBSET wire, NEW at
    PROVE  /\ Select(n, start, w, all, at).n \in Idle(me)
           /\ Select(n, start, w, all, at).out \in {"Error", "Settled"}
BY RetainIn, IdleIsEngine, SuffixIn, StaleKnown, ApplyFromIn, ApplyPathIn DEF Select

\* A pass replays published commits of others only.
LEMMA ReplayableInWire ==
    ASSUME Published, NEW me, NEW n \in Engines(me), NEW late
    PROVE  Replayable(me, n, late) \in SUBSET wire
BY Zenon, RowsKnown DEF Replayable, Published

\* Candidates have scores that can be compared.
LEMMA CandidateScores ==
    ASSUME Published, NEW c \in wire, NEW start \in Seq(wire)
    PROVE  Score(Candidate(c, start)) \in Scores
<1>. DEFINE k == Candidate(c, start)
<1>1. Len(start) \in Nat /\ Len(Branch(c)) \in Nat /\ c \in Int
  <2>1. c \in Commits /\ Branch(c) \in Seq(wire)
      BY Zenon, WireFacts
  <2>. QED
      BY <2>1, ConvergenceAssumption
<1>2. /\ k.fork \in Nat /\ k.tip \in Nat /\ k.priority = 0 /\ k.committer = 0
      /\ k.digest \in Int /\ k.witnesses = {}
    BY Zenon, <1>1 DEF Candidate
<1>. HIDE DEF k
<1>3. Depth(k) \in Int
    BY <1>2 DEF Depth, Minus
<1>4. Boost(k.witnesses) \in Int
    BY PolicyAssumption DEF Boost
<1>5. WitnessScore(k.witnesses) \in Int
    BY FS_EmptySet, WitnessScoreNat, <1>2
<1>6. Score(k) \in Scores
  <2>. DEFINE a == Depth(k) + Boost(k.witnesses)
              b == IF QuorumMet(k.witnesses) THEN 1 ELSE 0
              d == Depth(k)
              e == WitnessScore(k.witnesses)
              p == 0 - k.priority
              q == 0 - k.committer
              r == 0 - k.digest
  <2>1. a \in Int /\ b \in Int /\ d \in Int /\ e \in Int /\ p \in Int /\ q \in Int /\ r \in Int
      BY SMTT(30), <1>2, <1>3, <1>4, <1>5
  <2>2. Score(k) = << a, b, d, e, p, q, r >>
      BY Zenon DEF Score
  <2>. HIDE DEF a, b, d, e, p, q, r
  <2>. QED
      BY <2>1, <2>2 DEF Scores
<1>. QED
    BY Zenon, <1>6 DEF k

\* The branch that is selected is one of the candidates.
LEMMA ChooseIn ==
    ASSUME Published, NEW me, NEW n \in Idle(me), NEW start \in Seq(wire),
           NEW all \in SUBSET wire
    PROVE  /\ Choose(n, start, all).n \in Idle(me)
           /\ Choose(n, start, all).out \in {"Error", "Settled"}
<1>. DEFINE C == {Candidate(d, start) : d \in all}
            tip == Len(n.path)
            w == CHOOSE c \in all : Candidate(c, start) \in Selected(tip, C)
<1>1. CASE \E c \in all : Eligible(tip, Candidate(c, start))
  <2>1. IsFiniteSet(C)
    <3>1. IsFiniteSet(all)
        BY Zenon, FS_Subset DEF Published
    <3>. DEFINE f == [d \in all |-> Candidate(d, start)]
    <3>2. f \in Surjection(all, C)
        BY Zenon DEF Surjection
    <3>. QED
        BY Zenon, <3>1, <3>2, FS_Surjection
  <2>2. \A k \in C : Score(k) \in Scores
      BY Zenon, CandidateScores
  <2>3. \E k \in C : Eligible(tip, k)
      BY Zenon, <1>1
  <2>4. PICK k : k \in Selected(tip, C)
    <3>. HIDE DEF C, tip, w
    <3>1. Selected(tip, C) # {}
        BY ZenonT(30), <2>1, <2>2, <2>3, SelectedExists
    <3>. QED
        BY Zenon, <3>1
  <2>5. k \in C
      BY Zenon, <2>4 DEF Selected
  <2>6. \E c \in all : Candidate(c, start) \in Selected(tip, C)
      BY ZenonT(30), <2>4, <2>5
  <2>7. w \in all
    <3>. HIDE DEF C, tip
    <3>. QED
        BY ZenonT(30), <2>6
  <2>8. Choose(n, start, all) = Select(n, start, w, all, n.rows[First(w, start)].at)
      BY Zenon, <1>1 DEF Choose
  <2>. HIDE DEF w
  <2>. QED
      BY SMTT(30), <2>7, <2>8, SelectIn
<1>2. CASE ~ \E c \in all : Eligible(tip, Candidate(c, start))
    BY <1>2, StaleKnown, IdleIsEngine, DisposeIn DEF Choose, Result
<1>. QED
    BY Zenon, <1>1, <1>2

\* Converging from an anchor keeps a client an engine.
LEMMA ConvergeFromIn ==
    ASSUME Published, NEW me, NEW n \in Idle(me), NEW late, NEW start \in Seq(wire)
    PROVE  /\ ConvergeFrom(me, n, late, start).n \in Idle(me)
           /\ ConvergeFrom(me, n, late, start).out \in {"Error", "Settled"}
BY Zenon, ReplayableInWire, IdleIsEngine, ChooseIn DEF Maximal, Reached, ConvergeFrom

\* So does convergence as a whole.
LEMMA ConvergeIn ==
    ASSUME Published, NEW me, NEW n \in Idle(me)
    PROVE  Converge(me, n).n \in Idle(me)
<1>1. ASSUME NEW late PROVE ConvergeWith(me, n, late).n \in Idle(me)
  <2>1. n.path \in Seq(wire)
      BY Zenon, EngineFields, IdleIsEngine
  <2>2. ConvergeFrom(me, n, late, n.path).n \in Idle(me)
      BY Zenon, <2>1, ConvergeFromIn
  <2>3. ASSUME NEW from PROVE ConvergeLate(me, n, late, from).n \in Idle(me)
    <3>1. CASE from \in DOMAIN n.anchors
        BY <3>1, EngineFields, IdleIsEngine, ConvergeFromIn DEF AnchorsOf, SavedBy,
           ConvergeLate
    <3>2. CASE from \notin DOMAIN n.anchors
        BY Zenon, <3>2 DEF Modes, Idle, Engines, ConvergeLate, Result
    <3>. QED
        BY Zenon, <3>1, <3>2
  <2>. QED
      BY Zenon, <2>2, <2>3 DEF ConvergeWith
<1>. QED
    BY Zenon, <1>1 DEF Converge, Result

-----------------------------------------------------------------------------
(* The retries of stored messages. *)

\* What retrying leaves behind.
RetriedBy(me) == [n : Idle(me), progress : BOOLEAN, failed : BOOLEAN]

\* What replaying leaves behind.
ReplayedBy(me) == [n : Idle(me), failed : BOOLEAN]

\* Changing a raw row leaves a client idle.
LEMMA SetRawIdle ==
    ASSUME NEW me, NEW n \in Idle(me), NEW c
    PROVE  \A st \in RawStates : SetRaw(n, c, st) \in Idle(me)
BY Zenon, SetRawIn, IdleIsEngine

\* A retried row ends in one of the outcomes.
LEMMA AfterRetryIn ==
    ASSUME NEW me, NEW progress \in BOOLEAN, NEW c, NEW i,
           i.n \in Idle(me), i.out \in Outcomes
    PROVE  AfterRetry(progress, c, i) \in RetriedBy(me)
BY Zenon, SetRawIdle DEF RawStates, Retried, RetriedBy, AfterRetry, Outcomes

\* Retrying one row keeps a client idle.
LEMMA RetryOneIn ==
    ASSUME Published, NEW me, NEW acc \in RetriedBy(me), NEW r \in RawRows
    PROVE  RetryOne(acc, r) \in RetriedBy(me)
BY Zenon, IngestIn, IdleIsEngine, AfterRetryIn DEF RetriedBy, RawRows, RetryOne

\* A replayed row ends in one of the outcomes.
LEMMA AfterReplayIn ==
    ASSUME NEW me, NEW c, NEW i, i.n \in Idle(me), i.out \in Outcomes
    PROVE  AfterReplay(c, i) \in ReplayedBy(me)
BY Zenon, SetRawIdle DEF RawStates, ReplayedBy, AfterReplay, Outcomes

\* Replaying one row keeps a client idle.
LEMMA ReplayOneIn ==
    ASSUME Published, NEW me, NEW acc \in ReplayedBy(me), NEW r \in RawRows
    PROVE  ReplayOne(acc, r) \in ReplayedBy(me)
BY Zenon, IngestIn, IdleIsEngine, AfterReplayIn DEF ReplayedBy, RawRows, ReplayOne

\* retry_deferred_peels.
LEMMA RetryDeferredIn ==
    ASSUME Published, NEW me, NEW n \in Idle(me)
    PROVE  RetryDeferred(n) \in RetriedBy(me)
<1>. DEFINE N == Len(n.raw)
            A == RetriedBy(me)
            a == Retried(n, FALSE, FALSE)
            g == [p \in A \X (1 .. N) |-> RetryOne(p[1], n.raw[p[2]])]
            acc[k \in 0 .. N] == IF k = 0 THEN a ELSE RetryOne(acc[k - 1], n.raw[k])
<1>1. N \in Nat /\ \A k \in 1 .. N : n.raw[k] \in RawRows
    BY EngineFields, IdleIsEngine
<1>2. \A s \in A, k \in 1 .. N : RetryOne(s, n.raw[k]) \in A
    BY Zenon, <1>1, RetryOneIn
<1>3. a \in A
    BY Zenon DEF Retried, RetriedBy
<1>4. RetryDeferred(n) = acc[N]
    BY Zenon DEF RetryDeferred
<1>. HIDE DEF A, a, N
<1>5. g \in [A \X (1 .. N) -> A]
    BY Zenon, <1>2
<1>6. PICK f : IsFold(f, N, A, a, g)
  <2>. HIDE DEF g, acc
  <2>. QED
      BY ZenonT(30), <1>1, <1>3, <1>5, FoldExists
<1>7. f = [k \in 0 .. N |-> IF k = 0 THEN a ELSE RetryOne(f[k - 1], n.raw[k])]
  <2>1. ASSUME NEW k \in 1 .. N PROVE f[k] = RetryOne(f[k - 1], n.raw[k])
    <3>1. << f[k - 1], k >> \in A \X (1 .. N)
        BY <1>1, <1>6 DEF IsFold
    <3>2. g[<< f[k - 1], k >>] = RetryOne(f[k - 1], n.raw[k])
        BY Zenon, <3>1
    <3>. QED
        BY ZenonT(30), <1>6, <3>2 DEF IsFold
  <2>2. \A k \in 0 .. N : k # 0 => k \in 1 .. N
      BY <1>1
  <2>. HIDE DEF g
  <2>. QED
      BY Zenon, <1>6, <2>1, <2>2 DEF IsFold
<1>8. acc = [k \in 0 .. N |-> IF k = 0 THEN a ELSE RetryOne(acc[k - 1], n.raw[k])]
    BY ZenonT(30), <1>7
<1>. HIDE DEF acc
<1>9. acc[0] = a /\ \A k \in 1 .. N : acc[k] = RetryOne(acc[k - 1], n.raw[k])
    BY SMTT(30), <1>1, <1>8
<1>10. acc[0] \in A /\ \A k \in 1 .. N : acc[k - 1] \in A => acc[k] \in A
    BY ZenonT(30), <1>2, <1>3, <1>9
<1>11. acc[N] \in A
    BY ZenonT(30), <1>1, <1>10, FoldKeeps
<1>. QED
    BY Zenon, <1>4, <1>11 DEF A

\* replay_buffered_messages.
LEMMA ReplayIn ==
    ASSUME Published, NEW me, NEW n \in Idle(me)
    PROVE  Replay(n) \in Idle(me)
<1>. DEFINE N == Len(n.raw)
            A == ReplayedBy(me)
            a == [n |-> n, failed |-> FALSE]
            g == [p \in A \X (1 .. N) |-> ReplayOne(p[1], n.raw[p[2]])]
            acc[k \in 0 .. N] == IF k = 0 THEN a ELSE ReplayOne(acc[k - 1], n.raw[k])
<1>1. N \in Nat /\ \A k \in 1 .. N : n.raw[k] \in RawRows
    BY EngineFields, IdleIsEngine
<1>2. \A s \in A, k \in 1 .. N : ReplayOne(s, n.raw[k]) \in A
    BY Zenon, <1>1, ReplayOneIn
<1>3. a \in A
    BY Zenon DEF ReplayedBy
<1>4. Replay(n) = acc[N].n
    BY Zenon DEF Replay
<1>. HIDE DEF A, a, N
<1>5. g \in [A \X (1 .. N) -> A]
    BY Zenon, <1>2
<1>6. PICK f : IsFold(f, N, A, a, g)
    BY ZenonT(30), <1>1, <1>3, <1>5, FoldExists
<1>7. f = [k \in 0 .. N |-> IF k = 0 THEN a ELSE ReplayOne(f[k - 1], n.raw[k])]
  <2>1. ASSUME NEW k \in 1 .. N PROVE f[k] = ReplayOne(f[k - 1], n.raw[k])
    <3>1. << f[k - 1], k >> \in A \X (1 .. N)
        BY <1>1, <1>6 DEF IsFold
    <3>2. g[<< f[k - 1], k >>] = ReplayOne(f[k - 1], n.raw[k])
        BY Zenon, <3>1
    <3>. QED
        BY ZenonT(30), <1>6, <3>2 DEF IsFold
  <2>2. \A k \in 0 .. N : k # 0 => k \in 1 .. N
      BY <1>1
  <2>. HIDE DEF g
  <2>. QED
      BY Zenon, <1>6, <2>1, <2>2 DEF IsFold
<1>8. acc = [k \in 0 .. N |-> IF k = 0 THEN a ELSE ReplayOne(acc[k - 1], n.raw[k])]
    BY ZenonT(30), <1>7
<1>. HIDE DEF acc
<1>9. acc[0] = a /\ \A k \in 1 .. N : acc[k] = ReplayOne(acc[k - 1], n.raw[k])
    BY SMTT(30), <1>1, <1>8
<1>10. acc[0] \in A /\ \A k \in 1 .. N : acc[k - 1] \in A => acc[k] \in A
    BY ZenonT(30), <1>2, <1>3, <1>9
<1>11. acc[N] \in A
    BY Zenon, <1>1, <1>10, FoldKeeps
<1>. QED
    BY SMTT(30), <1>4, <1>11 DEF A, ReplayedBy

\* advance_convergence_inputs_until_settled.
PassedBy(me) == [n : Idle(me), more : BOOLEAN, settled : BOOLEAN]

\* A pass over the rows keeps a client idle.
LEMMA PassIn ==
    ASSUME Published, NEW me, NEW a \in PassedBy(me)
    PROVE  Pass(me, a) \in PassedBy(me)
BY Zenon, RetryDeferredIn, ConvergeIn DEF Passed, PassedBy, RetriedBy, AfterRetries,
   AfterConverge, Result, Pass

\* Passes until nothing moves keep a client idle.
LEMMA AdvanceNodeIn ==
    ASSUME Published, NEW me, NEW n \in Idle(me)
    PROVE  AdvanceNode(me, n) \in PassedBy(me)
<1>. DEFINE A == PassedBy(me)
            a == Passed(n, TRUE, FALSE)
            g == [p \in A \X (1 .. MaxPasses) |-> Pass(me, p[1])]
            passes[k \in 0 .. MaxPasses] == IF k = 0 THEN a ELSE Pass(me, passes[k - 1])
<1>1. MaxPasses \in Nat
    BY Zenon, ConvergenceAssumption
<1>2. \A s \in A : Pass(me, s) \in A
    BY Zenon, PassIn
<1>3. a \in A
    BY Zenon DEF Passed, PassedBy
<1>4. AdvanceNode(me, n) = passes[MaxPasses]
    BY Zenon DEF AdvanceNode
<1>. HIDE DEF A, a
<1>5. g \in [A \X (1 .. MaxPasses) -> A]
    BY Zenon, <1>2
<1>6. PICK f : IsFold(f, MaxPasses, A, a, g)
  <2>. HIDE DEF g, passes
  <2>. QED
      BY ZenonT(30), <1>1, <1>3, <1>5, FoldExists
<1>7. f = [k \in 0 .. MaxPasses |-> IF k = 0 THEN a ELSE Pass(me, f[k - 1])]
  <2>1. ASSUME NEW k \in 1 .. MaxPasses PROVE f[k] = Pass(me, f[k - 1])
    <3>1. << f[k - 1], k >> \in A \X (1 .. MaxPasses)
        BY SMTT(30), <1>1, <1>6 DEF IsFold
    <3>2. g[<< f[k - 1], k >>] = Pass(me, f[k - 1])
        BY Zenon, <3>1
    <3>. QED
        BY ZenonT(30), <1>6, <3>2 DEF IsFold
  <2>2. \A k \in 0 .. MaxPasses : k # 0 => k \in 1 .. MaxPasses
      BY <1>1
  <2>. HIDE DEF g
  <2>. QED
      BY Zenon, <1>6, <2>1, <2>2 DEF IsFold
<1>8. passes = [k \in 0 .. MaxPasses |-> IF k = 0 THEN a ELSE Pass(me, passes[k - 1])]
    BY ZenonT(30), <1>7
<1>. HIDE DEF passes
<1>9. passes[0] = a /\ \A k \in 1 .. MaxPasses : passes[k] = Pass(me, passes[k - 1])
    BY SMTT(30), <1>1, <1>8
<1>10. passes[0] \in A /\ \A k \in 1 .. MaxPasses : passes[k - 1] \in A => passes[k] \in A
    BY ZenonT(30), <1>2, <1>3, <1>9
<1>11. passes[MaxPasses] \in A
    BY Zenon, <1>1, <1>10, FoldKeeps
<1>. QED
    BY Zenon, <1>4, <1>11 DEF A

-----------------------------------------------------------------------------
(* The steps. *)

\* What is sound stays so when more commits are made and published.
LEMMA EnginesGrow ==
    ASSUME Published, wire \subseteq wire', Made \subseteq Made',
           \A c \in Made : base'[c] = base[c], NEW me
    PROVE  /\ Seq(wire) \subseteq Seq(wire') /\ SavedBy(me) \subseteq SavedBy(me)'
           /\ Engines(me) \subseteq Engines(me)'
<1>1. Seq(wire) \subseteq Seq(wire')
    OBVIOUS
<1>2. RowsOf(me) \subseteq RowsOf(me)'
    BY Zenon DEF RowsOf
<1>3. Seq(RawRows) \subseteq Seq(RawRows')
  <2>1. RawRows \subseteq RawRows'
      BY Zenon DEF RawRows
  <2>. QED
      BY SMTT(30), <2>1
<1>4. SavedBy(me) \subseteq SavedBy(me)'
    BY Zenon, <1>1, <1>2, <1>3 DEF SavedBy
<1>5. AnchorsOf(me) \subseteq AnchorsOf(me)'
    BY <1>4 DEF AnchorsOf
<1>6. Wins(me) \subseteq Wins(me)'
    BY Zenon, <1>4 DEF Wins, Published
<1>7. WinsOf(me) \subseteq WinsOf(me)'
    BY <1>6 DEF WinsOf
<1>8. PendingOf(me) \subseteq PendingOf(me)'
    BY Zenon, <1>4 DEF PendingOf
<1>9. Engines(me) \subseteq Engines(me)'
    BY Zenon, <1>1, <1>2, <1>3, <1>5, <1>7, <1>8 DEF Engines, Modes
<1>. QED
    BY Zenon, <1>1, <1>4, <1>9

\* A step of one client that makes and publishes nothing.
LEMMA NodeStep ==
    ASSUME ConvInv, UNCHANGED << base, wire >>, NEW cl \in Clients, NEW m \in Engines(cl),
           node' = [node EXCEPT ![cl] = m], got' \in [Clients -> SUBSET wire]
    PROVE  ConvInv'
BY Zenon, EnginesGrow DEF ConvInv, Published, Made

\* Dropping the staged commit keeps a client an engine.
LEMMA UnpendIn ==
    ASSUME NEW me, NEW n \in Engines(me)
    PROVE  Unpend(n) \in Idle(me)
<1>1. [commit |-> None] \in PendingOf(me) /\ "Stable" \in Modes
    BY Zenon DEF PendingOf, Modes
<1>. QED
    BY ZenonT(30), <1>1 DEF Unpend, Idle, Engines

\* A commit of the client's own becomes part of its state.
LEMMA MergedIn ==
    ASSUME Published, NEW me, NEW n \in Engines(me), NEW c \in wire
    PROVE  Retain(SetRow([Retain(n) EXCEPT !.path = Branch(c)], c, "Processed")) \in Engines(me)
<1>. DEFINE r == Retain(n)
            s == [r EXCEPT !.path = Branch(c)]
            t == SetRow(s, c, "Processed")
<1>1. r \in Engines(me)
    BY Zenon, RetainIn DEF Keeps
<1>2. Branch(c) \in Seq(wire) /\ c \in Commits /\ "Processed" \in RowStates
    BY Zenon, WireFacts DEF RowStates
<1>. HIDE DEF r
<1>3. s \in Engines(me)
    BY ZenonT(30), <1>1, <1>2 DEF Engines
<1>. HIDE DEF s
<1>4. t \in Engines(me)
    BY Zenon, <1>2, <1>3, SetRowIn DEF Keeps
<1>. HIDE DEF t
<1>5. Retain(t) \in Engines(me)
    BY Zenon, <1>4, RetainIn DEF Keeps
<1>. QED
    BY Zenon, <1>5 DEF t, s, r

\* A confirmed commit is on the wire before it is merged.
LEMMA ConfirmKeeps ==
    ASSUME ConvInv, NEW cl \in Clients, Confirm(cl) PROVE ConvInv'
<1>. DEFINE n == node[cl]
            c == n.pending.commit
            merged == Retain(SetRow([Retain(n) EXCEPT !.path = Branch(c)], c, "Processed"))
            u == Unpend(merged)
            i == Incumbent(u, Source(c), c, n.pending.snap)
            p == Prune(i)
<1>1. Published /\ n \in Engines(cl) /\ c \in wire /\ n.mode = "Pending"
    BY Zenon DEF ConvInv, Confirm
<1>2. n.pending.snap \in SavedBy(cl) /\ n.pending.snap.path = base[c]
    BY Zenon, <1>1, EngineFields DEF PendingOf
<1>3. node' = [node EXCEPT ![cl] = Replay(p)] /\ UNCHANGED << base, wire, got >>
    BY Zenon DEF Confirm
<1>4. merged \in Engines(cl) /\ Source(c) \in Nat
    BY Zenon, <1>1, MergedIn, WireFacts
<1>. HIDE DEF merged, n, c
<1>5. u \in Idle(cl)
    BY Zenon, <1>4, UnpendIn
<1>. HIDE DEF u
<1>6. i \in Idle(cl)
    BY Zenon, <1>1, <1>2, <1>4, <1>5, IncumbentIn, IdleIsEngine
<1>. HIDE DEF i
<1>7. p \in Idle(cl)
    BY Zenon, <1>6, PruneIn, IdleIsEngine
<1>. HIDE DEF p
<1>8. Replay(p) \in Engines(cl)
    BY Zenon, <1>1, <1>7, ReplayIn, IdleIsEngine
<1>9. got' \in [Clients -> SUBSET wire]
    BY Zenon, <1>3 DEF ConvInv
<1>. QED
    BY ZenonT(30), <1>3, <1>8, <1>9, NodeStep

\* A failed publish drops the staged commit.
LEMMA FailKeeps ==
    ASSUME ConvInv, NEW cl \in Clients, Fail(cl) PROVE ConvInv'
BY Zenon, UnpendIn, ReplayIn, IdleIsEngine, NodeStep DEF ConvInv, Fail

\* A delivery changes the one client.
LEMMA DeliverKeeps ==
    ASSUME ConvInv, NEW cl \in Clients, NEW c \in Commits, Deliver(cl, c) PROVE ConvInv'
<1>. DEFINE n == node[cl]
            m == IF \E i \in DOMAIN n.raw : n.raw[i].c = c /\ n.raw[i].st # "PeelDeferred"
                 THEN n ELSE Ingest(n, c).n
<1>1. Published /\ n \in Engines(cl) /\ c \in wire /\ UNCHANGED << base, wire >>
    BY Zenon DEF ConvInv, Deliver
<1>2. m \in Engines(cl)
    BY Zenon, <1>1, IngestIn
<1>3. node' = [node EXCEPT ![cl] = m]
  <2>1. node = [node EXCEPT ![cl] = n]
      BY Zenon DEF ConvInv
  <2>2. CASE \E i \in DOMAIN n.raw : n.raw[i].c = c /\ n.raw[i].st # "PeelDeferred"
      BY Zenon, <2>1, <2>2 DEF Deliver
  <2>3. CASE ~ \E i \in DOMAIN n.raw : n.raw[i].c = c /\ n.raw[i].st # "PeelDeferred"
      BY Zenon, <2>3 DEF Deliver
  <2>. QED
      BY Zenon, <2>2, <2>3
<1>4. got' \in [Clients -> SUBSET wire]
    BY Zenon, <1>1 DEF Deliver, ConvInv
<1>. HIDE DEF m
<1>. QED
    BY ZenonT(30), <1>1, <1>2, <1>3, <1>4, NodeStep

\* Convergence changes the one client.
LEMMA AdvanceKeeps ==
    ASSUME ConvInv, NEW cl \in Clients, Advance(cl) PROVE ConvInv'
BY AdvanceNodeIn, IdleIsEngine, NodeStep DEF ConvInv, Advance, Idle, PassedBy

\* A restart keeps what is stored.
LEMMA RestartKeeps ==
    ASSUME ConvInv, NEW cl \in Clients, Restart(cl) PROVE ConvInv'
<1>. DEFINE u == Unpend(node[cl])
            m == [u EXCEPT !.wins = NoEntries, !.from = {}]
<1>1. u \in Engines(cl)
    BY Zenon, UnpendIn, IdleIsEngine DEF ConvInv
<1>2. NoEntries \in WinsOf(cl)
    BY DEF NoEntries, WinsOf
<1>3. node' = [node EXCEPT ![cl] = m] /\ UNCHANGED << base, wire >>
    BY Zenon DEF Restart, ConvInv
<1>. HIDE DEF u
<1>4. m \in Engines(cl)
    BY ZenonT(30), <1>1, <1>2 DEF Engines
<1>5. got' \in [Clients -> SUBSET wire]
    BY Zenon DEF Restart, ConvInv
<1>. HIDE DEF m
<1>. QED
    BY ZenonT(30), <1>3, <1>4, <1>5, NodeStep

\* The wire only grows.
LEMMA PublishKeeps ==
    ASSUME ConvInv, NEW cl \in Clients, Publish(cl) PROVE ConvInv'
BY EngineFields, EnginesGrow DEF ConvInv, Publish, PendingOf, Made, Published

\* Staging puts nothing on the wire.
LEMMA StageKeeps ==
    ASSUME ConvInv, NEW c \in Commits, Stage(c) PROVE ConvInv'
<1>. DEFINE cl == Author[c]
            a == AdvanceNode(cl, node[cl])
            q == PutRow(a.n, c, "Sent", Len(a.n.path))
            pend == [commit |-> c, snap |-> Save(a.n)]
            m == Staged(a.n, c)
<1>1. cl \in Clients /\ c # None /\ c \notin Made
    BY Zenon, ConvergenceAssumption DEF Stage
<1>2. Published /\ node[cl] \in Idle(cl)
    BY Zenon, <1>1 DEF ConvInv, Stage, Idle
<1>3. /\ node' = [node EXCEPT ![cl] = m]
      /\ base' = [d \in Made \union {c} |-> IF d = c THEN a.n.path ELSE base[d]]
      /\ UNCHANGED << wire, got >>
    BY Zenon DEF Stage, StageIn
<1>4. a.n \in Engines(cl)
    BY Zenon, <1>1, <1>2, AdvanceNodeIn, IdleIsEngine DEF PassedBy
<1>5. m = [q EXCEPT !.mode = "Pending", !.from = @ \union {Len(a.n.path)}, !.pending = pend]
    BY Zenon DEF Staged
<1>. HIDE DEF cl, a, m
<1>6. a.n.path \in Seq(wire) /\ Len(a.n.path) \in Nat /\ "Sent" \in RowStates
    BY Zenon, <1>4, EngineFields DEF RowStates
<1>7. q \in Engines(cl)
    BY Zenon, <1>4, <1>6, PutRowIn DEF Keeps, cl
<1>8. /\ Made' = Made \union {c} /\ base'[c] = a.n.path
      /\ \A d \in Made : base'[d] = base[d]
    BY Zenon, <1>1, <1>3 DEF Made
<1>9. wire' = wire /\ Made \subseteq Made'
    BY Zenon, <1>3, <1>8
<1>10. Published'
    BY <1>2, <1>8, FS_AddElement, <1>9, <1>3, <1>6 DEF Published
<1>11. ASSUME NEW d \in Clients
       PROVE  SavedBy(d) \subseteq SavedBy(d)' /\ Engines(d) \subseteq Engines(d)'
    BY ZenonT(30), <1>2, <1>8, <1>9, EnginesGrow
<1>12. pend \in PendingOf(cl)' /\ pend.commit # None
    BY Zenon, <1>4, <1>8, SaveIn, <1>1, <1>11 DEF PendingOf
<1>. HIDE DEF q, pend
<1>13. m \in Engines(cl)'
  <2>1. q \in Engines(cl)'
      BY Zenon, <1>1, <1>7, <1>11
  <2>. DEFINE F == q.from \union {Len(a.n.path)}
  <2>2. "Pending" \in Modes /\ F \in SUBSET Nat
      BY Zenon, <1>6, <1>7, EngineFields DEF Modes
  <2>3. m = [q EXCEPT !.mode = "Pending", !.from = F, !.pending = pend]
      BY Zenon, <1>5, <1>7 DEF Engines
  <2>. HIDE DEF F
  <2>. QED
      BY ZenonT(30), <1>12, <2>1, <2>2, <2>3 DEF Engines, Modes
<1>14. node' = [d \in Clients |-> node'[d]] /\ \A d \in Clients : node'[d] \in Engines(d)'
    BY Zenon, <1>3, <1>11, <1>13 DEF ConvInv
<1>15. got' \in [Clients -> SUBSET wire']
    BY Zenon, <1>3 DEF ConvInv
<1>. QED
    BY Zenon, <1>10, <1>14, <1>15 DEF ConvInv

-----------------------------------------------------------------------------
(* Theorems. *)

\* Clients at the base satisfy the invariant.
LEMMA InitSound == Init => ConvInv
<1>. SUFFICES ASSUME Init PROVE ConvInv
    BY Zenon
<1>1. wire = {} /\ base = NoEntries /\ Made = {} /\ DOMAIN NoEntries = {}
    BY Zenon DEF Init, Made, NoEntries
<1>2. Published
    BY Zenon, <1>1, FS_EmptySet DEF NoEntries, Published
<1>3. ASSUME NEW cl \in Clients PROVE Fresh \in Engines(cl)
  <2>1. NoEntries \in WinsOf(cl)
    <3>1. NoEntries \in [{} -> Wins(cl)]
        BY Zenon DEF NoEntries
    <3>. QED
        BY ZenonT(30), <1>1, <3>1 DEF WinsOf
  <2>2. NoEntries \in AnchorsOf(cl)
    <3>1. NoEntries \in [{} -> SavedBy(cl)]
        BY Zenon DEF NoEntries
    <3>. QED
        BY ZenonT(30), <1>1, <3>1 DEF AnchorsOf
  <2>3. [c \in Commits |-> NoRow] \in RowsOf(cl)
      BY Zenon DEF RowsOf, RowType, RowStates, NoRow
  <2>4. [commit |-> None] \in PendingOf(cl) /\ "Stable" \in Modes
      BY Zenon DEF PendingOf, Modes
  <2>5. << >> \in Seq(wire) /\ << >> \in Seq(RawRows) /\ {} \in SUBSET Nat
      OBVIOUS
  <2>. HIDE DEF NoEntries
  <2>. QED
      BY SMTT(30), <2>1, <2>2, <2>3, <2>4, <2>5 DEF Fresh, Engines
<1>4. node = [cl \in Clients |-> Fresh] /\ got \in [Clients -> SUBSET wire]
    BY Zenon DEF Init
<1>. HIDE DEF Fresh
<1>5. node = [cl \in Clients |-> node[cl]] /\ \A cl \in Clients : node[cl] \in Engines(cl)
    BY Zenon, <1>3, <1>4
<1>. QED
    BY Zenon, <1>2, <1>4, <1>5 DEF ConvInv

\* Every step keeps the invariant.
LEMMA StepSound == ConvInv /\ [Next]_vars => ConvInv'
BY EnginesGrow, StageKeeps, PublishKeeps, ConfirmKeeps, FailKeeps, AdvanceKeeps,
   RestartKeeps, DeliverKeeps DEF vars, ConvInv, Published, Made, Next

\* The inductive invariant: every engine, with all the states it keeps, knows
\* of the commits of others only what relays hold.
THEOREM ConvInvariance == Spec => []ConvInv
BY InitSound, StepSound, PTL DEF Spec

\* Saved snapshots have the type of a group.
LEMMA SavedTyped ==
    ASSUME Published, NEW me, NEW s, s.path \in Seq(wire), s.rows \in RowsOf(me),
           s.raw \in Seq(RawRows)
    PROVE  IsSaved(s)
<1>1. s.path \in Seq(Commits)
    BY DEF Published
<1>2. s.rows \in [Commits -> RowType]
    BY Zenon DEF RowsOf
<1>3. \A r \in RawRows : IsRaw(r)
    BY Zenon DEF RawRows, IsRaw, Published
<1>4. \A i \in DOMAIN s.raw : s.raw[i] \in RawRows
    BY SMTT(30)
<1>. QED
    BY Zenon, <1>1, <1>2, <1>3, <1>4 DEF IsSaved

\* The invariant includes the type invariant.
LEMMA SoundIsTyped == ConvInv => TypeOK
<1>. SUFFICES ASSUME ConvInv PROVE TypeOK
    BY Zenon
<1>1. Published
    BY Zenon DEF ConvInv
<1>2. ASSUME NEW cl \in Clients
      PROVE  /\ IsSaved(node[cl])
             /\ node[cl].mode \in {"Stable", "Pending", "Recovering", "Unrecoverable"}
             /\ node[cl].pending.commit \in Commits \union {None}
             /\ node[cl].mode = "Pending" <=> node[cl].pending.commit # None
             /\ \A e \in DOMAIN node[cl].anchors : IsSaved(node[cl].anchors[e])
             /\ \A e \in DOMAIN node[cl].wins :
                    node[cl].wins[e].commit \in Commits /\ IsSaved(node[cl].wins[e].snap)
             /\ node[cl].from \subseteq Nat
  <2>. DEFINE n == node[cl]
  <2>1. n \in Engines(cl)
      BY Zenon DEF ConvInv
  <2>. HIDE DEF n
  <2>2. IsSaved(n)
      BY Zenon, <1>1, <2>1, EngineFields, SavedTyped
  <2>3. \A s \in SavedBy(cl) : IsSaved(s)
      BY Zenon, <1>1, SavedTyped DEF SavedBy
  <2>4. n.pending.commit \in Commits \union {None}
      BY Zenon, <2>1, EngineFields, <1>1 DEF PendingOf, Published
  <2>5. \A e \in DOMAIN n.anchors : IsSaved(n.anchors[e])
      BY <2>1, EngineFields, <2>3 DEF AnchorsOf
  <2>6. \A e \in DOMAIN n.wins : n.wins[e].commit \in Commits /\ IsSaved(n.wins[e].snap)
      BY <2>1, EngineFields, <1>1, <2>3 DEF WinsOf, Wins, Published
  <2>7. /\ n.mode \in Modes /\ n.from \subseteq Nat
        /\ n.mode = "Pending" <=> n.pending.commit # None
      BY Zenon, <2>1, EngineFields
  <2>. QED
      BY SMTT(30), <2>2, <2>4, <2>5, <2>6, <2>7 DEF n, Modes
<1>3. wire \subseteq Made /\ \A cl \in Clients : got[cl] \subseteq wire
    BY Zenon, <1>1 DEF ConvInv, Published
<1>. QED
    BY Zenon, <1>2, <1>3 DEF TypeOK

\* The state of every engine is well formed through every operation of
\* message_processor, publish.rs and distributed_convergence.rs.
THEOREM TypeCorrect == Spec => []TypeOK
BY ConvInvariance, SoundIsTyped, PTL

\* No client applies a commit relays do not hold: neither its own, which
\* do_confirm_published merges, nor another's, by whichever path it comes in.
THEOREM AppliedIsPublishedHolds == Spec => []AppliedIsPublished
<1>1. ConvInv => AppliedIsPublished
    BY SMTT(30), EngineFields DEF AppliedIsPublished, ConvInv, Range
<1>. QED
    BY <1>1, ConvInvariance, PTL

\* The anchors and incumbents that fork recovery and convergence roll back to
\* are of the epoch they are filed under, and an incumbent's snapshot is the
\* state its commit was made in.
THEOREM KeptUnderTheirEpochHolds == Spec => []KeptUnderTheirEpoch
<1>1. ConvInv => KeptUnderTheirEpoch
    BY EngineFields DEF KeptUnderTheirEpoch, ConvInv, AnchorsOf, WinsOf, Wins
<1>. QED
    BY <1>1, ConvInvariance, PTL

\* Through failed publishes, lost acknowledgements, restarts and messages
\* during a publish, no engine holds a state the group cannot see, or one
\* filed under an epoch it is not of.
THEOREM AppliedSoundHolds == Spec => []AppliedSound
BY AppliedIsPublishedHolds, KeptUnderTheirEpochHolds, PTL DEF AppliedSound
=============================================================================
