-------------------------- MODULE LivePreviewProofs --------------------------
(***************************************************************************)
(* A live preview shows a beginning of the answer, for any number of       *)
(* subscribers and every limit of the session, the broker and the          *)
(* receivers.                                                              *)
(*                                                                         *)
(* That the receiver accepts only the next seq is not enough by itself:    *)
(* what the publisher has written must be a beginning of the local         *)
(* transcript (SentFromLocal), which depends on the buffer of a session    *)
(* that still connects holding all of the transcript (SessionInv), and the *)
(* broker must hand on written records only.                               *)
(***************************************************************************)
EXTENDS LivePreview, FiniteSetTheorems, TLAPS

\* The records written so far.
Written == {lpSent[i] : i \in 1 .. Len(lpSent)}

\* While a preview is possible, a session without a publisher has buffered all
\* of its transcript, and one with a publisher has written all of it.
SessionInv ==
    /\ lpSession.publisher => ~lpSession.failed /\ ~lpSession.connecting
    /\ lpSession.open /\ ~lpSession.failed =>
          IF lpSession.publisher THEN lpSent = lpSession.local
          ELSE lpSent = << >> /\ lpSession.local = NumberFrom(1, lpSession.pending)

\* Written records are numbered from 1 and are those of the transcript, but
\* for an Abort at the end of a session that is over.
SentFromLocal ==
    \A i \in 1 .. Len(lpSent) :
        /\ lpSent[i].seq = i
        /\ \/ i <= Len(lpSession.local) /\ lpSent[i] = lpSession.local[i]
           \/ ~lpSession.open /\ i = Len(lpSent) /\ lpSent[i].kind = "abort"

\* The broker and its subscribers hold written records, and a subscriber has
\* shown the first of them.
Delivered ==
    /\ lpRoom \in LpRooms(Written)
    /\ lpSubs \in [LpSubscribers -> LpReceivers(Written)]
    /\ \A s \in LpSubscribers :
          /\ Len(lpSubs[s].shown) <= Len(lpSent)
          /\ \A i \in 1 .. Len(lpSubs[s].shown) : lpSubs[s].shown[i] = lpSent[i]

\* The inductive invariant.
LpInv == LpTypeOK /\ SessionInv /\ SentFromLocal /\ Delivered

-----------------------------------------------------------------------------
(* Sequences, rooms and receivers.                                         *)

\* The empty sequence, appending and taking the rest.
LEMMA EmptySeq ==
    ASSUME NEW S
    PROVE  /\ << >> \in Seq(S) /\ Len(<< >>) = 0
           /\ \A s \in Seq(S) : s # << >> => Len(s) \in Nat \ {0}
OBVIOUS

\* Sequences are the functions on 1 .. n.
LEMMA SeqDef == \A S : Seq(S) = UNION {[1 .. n -> S] : n \in Nat}
OBVIOUS

\* A sequence has a length and is a function on 1 .. Len.
LEMMA LenProperties ==
    ASSUME NEW S, NEW s \in Seq(S)
    PROVE  Len(s) \in Nat /\ s \in [1 .. Len(s) -> S] /\ DOMAIN s = 1 .. Len(s)
OBVIOUS

\* Sequences of one length with the same elements are equal.
LEMMA SeqEqual ==
    ASSUME NEW S, NEW s \in Seq(S), NEW t \in Seq(S),
           Len(s) = Len(t), \A i \in 1 .. Len(s) : s[i] = t[i]
    PROVE  s = t
OBVIOUS

\* The elements of a sequence after an append.
LEMMA AppendPoints ==
    ASSUME NEW S, NEW s \in Seq(S), NEW e \in S
    PROVE  /\ Append(s, e) \in Seq(S) /\ Len(Append(s, e)) = Len(s) + 1
           /\ \A i \in 1 .. Len(s) : Append(s, e)[i] = s[i]
           /\ Append(s, e)[Len(s) + 1] = e
OBVIOUS

\* The elements of the rest of a sequence.
LEMMA TailPoints ==
    ASSUME NEW S, NEW s \in Seq(S), s # << >>
    PROVE  /\ Head(s) \in S /\ Tail(s) \in Seq(S) /\ Len(Tail(s)) = Len(s) - 1
           /\ \A i \in 1 .. Len(Tail(s)) : Tail(s)[i] = s[i + 1]
OBVIOUS

\* All of a sequence is the sequence.
LEMMA SubSeqFull ==
    ASSUME NEW S, NEW s \in Seq(S)
    PROVE  SubSeq(s, 1, Len(s)) = s
OBVIOUS

\* The empty sequence adds nothing.
LEMMA ConcatEmptySeq ==
    ASSUME NEW S, NEW s \in Seq(S)
    PROVE  s \o << >> = s /\ << >> \o s = s
OBVIOUS

\* A sequence over a set is one over a larger set.
LEMMA SeqMonotone ==
    ASSUME NEW S, NEW T, S \subseteq T, NEW s \in Seq(S)
    PROVE  s \in Seq(T)
OBVIOUS

\* The elements of two sequences put together.
LEMMA ConcatPoints ==
    ASSUME NEW S, NEW s \in Seq(S), NEW t \in Seq(S)
    PROVE  /\ s \o t \in Seq(S) /\ Len(s \o t) = Len(s) + Len(t)
           /\ \A i \in 1 .. Len(s) : (s \o t)[i] = s[i]
           /\ \A i \in 1 .. Len(t) : (s \o t)[Len(s) + i] = t[i]
OBVIOUS

\* Numbering keeps the pieces and their number.
LEMMA Numbered ==
    ASSUME NEW n \in Nat, NEW pieces \in Seq(LpPiece)
    PROVE  /\ NumberFrom(n, pieces) \in Seq(LpRecord)
           /\ Len(NumberFrom(n, pieces)) = Len(pieces)
           /\ \A i \in 1 .. Len(pieces) :
                NumberFrom(n, pieces)[i] =
                    [seq |-> n + i - 1, kind |-> pieces[i].kind, body |-> pieces[i].body]
<1>1. Len(pieces) \in Nat
    OBVIOUS
<1>2. \A i \in 1 .. Len(pieces) :
          [seq |-> n + i - 1, kind |-> pieces[i].kind, body |-> pieces[i].body] \in LpRecord
  <2>. SUFFICES ASSUME NEW i \in 1 .. Len(pieces)
                PROVE  [seq |-> n + i - 1, kind |-> pieces[i].kind, body |-> pieces[i].body] \in LpRecord
      BY Zenon
  <2>1. pieces[i] \in LpPiece
      OBVIOUS
  <2>2. n + i - 1 \in Nat
      OBVIOUS
  <2>. QED
      BY Zenon, <2>1, <2>2 DEF LpPiece, LpRecord
<1>3. NumberFrom(n, pieces) \in [1 .. Len(pieces) -> LpRecord]
    BY Zenon, <1>2 DEF NumberFrom
<1>4. NumberFrom(n, pieces) \in Seq(LpRecord) /\ Len(NumberFrom(n, pieces)) = Len(pieces)
    BY <1>1, <1>3, SeqDef, LenProperties
<1>. QED
    BY Zenon, <1>4 DEF NumberFrom

\* What is sent for one buffer after another is numbered through.
LEMMA NumberedConcat ==
    ASSUME NEW p \in Seq(LpPiece), NEW q \in Seq(LpPiece)
    PROVE  NumberFrom(1, p) \o NumberFrom(Len(NumberFrom(1, p)) + 1, q) = NumberFrom(1, p \o q)
<1>. DEFINE a == NumberFrom(1, p)
            b == NumberFrom(Len(p) + 1, q)
            c == NumberFrom(1, p \o q)
<1>1. a \in Seq(LpRecord) /\ Len(a) = Len(p) /\ Len(p) \in Nat /\ Len(q) \in Nat
    BY Numbered
<1>2. /\ b \in Seq(LpRecord) /\ Len(b) = Len(q)
      /\ \A k \in 1 .. Len(q) :
            b[k] = [seq |-> Len(p) + 1 + k - 1, kind |-> q[k].kind, body |-> q[k].body]
    BY <1>1, Numbered
<1>3. /\ p \o q \in Seq(LpPiece) /\ Len(p \o q) = Len(p) + Len(q)
      /\ \A i \in 1 .. Len(p) + Len(q) :
            (p \o q)[i] = IF i <= Len(p) THEN p[i] ELSE q[i - Len(p)]
    OBVIOUS
<1>4. c \in Seq(LpRecord) /\ Len(c) = Len(p) + Len(q)
    BY <1>3, Numbered, Zenon
<1>5. ASSUME NEW i \in 1 .. Len(p) + Len(q) PROVE (a \o b)[i] = c[i]
  <2>1. c[i] = [seq |-> i, kind |-> (p \o q)[i].kind, body |-> (p \o q)[i].body]
    <3>1. i \in 1 .. Len(p \o q) /\ 1 + i - 1 = i
        BY <1>1, <1>3
    <3>2. c[i] = [seq |-> 1 + i - 1, kind |-> (p \o q)[i].kind, body |-> (p \o q)[i].body]
        BY <1>3, <3>1, Numbered, Zenon
    <3>. QED
        BY Zenon, <3>1, <3>2
  <2>2. CASE i <= Len(p)
      BY <1>1, <2>2, Numbered, <1>2, <1>3, <2>1
  <2>3. CASE ~(i <= Len(p))
    <3>. DEFINE j == i - Len(p)
    <3>1. j \in 1 .. Len(q) /\ Len(p) + 1 + j - 1 = i
        BY <1>1, <2>3
    <3>2. b[j] = [seq |-> Len(p) + 1 + j - 1, kind |-> q[j].kind, body |-> q[j].body]
        BY <1>2, <3>1, Zenon
    <3>3. (a \o b)[i] = b[j]
        BY <1>1, <1>2, <2>3
    <3>. QED
        BY <1>3, <2>1, <2>3, <3>1, <3>2, <3>3, Zenon
  <2>. QED
      BY <2>2, <2>3, Zenon
<1>6. a \o b \in Seq(LpRecord) /\ Len(a \o b) = Len(p) + Len(q)
  <2>. HIDE DEF a, b
  <2>1. a \o b \in Seq(LpRecord) /\ Len(a \o b) = Len(a) + Len(b)
      BY <1>1, <1>2, ConcatPoints, Zenon
  <2>. QED
      BY Zenon, <1>1, <1>2, <2>1
<1>7. a \o b = c
  <2>. HIDE DEF a, b, c
  <2>. QED
      BY Zenon, <1>4, <1>5, <1>6, SeqEqual
<1>. QED
    BY <1>1, <1>7, Zenon

\* A longer list of records allows the same rooms and receivers.
LEMMA Grows ==
    ASSUME NEW A, NEW B, A \subseteq B
    PROVE  LpRooms(A) \subseteq LpRooms(B) /\ LpReceivers(A) \subseteq LpReceivers(B)
<1>1. Seq(A) \subseteq Seq(B)
    BY Zenon, SeqMonotone
<1>2. [rec : A, aged : BOOLEAN] \subseteq [rec : B, aged : BOOLEAN]
    BY Zenon
<1>3. Seq([rec : A, aged : BOOLEAN]) \subseteq Seq([rec : B, aged : BOOLEAN])
    BY <1>2, SeqMonotone, Zenon
<1>4. LpRooms(A) \subseteq LpRooms(B)
    BY <1>3, Zenon DEF LpRooms
<1>5. LpReceivers(A) \subseteq LpReceivers(B)
    BY Zenon, <1>1 DEF LpReceivers
<1>. QED
    BY Zenon, <1>4, <1>5

\* Forgetting the old end of a backlog, or all of it, leaves a room.
LEMMA RoomsPurged ==
    ASSUME NEW R, NEW room \in LpRooms(R)
    PROVE  NoRoom \in LpRooms(R) /\ NewRoom \in LpRooms(R) /\ PurgeBacklog(room) \in LpRooms(R)
           /\ PurgeRooms(room) \in LpRooms(R) /\ Touch(room) \in LpRooms(R)
<1>. DEFINE E == [rec : R, aged : BOOLEAN]
            old == {i \in DOMAIN room.backlog : \A j \in 1 .. i : room.backlog[j].aged}
            rest == SubSeq(room.backlog, Cardinality(old) + 1, Len(room.backlog))
<1>1. room.backlog \in Seq(E) /\ Len(room.backlog) \in Nat /\ Len(room.backlog) <= LpBacklogDepth
    BY DEF LpRooms
<1>2. NoRoom \in LpRooms(R) /\ NewRoom \in LpRooms(R)
  <2>1. << >> \in Seq(E) /\ Len(<< >>) = 0
      BY Zenon, EmptySeq
  <2>2. 0 <= LpBacklogDepth
      BY LpAssumption
  <2>3. NoRoom \in LpRooms(R)
      BY Zenon, <2>1, <2>2 DEF NoRoom, LpRooms
  <2>4. NewRoom \in LpRooms(R)
      BY <2>3, Zenon DEF NewRoom, LpRooms
  <2>. QED
      BY Zenon, <2>3, <2>4
<1>3. Cardinality(old) \in Nat
  <2>1. IsFiniteSet(1 .. Len(room.backlog))
      BY <1>1, FS_Interval
  <2>2. old \subseteq 1 .. Len(room.backlog)
      BY <1>1
  <2>. QED
      BY Zenon, <2>1, <2>2, FS_Subset, FS_CardinalityType
<1>4. rest \in Seq(E) /\ Len(rest) <= Len(room.backlog)
  <2>. HIDE DEF old, E
  <2>. QED
      BY <1>1, <1>3
<1>5. PurgeBacklog(room) \in LpRooms(R)
  <2>1. PurgeBacklog(room) = [room EXCEPT !.backlog = rest]
      BY Zenon DEF PurgeBacklog
  <2>2. Len(rest) <= LpBacklogDepth
      BY <1>1, <1>4, LpAssumption
  <2>. HIDE DEF rest
  <2>. QED
      BY <1>4, <2>1, <2>2, Zenon DEF LpRooms
<1>6. PurgeRooms(room) \in LpRooms(R)
    BY Zenon, <1>2, <1>5 DEF PurgeRooms
<1>7. Touch(room) \in LpRooms(R)
    BY Zenon DEF Touch, LpRooms
<1>. QED
    BY Zenon, <1>2, <1>5, <1>6, <1>7

\* So does retaining a record and dropping subscribers.
LEMMA RoomsRetain ==
    ASSUME NEW R, NEW room \in LpRooms(R), NEW rec \in R
    PROVE  Retained(room, rec) \in LpRooms(R)
<1>. DEFINE E == [rec : R, aged : BOOLEAN]
            longer == Append(room.backlog, [rec |-> rec, aged |-> FALSE])
            cut == SubSeq(longer, Len(longer) - LpBacklogDepth + 1, Len(longer))
<1>1. room.backlog \in Seq(E) /\ Len(room.backlog) \in Nat /\ Len(room.backlog) <= LpBacklogDepth
    BY DEF LpRooms
<1>2. [rec |-> rec, aged |-> FALSE] \in E
    BY Zenon
<1>3. longer \in Seq(E) /\ Len(longer) = Len(room.backlog) + 1
    BY <1>1, <1>2
<1>4. Len(longer) > LpBacklogDepth => cut \in Seq(E) /\ Len(cut) = LpBacklogDepth
  <2>. HIDE DEF E, longer
  <2>. QED
      BY <1>1, <1>3, LpAssumption
<1>5. CASE ~lpReplay
    BY Zenon, <1>5 DEF Retained
<1>6. CASE lpReplay
  <2>1. Retained(room, rec) =
            [room EXCEPT !.backlog = IF Len(longer) > LpBacklogDepth THEN cut ELSE longer]
      BY Zenon, <1>6 DEF Retained
  <2>. DEFINE kept == IF Len(longer) > LpBacklogDepth THEN cut ELSE longer
  <2>2. kept \in Seq(E) /\ Len(kept) <= LpBacklogDepth
    <3>. HIDE DEF cut, longer, E
    <3>. QED
        BY <1>1, <1>3, <1>4, LpAssumption
  <2>. HIDE DEF kept
  <2>. QED
      BY <2>1, <2>2, Zenon DEF LpRooms, kept
<1>. QED
    BY Zenon, <1>5, <1>6

\* A receiver that reads one record of a stream stays a receiver; it shows a
\* record only right after the one before it.
LEMMA ReceivesNext ==
    ASSUME NEW R, NEW sub \in LpReceivers(R), NEW rec \in R
    PROVE  /\ Received(sub, rec) \in LpReceivers(R)
           /\ \/ Received(sub, rec).shown = sub.shown
              \/ rec.seq = Len(sub.shown) + 1 /\ Received(sub, rec).shown = Append(sub.shown, rec)
<1>1. sub.shown \in Seq(R) /\ Append(sub.shown, rec) \in Seq(R)
    BY Zenon, AppendPoints DEF LpReceivers
<1>. DEFINE seen == [sub EXCEPT !.frames = @ + 1]
<1>2. seen \in LpReceivers(R) /\ seen.shown = sub.shown
  <2>1. sub.frames + 1 \in Nat
      BY DEF LpReceivers
  <2>. QED
      BY <2>1, Zenon DEF LpReceivers
<1>3. [seen EXCEPT !.at = "failed"] \in LpReceivers(R)
    BY <1>2, Zenon DEF LpReceivers
<1>4. /\ [seen EXCEPT !.shown = Append(@, rec)] \in LpReceivers(R)
      /\ [seen EXCEPT !.shown = Append(@, rec)].shown = Append(sub.shown, rec)
    BY <1>1, <1>2, Zenon DEF LpReceivers
<1>5. [seen EXCEPT !.at = "failed"].shown = sub.shown
    BY Zenon, <1>2 DEF LpReceivers
<1>. HIDE DEF seen
<1>. QED
    BY Zenon, <1>2, <1>3, <1>4, <1>5 DEF Received, Accepts, seen

-----------------------------------------------------------------------------
(* The compose session.                                                    *)

\* What is written stays written, so the broker's records and what was shown
\* stay true; so do the types.
LEMMA SentGrows ==
    ASSUME LpInv, NEW t \in Seq(LpRecord), lpSent' = lpSent \o t,
           UNCHANGED << lpTask, lpRoom, lpSubs, lpReplay >>
    PROVE  /\ Delivered' /\ lpSent' \in Seq(LpRecord)
           /\ lpTask' \in [at : {"none", "waiting", "reading", "ended"}, read : 0 .. Len(lpSent')]
           /\ lpRoom' \in LpRooms(LpRecord) /\ lpReplay' \in BOOLEAN
           /\ lpSubs' \in [LpSubscribers -> LpReceivers(LpRecord)]
<1>1. lpSent \in Seq(LpRecord) /\ Len(lpSent) \in Nat /\ Len(t) \in Nat
    BY DEF LpInv, LpTypeOK
<1>2. /\ lpSent' \in Seq(LpRecord) /\ Len(lpSent') = Len(lpSent) + Len(t)
      /\ \A i \in 1 .. Len(lpSent) : lpSent'[i] = lpSent[i]
    BY <1>1
<1>3. Written \subseteq Written'
    BY <1>1, <1>2 DEF Written
<1>4. LpRooms(Written) \subseteq LpRooms(Written') /\ LpReceivers(Written) \subseteq LpReceivers(Written')
    BY <1>3, Grows, Zenon
<1>5. Delivered'
    BY <1>4, <1>1, <1>2 DEF LpInv, Delivered, LpTypeOK, LpReceivers
<1>6. lpTask' \in [at : {"none", "waiting", "reading", "ended"}, read : 0 .. Len(lpSent')]
    BY <1>1, <1>2 DEF LpInv, LpTypeOK
<1>. QED
    BY Zenon, <1>2, <1>5, <1>6 DEF LpInv, LpTypeOK

\* So they do when nothing is written.
LEMMA SentStays ==
    ASSUME LpInv, UNCHANGED << lpSent, lpTask, lpRoom, lpSubs, lpReplay >>
    PROVE  /\ Delivered' /\ lpSent' \in Seq(LpRecord)
           /\ lpTask' \in [at : {"none", "waiting", "reading", "ended"}, read : 0 .. Len(lpSent')]
           /\ lpRoom' \in LpRooms(LpRecord) /\ lpReplay' \in BOOLEAN
           /\ lpSubs' \in [LpSubscribers -> LpReceivers(LpRecord)]
BY DEF LpInv, LpTypeOK, Delivered, Written

\* The transcript may go on, and the session end, without the preview.
LEMMA LocalGoesOn ==
    ASSUME LpInv, lpSent' = lpSent, lpSession'.open => lpSession.open,
           Len(lpSession'.local) \in Nat, Len(lpSession.local) <= Len(lpSession'.local),
           \A i \in 1 .. Len(lpSession.local) : lpSession'.local[i] = lpSession.local[i]
    PROVE  SentFromLocal'
BY DEF LpInv, LpTypeOK, SentFromLocal

\* Writing all or the first of the pieces that the transcript goes on with
\* writes records of the transcript.
LEMMA WritesLocal ==
    ASSUME LpInv, NEW pieces \in Seq(LpPiece), NEW k \in 0 .. Len(pieces),
           lpSent' = lpSent \o NumberFrom(Len(lpSent) + 1, SubSeq(pieces, 1, k)),
           lpSession'.local = lpSent \o NumberFrom(Len(lpSent) + 1, pieces)
    PROVE  /\ NumberFrom(Len(lpSent) + 1, SubSeq(pieces, 1, k)) \in Seq(LpRecord)
           /\ SentFromLocal'
           /\ k = Len(pieces) => lpSent' = lpSession'.local
<1>. DEFINE n == Len(lpSent)
            part == SubSeq(pieces, 1, k)
            new == NumberFrom(n + 1, part)
            all == NumberFrom(n + 1, pieces)
<1>1. lpSent \in Seq(LpRecord) /\ n \in Nat /\ n + 1 \in Nat
    BY DEF LpInv, LpTypeOK
<1>2. /\ part \in Seq(LpPiece) /\ Len(part) = k
      /\ \A i \in 1 .. k : part[i] = pieces[i]
    OBVIOUS
<1>3. /\ all \in Seq(LpRecord) /\ Len(all) = Len(pieces)
      /\ \A i \in 1 .. Len(pieces) :
            all[i] = [seq |-> n + 1 + i - 1, kind |-> pieces[i].kind, body |-> pieces[i].body]
    BY Zenon, <1>1, Numbered
<1>4. /\ new \in Seq(LpRecord) /\ Len(new) = k
      /\ \A i \in 1 .. k :
            new[i] = [seq |-> n + 1 + i - 1, kind |-> part[i].kind, body |-> part[i].body]
  <2>. HIDE DEF part
  <2>. QED
      BY <1>1, <1>2, Numbered, Zenon
<1>5. \A i \in 1 .. k : new[i] = all[i] /\ new[i].seq = n + i
  <2>. SUFFICES ASSUME NEW i \in 1 .. k PROVE new[i] = all[i] /\ new[i].seq = n + i
      BY Zenon
  <2>1. i \in 1 .. Len(pieces) /\ n + 1 + i - 1 = n + i
      BY <1>1
  <2>. HIDE DEF part, new, all, n
  <2>2. new[i] = [seq |-> n + 1 + i - 1, kind |-> pieces[i].kind, body |-> pieces[i].body]
      BY Zenon, <1>2, <1>4
  <2>3. all[i] = [seq |-> n + 1 + i - 1, kind |-> pieces[i].kind, body |-> pieces[i].body]
      BY Zenon, <1>3, <2>1
  <2>. QED
      BY <2>1, <2>2, <2>3
<1>6. \A i \in 1 .. n : lpSent[i].seq = i
    BY Zenon DEF LpInv, SentFromLocal
<1>7. lpSent' = lpSent \o new /\ lpSession'.local = lpSent \o all
    BY Zenon
<1>. HIDE DEF part, new, all
<1>8. /\ Len(lpSent') = n + k /\ Len(lpSession'.local) = n + Len(pieces)
      /\ \A i \in 1 .. n : lpSent'[i] = lpSent[i] /\ lpSession'.local[i] = lpSent[i]
      /\ \A i \in 1 .. k : lpSent'[n + i] = new[i]
      /\ \A i \in 1 .. Len(pieces) : lpSession'.local[n + i] = all[i]
  <2>1. /\ Len(lpSent \o new) = n + Len(new)
        /\ \A i \in 1 .. n : (lpSent \o new)[i] = lpSent[i]
        /\ \A i \in 1 .. Len(new) : (lpSent \o new)[n + i] = new[i]
    <3>1. new \in Seq(LpRecord)
        BY Zenon, <1>4
    <3>. QED
        BY <1>1, <3>1, ConcatPoints
  <2>2. /\ Len(lpSent \o all) = n + Len(all)
        /\ \A i \in 1 .. n : (lpSent \o all)[i] = lpSent[i]
        /\ \A i \in 1 .. Len(all) : (lpSent \o all)[n + i] = all[i]
    <3>1. all \in Seq(LpRecord)
        BY Zenon, <1>3
    <3>. QED
        BY <1>1, <3>1, ConcatPoints
  <2>3. Len(new) = k /\ Len(all) = Len(pieces)
      BY Zenon, <1>3, <1>4
  <2>. QED
      BY <1>7, <2>1, <2>2, <2>3, Zenon
<1>9. SentFromLocal'
  <2>. SUFFICES ASSUME NEW i \in 1 .. n + k
                PROVE  /\ lpSent'[i].seq = i
                       /\ i <= Len(lpSession'.local) /\ lpSent'[i] = lpSession'.local[i]
      BY Zenon, <1>8 DEF SentFromLocal
  <2>1. CASE i <= n
      BY <1>1, <1>6, <1>8, <2>1
  <2>2. CASE ~(i <= n)
    <3>. DEFINE j == i - n
    <3>1. j \in 1 .. k /\ j \in 1 .. Len(pieces) /\ n + j = i
        BY <1>1, <2>2
    <3>. HIDE DEF j
    <3>2. lpSent'[n + j].seq = n + j /\ lpSent'[n + j] = lpSession'.local[n + j]
        BY <1>5, <1>8, <3>1, Zenon
    <3>3. lpSent'[i].seq = i /\ lpSent'[i] = lpSession'.local[i]
        BY <3>1, <3>2, Zenon
    <3>4. i <= Len(lpSession'.local)
        BY <1>1, <1>8, <3>1
    <3>. QED
        BY <3>3, <3>4, Zenon
  <2>. QED
      BY <2>1, <2>2, Zenon
<1>10. ASSUME k = Len(pieces) PROVE lpSent' = lpSession'.local
  <2>1. part = pieces
      BY Zenon, <1>10, SubSeqFull DEF part
  <2>. QED
      BY <1>7, <2>1, Zenon DEF new, all
<1>. QED
    BY Zenon, <1>4, <1>9, <1>10 DEF new, part

\* The fields of a session.
LpSessions ==
    [open : BOOLEAN, connecting : BOOLEAN, publisher : BOOLEAN, failed : BOOLEAN,
     entries : 0 .. LpPendingCap, pending : Seq(LpPiece), local : Seq(LpRecord),
     appends : 0 .. LpMaxAppends]

\* The types of the session, of its transcript and of what it wrote.
LEMMA SessionTyped ==
    ASSUME LpInv
    PROVE  /\ lpSession \in LpSessions /\ lpSent \in Seq(LpRecord) /\ Len(lpSent) \in Nat
           /\ lpSession.local \in Seq(LpRecord) /\ Len(lpSession.local) \in Nat
BY Zenon, LenProperties DEF LpInv, LpTypeOK, LpSessions

\* Emptying the buffer, failing the preview and setting a flag give sessions.
LEMMA SessionChanges ==
    ASSUME NEW x \in LpSessions
    PROVE  /\ Emptied(x) \in LpSessions /\ LiveFailed(x) \in LpSessions
           /\ [Emptied(x) EXCEPT !.failed = TRUE] \in LpSessions
           /\ [x EXCEPT !.connecting = FALSE] \in LpSessions
           /\ [x EXCEPT !.publisher = TRUE] \in LpSessions
           /\ [x EXCEPT !.open = FALSE, !.connecting = FALSE, !.publisher = FALSE] \in LpSessions
<1>1. << >> \in Seq(LpPiece) /\ 0 \in 0 .. LpPendingCap
    BY LpAssumption, EmptySeq
<1>2. Emptied(x) \in LpSessions
    BY <1>1, Zenon DEF Emptied, LpSessions
<1>3. LiveFailed(x) \in LpSessions /\ [Emptied(x) EXCEPT !.failed = TRUE] \in LpSessions
    BY <1>2, Zenon DEF LiveFailed, LpSessions
<1>4. /\ [x EXCEPT !.connecting = FALSE] \in LpSessions
      /\ [x EXCEPT !.publisher = TRUE] \in LpSessions
      /\ [x EXCEPT !.open = FALSE, !.connecting = FALSE, !.publisher = FALSE] \in LpSessions
    BY Zenon DEF LpSessions
<1>. QED
    BY Zenon, <1>2, <1>3, <1>4

\* Writing with a deadline writes all of the pieces or the first of them.
LEMMA WritesSome ==
    ASSUME NEW pieces \in Seq(LpPiece), NEW good, NEW bad, NEW stream,
           Writes(pieces, good, bad, stream)
    PROVE  \E k \in 0 .. Len(pieces) :
              /\ lpSent' = lpSent \o NumberFrom(Len(lpSent) + 1, SubSeq(pieces, 1, k))
              /\ \/ k = Len(pieces) /\ lpSession' = good /\ lpStream' = stream
                 \/ lpSession' = bad /\ lpStream' = "lost"
<1>1. Len(pieces) \in 0 .. Len(pieces) /\ SubSeq(pieces, 1, Len(pieces)) = pieces
    BY SubSeqFull
<1>2. CASE /\ lpSent' = lpSent \o NumberFrom(Len(lpSent) + 1, pieces)
           /\ lpSession' = good /\ lpStream' = stream
    BY <1>1, <1>2, Zenon
<1>3. CASE \E k \in 0 .. Len(pieces) - 1 :
             /\ lpSent' = lpSent \o NumberFrom(Len(lpSent) + 1, SubSeq(pieces, 1, k))
             /\ lpSession' = bad /\ lpStream' = "lost"
  <2>1. \A k \in 0 .. Len(pieces) - 1 : k \in 0 .. Len(pieces)
      OBVIOUS
  <2>. QED
      BY <1>3, <2>1, Zenon
<1>. QED
    BY <1>2, <1>3, Zenon DEF Writes

\* A write that starts from what the preview has shown so far keeps LpInv.
LEMMA WritesInv ==
    ASSUME LpInv, NEW pieces \in Seq(LpPiece), NEW good \in LpSessions, NEW stream,
           stream \in {"none", "open", "fin", "lost"},
           good.local = lpSent \o NumberFrom(Len(lpSent) + 1, pieces),
           good.publisher, ~good.failed, ~good.connecting,
           NEW bad \in LpSessions, bad.local = good.local, bad.failed, ~bad.publisher,
           Writes(pieces, good, bad, stream),
           UNCHANGED << lpTask, lpRoom, lpSubs, lpReplay >>
    PROVE  LpInv'
<1>1. PICK k \in 0 .. Len(pieces) :
          /\ lpSent' = lpSent \o NumberFrom(Len(lpSent) + 1, SubSeq(pieces, 1, k))
          /\ \/ k = Len(pieces) /\ lpSession' = good /\ lpStream' = stream
             \/ lpSession' = bad /\ lpStream' = "lost"
    BY Zenon, WritesSome
<1>2. lpSession'.local = lpSent \o NumberFrom(Len(lpSent) + 1, pieces)
    BY Zenon, <1>1
<1>3. /\ NumberFrom(Len(lpSent) + 1, SubSeq(pieces, 1, k)) \in Seq(LpRecord)
      /\ SentFromLocal' /\ (k = Len(pieces) => lpSent' = lpSession'.local)
    BY <1>1, <1>2, WritesLocal, Zenon
<1>4. /\ Delivered' /\ lpSent' \in Seq(LpRecord)
      /\ lpTask' \in [at : {"none", "waiting", "reading", "ended"}, read : 0 .. Len(lpSent')]
      /\ lpRoom' \in LpRooms(LpRecord) /\ lpReplay' \in BOOLEAN
      /\ lpSubs' \in [LpSubscribers -> LpReceivers(LpRecord)]
    BY <1>1, <1>3, SentGrows, Zenon
<1>5. lpSession' \in LpSessions /\ lpStream' \in {"none", "open", "fin", "lost"}
    BY Zenon, <1>1
<1>6. LpTypeOK'
    BY Zenon, <1>4, <1>5 DEF LpTypeOK, LpSessions
<1>7. SessionInv'
    BY Zenon, <1>1, <1>3 DEF SessionInv
<1>. QED
    BY Zenon, <1>3, <1>4, <1>6, <1>7 DEF LpInv

\* An append goes to the transcript, and to the buffer or the publisher.
LEMMA ComposeAppendInv == ASSUME LpInv, ComposeAppend PROVE LpInv'
<1>1. PICK kind \in LpKinds, n \in 1 .. 2 :
          LET pieces == SplitText(kind, lpSession.appends + 1, n)
          IN  /\ lpSession.open /\ lpSession.appends < LpMaxAppends
              /\ AppendLive([lpSession EXCEPT !.appends = @ + 1,
                                !.local = @ \o NumberFrom(Len(@) + 1, pieces)], pieces)
              /\ UNCHANGED << lpTask, lpRoom, lpSubs, lpReplay >>
    BY Zenon DEF ComposeAppend
<1>. DEFINE pieces == SplitText(kind, lpSession.appends + 1, n)
            old == lpSession.local
            new == NumberFrom(Len(old) + 1, pieces)
            x == [lpSession EXCEPT !.appends = @ + 1, !.local = old \o new]
<1>2. /\ lpSession \in LpSessions /\ old \in Seq(LpRecord) /\ Len(old) \in Nat
      /\ lpSent \in Seq(LpRecord) /\ lpSession.pending \in Seq(LpPiece)
      /\ lpStream \in {"none", "open", "fin", "lost"} /\ lpSession.appends \in Nat
    BY LpAssumption DEF LpInv, LpTypeOK, LpSessions
<1>3. pieces \in Seq(LpPiece)
    BY <1>2, LpAssumption, SeqDef DEF LpPiece, SplitText
<1>. HIDE DEF pieces
<1>4. new \in Seq(LpRecord)
    BY <1>2, <1>3, Numbered
<1>. HIDE DEF new
<1>5. /\ old \o new \in Seq(LpRecord) /\ Len(old \o new) = Len(old) + Len(new)
      /\ \A i \in 1 .. Len(old) : (old \o new)[i] = old[i]
    BY <1>2, <1>4, ConcatPoints
<1>6. /\ x \in LpSessions /\ x.local = old \o new /\ x.open = lpSession.open
      /\ x.publisher = lpSession.publisher /\ x.failed = lpSession.failed
      /\ x.connecting = lpSession.connecting /\ x.pending = lpSession.pending
  <2>1. lpSession.appends + 1 \in 0 .. LpMaxAppends
      BY <1>1, <1>2, LpAssumption
  <2>. QED
      BY <1>2, <1>5, <2>1, Zenon DEF LpSessions
<1>7. lpSession.open /\ AppendLive(x, pieces) /\ UNCHANGED << lpTask, lpRoom, lpSubs, lpReplay >>
    BY Zenon, <1>1 DEF pieces, new
<1>. HIDE DEF x
<1>8. CASE x.publisher /\ ~x.failed
  <2>1. Writes(pieces, x, LiveFailed(x), lpStream)
      BY Zenon, <1>7, <1>8 DEF AppendLive
  <2>2. lpSent = old /\ ~x.connecting
      BY Zenon, <1>6, <1>7, <1>8 DEF LpInv, SessionInv
  <2>3. x.local = lpSent \o NumberFrom(Len(lpSent) + 1, pieces)
      BY <1>6, <2>2, Zenon DEF new
  <2>4. /\ LiveFailed(x) \in LpSessions /\ LiveFailed(x).local = x.local
        /\ LiveFailed(x).failed /\ ~LiveFailed(x).publisher
      BY <1>6, SessionChanges, ZenonT(30) DEF LiveFailed, Emptied, LpSessions
  <2>. QED
      BY <1>2, <1>3, <1>6, <1>7, <1>8, <2>1, <2>2, <2>3, <2>4, WritesInv, ZenonT(30)
<1>9. CASE x.failed \/ ~x.publisher
  <2>. DEFINE y == IF x.failed THEN x ELSE PushBounded(x, pieces)
  <2>1. lpSession' = y /\ UNCHANGED << lpSent, lpStream >>
      BY Zenon, <1>7, <1>9 DEF AppendLive
  <2>2. /\ y \in LpSessions /\ y.local = x.local /\ y.open = x.open /\ y.publisher = x.publisher
        /\ ~y.failed => ~x.failed /\ y.pending = x.pending \o pieces
    <3>1. CASE x.failed
        BY <1>6, <3>1, Zenon
    <3>2. CASE ~x.failed /\ x.entries >= LpPendingCap
        BY <1>6, <3>2, SessionChanges, Zenon DEF PushBounded, Emptied, LpSessions
    <3>3. CASE ~x.failed /\ ~(x.entries >= LpPendingCap)
      <4>1. x.entries + 1 \in 0 .. LpPendingCap
          BY <1>6, <3>3, LpAssumption DEF LpSessions
      <4>2. x.pending \o pieces \in Seq(LpPiece)
          BY Zenon, <1>3, <1>6, ConcatPoints DEF LpSessions
      <4>. QED
          BY <1>6, <3>3, <4>1, <4>2, ZenonT(30) DEF PushBounded, LpSessions
    <3>. QED
        BY Zenon, <3>1, <3>2, <3>3
  <2>. HIDE DEF y
  <2>3. SessionInv'
    <3>1. ASSUME ~y.failed PROVE lpSent' = << >> /\ y.local = NumberFrom(1, y.pending)
      <4>1. lpSent = << >> /\ old = NumberFrom(1, lpSession.pending)
          BY Zenon, <1>6, <1>7, <1>9, <2>2, <3>1 DEF LpInv, SessionInv
      <4>2. y.local = NumberFrom(1, lpSession.pending \o pieces)
          BY <1>2, <1>3, <1>6, <2>2, <4>1, NumberedConcat, ZenonT(30) DEF new
      <4>. QED
          BY <1>6, <2>1, <2>2, <3>1, <4>1, <4>2, ZenonT(30)
    <3>. QED
        BY Zenon, <1>6, <1>9, <2>1, <2>2, <3>1 DEF LpInv, SessionInv
  <2>4. SentFromLocal'
      BY <1>2, <1>4, <1>5, <1>6, <2>1, <2>2, LocalGoesOn
  <2>. QED
      BY Zenon, <1>2, <1>7, <2>1, <2>2, <2>3, <2>4, SentStays DEF LpInv, LpTypeOK,
         LpSessions
<1>. QED
    BY <1>8, <1>9, Zenon

\* A publisher that connects is given the buffer.
LEMMA ComposeConnectedInv == ASSUME LpInv, ComposeConnected PROVE LpInv'
<1>. DEFINE x == [lpSession EXCEPT !.connecting = FALSE]
            good == Emptied([x EXCEPT !.publisher = TRUE])
<1>1. lpSession \in LpSessions /\ lpSent \in Seq(LpRecord)
    BY SessionTyped, Zenon
<1>2. /\ x \in LpSessions /\ good \in LpSessions /\ Emptied(x) \in LpSessions
      /\ LiveFailed(x) \in LpSessions
    BY <1>1, SessionChanges, Zenon
<1>3. UNCHANGED << lpTask, lpRoom, lpSubs, lpReplay >> /\ lpSession.open /\ lpSession.connecting
    BY Zenon DEF ComposeConnected
<1>4. CASE lpSession.failed
  <2>1. lpSession' = Emptied(x) /\ UNCHANGED << lpSent, lpStream >>
      BY Zenon, <1>4 DEF ComposeConnected
  <2>2. /\ lpSession'.local = lpSession.local /\ lpSession'.open = lpSession.open
        /\ lpSession'.failed /\ ~lpSession'.publisher /\ Len(lpSession.local) \in Nat
      BY <1>1, <1>4, <2>1 DEF Emptied, LpSessions, LpInv, SessionInv
  <2>3. SentFromLocal'
      BY <2>2, <2>1, LocalGoesOn
  <2>4. SessionInv'
      BY Zenon, <2>2 DEF SessionInv
  <2>. QED
      BY <1>2, <1>3, <2>1, <2>3, <2>4, SentStays, ZenonT(30) DEF LpInv, LpTypeOK, LpSessions
<1>5. CASE ~lpSession.failed
  <2>1. Writes(x.pending, good, LiveFailed(x), "open")
      BY Zenon, <1>5 DEF ComposeConnected, FlushPending
  <2>2. lpSent = << >> /\ lpSession.local = NumberFrom(1, lpSession.pending)
      BY Zenon, <1>3, <1>5 DEF LpInv, SessionInv
  <2>3. /\ x.pending \in Seq(LpPiece) /\ x.pending = lpSession.pending
        /\ good.local = lpSession.local /\ good.publisher /\ ~good.failed /\ ~good.connecting
        /\ LiveFailed(x).local = lpSession.local /\ LiveFailed(x).failed
        /\ ~LiveFailed(x).publisher
      BY Zenon, <1>1, <1>5 DEF LiveFailed, Emptied, LpSessions
  <2>4. good.local = lpSent \o NumberFrom(Len(lpSent) + 1, x.pending)
    <3>1. NumberFrom(1, x.pending) \in Seq(LpRecord)
        BY Zenon, <2>3, Numbered
    <3>2. Len(<< >>) + 1 = 1
        OBVIOUS
    <3>3. << >> \o NumberFrom(1, x.pending) = NumberFrom(1, x.pending)
        BY Zenon, <3>1, ConcatEmptySeq
    <3>. QED
        BY Zenon, <2>2, <2>3, <3>2, <3>3
  <2>. HIDE DEF x, good
  <2>. QED
      BY <1>2, <1>3, <2>1, <2>3, <2>4, WritesInv, Zenon
<1>. QED
    BY Zenon, <1>4, <1>5

\* Any other end of the connect, and any end of the session, keeps LpInv.
LEMMA ComposeEndsInv ==
    ASSUME LpInv,
           ComposeConnectFails \/ ComposeFinish \/ ComposeCancel \/ ComposeAbandoned
    PROVE  LpInv'
<1>. DEFINE closed == [lpSession EXCEPT !.open = FALSE, !.connecting = FALSE, !.publisher = FALSE]
            x == [lpSession EXCEPT !.connecting = FALSE]
            piece == [kind |-> "abort", body |-> <<0, 0>>]
            abort == NumberFrom(Len(lpSent) + 1, <<piece>>)
<1>1. /\ lpSession \in LpSessions /\ lpSent \in Seq(LpRecord) /\ Len(lpSent) \in Nat
      /\ lpSession.local \in Seq(LpRecord) /\ Len(lpSession.local) \in Nat
    BY SessionTyped, Zenon
<1>2. closed \in LpSessions /\ LiveFailed(x) \in LpSessions
    BY <1>1, SessionChanges, Zenon
<1>3. UNCHANGED << lpTask, lpRoom, lpSubs, lpReplay >>
    BY Zenon DEF ComposeConnectFails, ComposeFinish, ComposeCancel, ComposeAbandoned
<1>4. lpStream' \in {"none", "open", "fin", "lost"}
    BY Zenon DEF ComposeConnectFails, ComposeFinish, ComposeCancel, ComposeAbandoned,
       LpInv, LpTypeOK
<1>5. lpSession' \in {closed, LiveFailed(x)}
    BY Zenon DEF ComposeConnectFails, ComposeFinish, ComposeCancel, ComposeAbandoned
<1>6. /\ lpSession'.local = lpSession.local /\ lpSession' \in LpSessions
      /\ ~lpSession'.publisher /\ (lpSession'.open => lpSession.open /\ lpSession'.failed)
    BY <1>1, <1>2, <1>5, Zenon DEF LiveFailed, Emptied, LpSessions
<1>7. SessionInv'
    BY Zenon, <1>6 DEF SessionInv
<1>8. CASE lpSent' = lpSent
    BY <1>1, <1>6, <1>8, LocalGoesOn, <1>3, <1>4, <1>7, SentStays DEF LpInv,
       LpTypeOK, LpSessions
<1>9. CASE lpSent' # lpSent
  <2>1. /\ lpSent' = lpSent \o abort /\ lpSession' = closed
        /\ lpSession.open /\ ~lpSession.failed
      BY Zenon, <1>9 DEF ComposeConnectFails, ComposeFinish, ComposeCancel, ComposeAbandoned
  <2>2. <<piece>> \in Seq(LpPiece) /\ Len(<<piece>>) = 1 /\ <<piece>>[1] = piece
      BY DEF LpPiece, PieceKinds
  <2>3. /\ abort \in Seq(LpRecord) /\ Len(abort) = 1
        /\ abort[1] = [seq |-> Len(lpSent) + 1 + 1 - 1, kind |-> piece.kind, body |-> piece.body]
    <3>1. Len(lpSent) + 1 \in Nat /\ 1 \in 1 .. 1
        BY <1>1
    <3>. HIDE DEF piece
    <3>. QED
        BY <2>2, <3>1, Numbered, Zenon
  <2>4. abort[1].seq = Len(lpSent) + 1 /\ abort[1].kind = "abort"
      BY <1>1, <2>3
  <2>. HIDE DEF abort
  <2>5. /\ Len(lpSent') = Len(lpSent) + 1 /\ lpSent'[Len(lpSent) + 1] = abort[1]
        /\ \A i \in 1 .. Len(lpSent) : lpSent'[i] = lpSent[i]
    <3>1. /\ Len(lpSent \o abort) = Len(lpSent) + Len(abort)
          /\ \A i \in 1 .. Len(lpSent) : (lpSent \o abort)[i] = lpSent[i]
          /\ \A i \in 1 .. Len(abort) : (lpSent \o abort)[Len(lpSent) + i] = abort[i]
      <4>1. lpSent \in Seq(LpRecord) /\ abort \in Seq(LpRecord)
          BY Zenon, <1>1, <2>3
      <4>. QED
          BY <4>1, ConcatPoints
    <3>2. 1 \in 1 .. Len(abort)
        BY <2>3
    <3>. QED
        BY Zenon, <2>1, <2>3, <3>1, <3>2
  <2>6. SentFromLocal'
    <3>. SUFFICES ASSUME NEW i \in 1 .. Len(lpSent) + 1
                  PROVE  /\ lpSent'[i].seq = i
                         /\ \/ i <= Len(lpSession.local) /\ lpSent'[i] = lpSession.local[i]
                            \/ /\ ~lpSession'.open /\ i = Len(lpSent')
                               /\ lpSent'[i].kind = "abort"
        BY <1>6, <2>5 DEF SentFromLocal
    <3>1. CASE i \in 1 .. Len(lpSent)
        BY <2>1, <2>5, <3>1 DEF LpInv, SentFromLocal
    <3>2. CASE i = Len(lpSent) + 1
        BY Zenon, <1>1, <2>1, <2>4, <2>5, <3>2 DEF LpSessions
    <3>. QED
        BY <1>1, <3>1, <3>2
  <2>. QED
      BY <1>3, <1>4, <1>6, <1>7, <2>1, <2>3, <2>6, SentGrows, ZenonT(30) DEF LpInv,
         LpTypeOK, LpSessions
<1>. QED
    BY Zenon, <1>8, <1>9

-----------------------------------------------------------------------------
(* Steps of the broker and of the subscribers.                             *)

\* They leave the session and what it wrote alone, so they keep LpInv when
\* they keep Delivered.
LEMMA BrokerStep ==
    ASSUME LpInv, UNCHANGED << lpSession, lpSent, lpStream, lpReplay >>,
           lpTask' \in [at : {"none", "waiting", "reading", "ended"}, read : 0 .. Len(lpSent)],
           lpRoom' \in LpRooms(Written),
           lpSubs' \in [LpSubscribers -> LpReceivers(Written)],
           \A s \in LpSubscribers :
              /\ Len(lpSubs'[s].shown) <= Len(lpSent)
              /\ \A i \in 1 .. Len(lpSubs'[s].shown) : lpSubs'[s].shown[i] = lpSent[i]
    PROVE  LpInv'
<1>1. Written \subseteq LpRecord /\ Written' = Written
    BY DEF Written, LpInv, LpTypeOK
<1>2. lpRoom' \in LpRooms(LpRecord) /\ lpSubs' \in [LpSubscribers -> LpReceivers(LpRecord)]
    BY <1>1, Grows, Zenon
<1>3. LpTypeOK'
    BY Zenon, <1>2 DEF LpInv, LpTypeOK
<1>4. Delivered'
    BY Zenon, <1>1 DEF Delivered
<1>. QED
    BY Zenon, <1>3, <1>4 DEF LpInv, SessionInv, SentFromLocal

\* In particular when they change the room only.
LEMMA RoomStep ==
    ASSUME LpInv, UNCHANGED << lpSession, lpSent, lpStream, lpReplay, lpSubs >>,
           lpTask' \in [at : {"none", "waiting", "reading", "ended"}, read : 0 .. Len(lpSent)],
           lpRoom' \in LpRooms(Written)
    PROVE  LpInv'
BY Zenon, BrokerStep DEF LpInv, Delivered

\* The publish task and the room's timers.
LEMMA RoomInv ==
    ASSUME LpInv,
           BrokerPublishOpens \/ BrokerPublishRefused \/ BrokerWaitEnds \/ BrokerRoomTimer \/ LpTick
    PROVE  LpInv'
<1>. DEFINE R == Written
            T == [at : {"none", "waiting", "reading", "ended"}, read : 0 .. Len(lpSent)]
<1>1. lpTask \in T /\ lpRoom \in LpRooms(R)
    BY Zenon DEF LpInv, LpTypeOK, Delivered
<1>2. NoRoom \in LpRooms(R) /\ NewRoom \in LpRooms(R) /\ PurgeRooms(lpRoom) \in LpRooms(R)
    BY Zenon, <1>1, RoomsPurged
<1>3. \A at \in {"none", "waiting", "reading", "ended"} : [lpTask EXCEPT !.at = at] \in T
    BY Zenon, <1>1
<1>4. lpTask' \in T
    BY Zenon, <1>1, <1>3
         DEF BrokerPublishOpens, BrokerPublishRefused, BrokerWaitEnds, BrokerRoomTimer,
             LpTick
<1>5. UNCHANGED << lpSession, lpSent, lpStream, lpReplay, lpSubs >>
    BY Zenon DEF BrokerPublishOpens, BrokerPublishRefused, BrokerWaitEnds,
       BrokerRoomTimer, LpTick
<1>6. lpRoom' \in LpRooms(R)
  <2>. HIDE DEF R
  <2>1. CASE ~LpTick
      BY Zenon, <1>1, <1>2, <2>1
           DEF BrokerPublishOpens, BrokerPublishRefused, BrokerWaitEnds, BrokerRoomTimer
  <2>2. CASE LpTick
    <3>1. CASE lpRoom' = [lpRoom EXCEPT !.idle = TRUE]
        BY <1>1, <3>1, Zenon DEF LpRooms
    <3>2. ASSUME NEW i \in DOMAIN lpRoom.backlog,
                 lpRoom' = [lpRoom EXCEPT !.backlog[i].aged = TRUE]
          PROVE  lpRoom' \in LpRooms(R)
      <4>. DEFINE E == [rec : R, aged : BOOLEAN]
                  log == [lpRoom.backlog EXCEPT ![i].aged = TRUE]
      <4>1. lpRoom.backlog \in Seq(E) /\ Len(lpRoom.backlog) <= LpBacklogDepth
          BY Zenon, <1>1 DEF LpRooms
      <4>2. lpRoom.backlog[i] \in E /\ [lpRoom.backlog[i] EXCEPT !.aged = TRUE] \in E
        <5>1. lpRoom.backlog[i] \in E
          <6>. HIDE DEF E
          <6>. QED
              BY <3>2, <4>1
        <5>. QED
            BY <5>1, Zenon
      <4>3. log \in Seq(E) /\ Len(log) = Len(lpRoom.backlog)
          BY <3>2, <4>1, <4>2
      <4>4. lpRoom' = [lpRoom EXCEPT !.backlog = log]
          BY Zenon, <1>1, <3>2 DEF LpRooms
      <4>. HIDE DEF log
      <4>. QED
          BY Zenon, <1>1, <4>1, <4>3, <4>4 DEF LpRooms
    <3>. QED
        BY Zenon, <2>2, <3>1, <3>2 DEF LpTick
  <2>. QED
      BY Zenon, <2>1, <2>2
<1>. QED
    BY Zenon, <1>4, <1>5, <1>6, RoomStep

\* A receiver whose record is changed but for what it has shown.
LEMMA ShownStays ==
    ASSUME LpInv, NEW s \in LpSubscribers, lpSubs'[s].shown = lpSubs[s].shown
    PROVE  /\ Len(lpSubs'[s].shown) <= Len(lpSent)
           /\ \A i \in 1 .. Len(lpSubs'[s].shown) : lpSubs'[s].shown[i] = lpSent[i]
BY Zenon DEF LpInv, Delivered

\* publish hands the next written record on.
LEMMA BrokerPublishInv == ASSUME LpInv, BrokerPublish PROVE LpInv'
<1>. DEFINE R == Written
            purged == PurgeRooms(lpRoom)
            base == IF purged.present /\ ~purged.finished THEN purged ELSE NewRoom
            rec == lpSent[lpTask.read + 1]
            room == [Retained(base, rec) EXCEPT !.idle = FALSE]
            kept == DropSlow(room)
<1>1. /\ lpTask.read < Len(lpSent) /\ lpTask' = [lpTask EXCEPT !.read = @ + 1]
      /\ lpRoom' = IF EmptyUnfinished(kept) THEN NoRoom ELSE kept
      /\ lpSubs' = [s \in LpSubscribers |->
                     IF s \in room.subs /\ HasSpace(s) THEN [lpSubs[s] EXCEPT !.queue = Append(@, rec)]
                     ELSE IF s \in room.subs \ kept.subs THEN [lpSubs[s] EXCEPT !.live = FALSE]
                     ELSE lpSubs[s]]
      /\ UNCHANGED << lpSession, lpSent, lpStream, lpReplay >>
    BY Zenon DEF BrokerPublish
<1>2. /\ lpTask \in [at : {"none", "waiting", "reading", "ended"}, read : 0 .. Len(lpSent)]
      /\ lpRoom \in LpRooms(R) /\ lpSubs \in [LpSubscribers -> LpReceivers(R)]
      /\ Len(lpSent) \in Nat
    BY DEF LpInv, LpTypeOK, Delivered
<1>3. rec \in R /\ lpTask' \in [at : {"none", "waiting", "reading", "ended"}, read : 0 .. Len(lpSent)]
    BY <1>1, <1>2 DEF Written
<1>. HIDE DEF R, rec
<1>4. base \in LpRooms(R) /\ NoRoom \in LpRooms(R)
    BY <1>2, RoomsPurged, Zenon
<1>. HIDE DEF base
<1>5. Retained(base, rec) \in LpRooms(R)
    BY Zenon, <1>3, <1>4, RoomsRetain
<1>6. room \in LpRooms(R) /\ kept \in LpRooms(R)
    BY <1>5, Zenon DEF LpRooms, DropSlow
<1>. HIDE DEF room, kept
<1>7. lpRoom' \in LpRooms(R)
    BY Zenon, <1>1, <1>4, <1>6
<1>8. ASSUME NEW s \in LpSubscribers
      PROVE  lpSubs'[s] \in LpReceivers(R) /\ lpSubs'[s].shown = lpSubs[s].shown
  <2>1. lpSubs[s] \in LpReceivers(R) /\ lpSubs[s].queue \in Seq(R)
      BY Zenon, <1>2 DEF LpReceivers
  <2>2. CASE s \in room.subs /\ HasSpace(s)
    <3>1. lpSubs'[s] = [lpSubs[s] EXCEPT !.queue = Append(@, rec)]
        BY Zenon, <1>1, <2>2
    <3>2. /\ Append(lpSubs[s].queue, rec) \in Seq(R)
          /\ Len(Append(lpSubs[s].queue, rec)) = Len(lpSubs[s].queue) + 1
          /\ Len(lpSubs[s].queue) \in Nat
        BY <1>3, <2>1, AppendPoints
    <3>3. Len(Append(lpSubs[s].queue, rec)) <= LpQueueDepth
        BY <2>2, <3>2, LpAssumption DEF HasSpace
    <3>. QED
        BY <2>1, <3>1, <3>2, <3>3, Zenon DEF LpReceivers
  <2>3. CASE ~(s \in room.subs /\ HasSpace(s))
    <3>1. lpSubs'[s] \in {[lpSubs[s] EXCEPT !.live = FALSE], lpSubs[s]}
        BY Zenon, <1>1, <2>3
    <3>. QED
        BY <2>1, <3>1, Zenon DEF LpReceivers
  <2>. QED
      BY Zenon, <2>2, <2>3
<1>9. lpSubs' \in [LpSubscribers -> LpReceivers(R)]
    BY <1>1, <1>8, Zenon
<1>. QED
    BY Zenon, <1>1, <1>3, <1>7, <1>8, <1>9, BrokerStep, ShownStays DEF R

\* mark_room_finished closes every queue.
LEMMA BrokerPublishEndsInv == ASSUME LpInv, BrokerPublishEnds PROVE LpInv'
<1>. DEFINE R == Written
            room == [PurgeRooms(lpRoom) EXCEPT !.subs = {}]
<1>1. /\ lpTask' = [lpTask EXCEPT !.at = "ended"]
      /\ lpRoom' = IF room.backlog = << >> THEN NoRoom
                   ELSE [room EXCEPT !.finished = TRUE, !.idle = FALSE]
      /\ lpSubs' = [s \in LpSubscribers |-> IF s \in lpRoom.subs
                                            THEN [lpSubs[s] EXCEPT !.live = FALSE] ELSE lpSubs[s]]
      /\ UNCHANGED << lpSession, lpSent, lpStream, lpReplay >>
    BY Zenon DEF BrokerPublishEnds
<1>2. /\ lpTask \in [at : {"none", "waiting", "reading", "ended"}, read : 0 .. Len(lpSent)]
      /\ lpRoom \in LpRooms(R) /\ lpSubs \in [LpSubscribers -> LpReceivers(R)]
    BY Zenon DEF LpInv, LpTypeOK, Delivered
<1>3. lpTask' \in [at : {"none", "waiting", "reading", "ended"}, read : 0 .. Len(lpSent)]
    BY Zenon, <1>1, <1>2
<1>. HIDE DEF R
<1>4. PurgeRooms(lpRoom) \in LpRooms(R) /\ NoRoom \in LpRooms(R)
    BY Zenon, <1>2, RoomsPurged
<1>5. lpRoom' \in LpRooms(R)
    BY <1>1, <1>4, Zenon DEF LpRooms
<1>6. ASSUME NEW s \in LpSubscribers
      PROVE  lpSubs'[s] \in LpReceivers(R) /\ lpSubs'[s].shown = lpSubs[s].shown
  <2>1. lpSubs'[s] \in {[lpSubs[s] EXCEPT !.live = FALSE], lpSubs[s]} /\ lpSubs[s] \in LpReceivers(R)
      BY Zenon, <1>1, <1>2
  <2>. QED
      BY <2>1, Zenon DEF LpReceivers
<1>7. lpSubs' \in [LpSubscribers -> LpReceivers(R)]
    BY Zenon, <1>1, <1>6
<1>. QED
    BY Zenon, <1>1, <1>3, <1>5, <1>6, <1>7, BrokerStep, ShownStays DEF R

\* A step of one subscriber.
LEMMA OneSubscriber ==
    ASSUME LpInv, NEW s \in LpSubscribers, NEW sub \in LpReceivers(Written),
           lpSubs' = [lpSubs EXCEPT ![s] = sub], lpRoom' \in LpRooms(Written),
           Len(sub.shown) <= Len(lpSent),
           \A i \in 1 .. Len(sub.shown) : sub.shown[i] = lpSent[i],
           UNCHANGED << lpSession, lpSent, lpStream, lpTask, lpReplay >>
    PROVE  LpInv'
BY BrokerStep DEF LpInv, Delivered, LpTypeOK

\* Leaving and joining a room.
LEMMA RoomsLeft ==
    ASSUME NEW R, NEW room \in LpRooms(R), NEW s \in LpSubscribers
    PROVE  Left(room, s) \in LpRooms(R) /\ Joined(PurgeRooms(room), s) \in LpRooms(R)
<1>1. /\ PurgeRooms(room) \in LpRooms(R) /\ NoRoom \in LpRooms(R) /\ NewRoom \in LpRooms(R)
    BY Zenon, RoomsPurged
<1>2. Touch(PurgeRooms(room)) \in LpRooms(R) /\ Touch(NewRoom) \in LpRooms(R)
    BY Zenon, <1>1, RoomsPurged
<1>3. \A r \in LpRooms(R) : /\ [r EXCEPT !.subs = @ \ {s}] \in LpRooms(R)
                            /\ [r EXCEPT !.subs = @ \cup {s}] \in LpRooms(R)
    BY Zenon DEF LpRooms
<1>. QED
    BY <1>1, <1>2, <1>3, Zenon DEF Left, Joined

\* subscribe, a refusal, and the ends of a subscription.
LEMMA SubscriptionInv ==
    ASSUME LpInv, NEW s \in LpSubscribers,
           \/ BrokerSubscribe(s) \/ BrokerSubscribeRefused(s) \/ SubscriberEnds(s)
           \/ SubscriberTimesOut(s) \/ BrokerWriteFails(s)
    PROVE  LpInv'
<1>. DEFINE R == Written
            joined == Joined(PurgeRooms(lpRoom), s)
            log == [i \in DOMAIN joined.backlog |-> joined.backlog[i].rec]
<1>1. /\ lpRoom \in LpRooms(R) /\ lpSubs \in [LpSubscribers -> LpReceivers(R)]
      /\ lpSubs[s] \in LpReceivers(R) /\ Len(lpSubs[s].shown) <= Len(lpSent)
      /\ \A i \in 1 .. Len(lpSubs[s].shown) : lpSubs[s].shown[i] = lpSent[i]
    BY Zenon DEF LpInv, Delivered
<1>2. Len(lpSent) \in Nat
    BY DEF LpInv, LpTypeOK
<1>3. UNCHANGED << lpSession, lpSent, lpStream, lpTask, lpReplay >>
    BY Zenon DEF BrokerSubscribe, BrokerSubscribeRefused, SubscriberEnds,
       SubscriberTimesOut,
             BrokerWriteFails
<1>4. /\ PurgeRooms(lpRoom) \in LpRooms(R) /\ NoRoom \in LpRooms(R)
      /\ Left(lpRoom, s) \in LpRooms(R) /\ joined \in LpRooms(R)
    BY Zenon, <1>1, RoomsPurged, RoomsLeft
<1>5. lpRoom' \in LpRooms(R)
  <2>. HIDE DEF R
  <2>. QED
      BY Zenon, <1>1, <1>4
               DEF BrokerSubscribe, BrokerSubscribeRefused, SubscriberEnds,
                   SubscriberTimesOut,
                   BrokerWriteFails
<1>6. CASE BrokerSubscribe(s)
  <2>. DEFINE live == s \in joined.subs
              sub == [NoStream EXCEPT !.at = "reading", !.served = TRUE, !.live = live, !.backlog = log]
  <2>1. lpSubs' = [lpSubs EXCEPT ![s] = sub]
      BY Zenon, <1>6 DEF BrokerSubscribe
  <2>2. log \in Seq(R)
    <3>. HIDE DEF R, joined
    <3>1. joined.backlog \in Seq([rec : R, aged : BOOLEAN])
        BY Zenon, <1>4 DEF LpRooms
    <3>. DEFINE E == [rec : R, aged : BOOLEAN]
    <3>2. /\ Len(joined.backlog) \in Nat /\ DOMAIN joined.backlog = 1 .. Len(joined.backlog)
          /\ \A i \in 1 .. Len(joined.backlog) : joined.backlog[i] \in E
      <4>. HIDE DEF E
      <4>1. joined.backlog \in Seq(E)
          BY Zenon, <3>1 DEF E
      <4>. QED
          BY <4>1
    <3>3. log \in [1 .. Len(joined.backlog) -> R]
        BY Zenon, <3>2
    <3>. QED
        BY <3>2, <3>3, SeqDef
  <2>3. << >> \in Seq(R) /\ Len(<< >>) = 0
      BY Zenon, EmptySeq
  <2>4. sub \in LpReceivers(R) /\ sub.shown = << >>
    <3>1. NoStream \in LpReceivers(R) /\ NoStream.shown = << >>
        BY <2>3, LpAssumption DEF NoStream, LpReceivers
    <3>2. live \in BOOLEAN
        OBVIOUS
    <3>. HIDE DEF R, log, live
    <3>. QED
        BY <2>2, <3>1, <3>2, Zenon DEF LpReceivers
  <2>. HIDE DEF sub
  <2>5. Len(sub.shown) <= Len(lpSent) /\ \A i \in 1 .. Len(sub.shown) : sub.shown[i] = lpSent[i]
      BY <1>2, <2>3, <2>4
  <2>. QED
      BY <1>3, <1>5, <2>1, <2>4, <2>5, OneSubscriber, ZenonT(30) DEF R
<1>7. CASE ~BrokerSubscribe(s)
  <2>. DEFINE sub == lpSubs[s]
              ended == IF sub.shown = << >> THEN "failed" ELSE "ended"
              next == {[sub EXCEPT !.at = "failed"], [sub EXCEPT !.served = FALSE, !.at = ended],
                       [sub EXCEPT !.served = FALSE, !.live = FALSE,
                                   !.backlog = << >>, !.queue = << >>]}
  <2>1. PICK new \in next : lpSubs' = [lpSubs EXCEPT ![s] = new]
      BY <1>7, Zenon DEF BrokerSubscribeRefused, SubscriberEnds, SubscriberTimesOut,
         BrokerWriteFails
  <2>2. << >> \in Seq(R) /\ Len(<< >>) = 0
      BY Zenon, EmptySeq
  <2>3. new \in LpReceivers(R) /\ new.shown = lpSubs[s].shown
    <3>. HIDE DEF R
    <3>1. 0 <= LpQueueDepth
        BY LpAssumption
    <3>2. CASE new = [sub EXCEPT !.at = "failed"]
        BY <1>1, <3>2, Zenon DEF LpReceivers
    <3>3. CASE new = [sub EXCEPT !.served = FALSE, !.at = ended]
        BY <1>1, <3>3, Zenon DEF LpReceivers
    <3>4. CASE new = [sub EXCEPT !.served = FALSE, !.live = FALSE,
                                 !.backlog = << >>, !.queue = << >>]
        BY <1>1, <2>2, <3>1, <3>4, ZenonT(30) DEF LpReceivers
    <3>. QED
        BY Zenon, <3>2, <3>3, <3>4
  <2>. HIDE DEF next
  <2>. QED
      BY <1>1, <1>3, <1>5, <2>1, <2>3, OneSubscriber, ZenonT(30) DEF R
<1>. QED
    BY Zenon, <1>6, <1>7

\* The receiver accepts the next record only, and that is the next written one.
LEMMA SubscriberReadsInv ==
    ASSUME LpInv, NEW s \in LpSubscribers, SubscriberReads(s) PROVE LpInv'
<1>. DEFINE R == Written
            sub == lpSubs[s]
<1>1. /\ lpRoom \in LpRooms(R) /\ lpSubs \in [LpSubscribers -> LpReceivers(R)]
      /\ sub \in LpReceivers(R) /\ Len(sub.shown) <= Len(lpSent)
      /\ \A i \in 1 .. Len(sub.shown) : sub.shown[i] = lpSent[i]
    BY Zenon DEF LpInv, Delivered
<1>2. lpSent \in Seq(LpRecord) /\ Len(lpSent) \in Nat
    BY DEF LpInv, LpTypeOK
<1>3. UNCHANGED << lpSession, lpSent, lpStream, lpTask, lpRoom, lpReplay >>
    BY Zenon DEF SubscriberReads
<1>4. PICK rest \in LpReceivers(R), rec \in R :
          rest.shown = sub.shown /\ lpSubs' = [lpSubs EXCEPT ![s] = Received(rest, rec)]
  <2>. HIDE DEF R
  <2>1. CASE sub.backlog # << >> /\ lpSubs' = [lpSubs EXCEPT ![s] =
                         Received([sub EXCEPT !.backlog = Tail(@)], Head(sub.backlog))]
    <3>1. sub.backlog \in Seq(R)
        BY Zenon, <1>1 DEF LpReceivers
    <3>2. Tail(sub.backlog) \in Seq(R) /\ Head(sub.backlog) \in R
        BY Zenon, <2>1, <3>1, TailPoints
    <3>3. /\ [sub EXCEPT !.backlog = Tail(@)] \in LpReceivers(R)
          /\ [sub EXCEPT !.backlog = Tail(@)].shown = sub.shown
        BY <1>1, <3>2, Zenon DEF LpReceivers
    <3>. QED
        BY <2>1, <3>2, <3>3, Zenon
  <2>2. CASE sub.queue # << >> /\ lpSubs' = [lpSubs EXCEPT ![s] =
                         Received([sub EXCEPT !.queue = Tail(@)], Head(sub.queue))]
    <3>1. sub.queue \in Seq(R) /\ Len(sub.queue) <= LpQueueDepth
        BY Zenon, <1>1 DEF LpReceivers
    <3>2. /\ Tail(sub.queue) \in Seq(R) /\ Head(sub.queue) \in R
          /\ Len(Tail(sub.queue)) = Len(sub.queue) - 1 /\ Len(sub.queue) \in Nat
        BY <2>2, <3>1, TailPoints
    <3>3. Len(Tail(sub.queue)) <= LpQueueDepth
        BY <3>1, <3>2, LpAssumption
    <3>4. /\ [sub EXCEPT !.queue = Tail(@)] \in LpReceivers(R)
          /\ [sub EXCEPT !.queue = Tail(@)].shown = sub.shown
        BY <1>1, <3>2, <3>3, ZenonT(30) DEF LpReceivers
    <3>. QED
        BY <2>2, <3>2, <3>4, ZenonT(30)
  <2>. QED
      BY Zenon, <2>1, <2>2 DEF SubscriberReads
<1>. DEFINE new == Received(rest, rec)
<1>5. /\ new \in LpReceivers(R)
      /\ \/ new.shown = sub.shown
         \/ rec.seq = Len(sub.shown) + 1 /\ new.shown = Append(sub.shown, rec)
    BY <1>4, ReceivesNext
<1>6. PICK n \in 1 .. Len(lpSent) : rec = lpSent[n] /\ rec.seq = n
    BY <1>4 DEF LpInv, SentFromLocal, Written
<1>. HIDE DEF new
<1>7. CASE new.shown = sub.shown
    BY <1>1, <1>3, <1>4, <1>5, <1>7, OneSubscriber, Zenon DEF new
<1>8. CASE rec.seq = Len(sub.shown) + 1 /\ new.shown = Append(sub.shown, rec)
  <2>1. sub.shown \in Seq(R) /\ Len(sub.shown) \in Nat
      BY <1>1 DEF LpReceivers
  <2>2. Len(new.shown) = Len(sub.shown) + 1 /\ new.shown[Len(sub.shown) + 1] = rec
        /\ \A i \in 1 .. Len(sub.shown) : new.shown[i] = sub.shown[i]
      BY <1>4, <1>8, <2>1, AppendPoints
  <2>3. Len(new.shown) <= Len(lpSent) /\ \A i \in 1 .. Len(new.shown) : new.shown[i] = lpSent[i]
      BY <1>6, <1>8, <2>2, <2>1, <1>1, <1>2
  <2>. QED
      BY <1>1, <1>3, <1>4, <1>5, <2>3, OneSubscriber, ZenonT(30) DEF new
<1>. QED
    BY Zenon, <1>5, <1>7, <1>8

-----------------------------------------------------------------------------
(* The theorems.                                                           *)

\* A closed session with no subscribers satisfies the invariant.
LEMMA LpInitInv == LpInit => LpInv
<1>. SUFFICES ASSUME LpInit PROVE LpInv
    BY Zenon
<1>1. /\ << >> \in Seq(LpPiece) /\ << >> \in Seq(LpRecord) /\ << >> \in Seq(Written)
      /\ Len(<< >>) = 0
    BY Zenon, EmptySeq
<1>2. lpSent = << >> /\ lpStream = "none" /\ lpTask = [at |-> "none", read |-> 0]
    BY Zenon DEF LpInit
<1>3. /\ lpSession = [open |-> TRUE, connecting |-> TRUE, publisher |-> FALSE, failed |-> FALSE,
                      entries |-> 0, pending |-> << >>, local |-> << >>, appends |-> 0]
      /\ lpRoom = NoRoom /\ lpSubs = [s \in LpSubscribers |-> NoStream] /\ lpReplay \in BOOLEAN
    BY Zenon DEF LpInit
<1>4. 0 \in 0 .. LpPendingCap /\ 0 \in 0 .. LpMaxAppends /\ 0 <= LpQueueDepth /\ 0 <= LpBacklogDepth
    BY LpAssumption
<1>5. ASSUME NEW R, << >> \in Seq(R), << >> \in Seq([rec : R, aged : BOOLEAN])
      PROVE  NoRoom \in LpRooms(R) /\ NoStream \in LpReceivers(R)
    BY Zenon, <1>1, <1>4, <1>5 DEF NoRoom, LpRooms, NoStream, LpReceivers
<1>6. /\ NoRoom \in LpRooms(LpRecord) /\ NoRoom \in LpRooms(Written)
      /\ NoStream \in LpReceivers(LpRecord) /\ NoStream \in LpReceivers(Written)
  <2>1. << >> \in Seq([rec : LpRecord, aged : BOOLEAN]) /\ << >> \in Seq([rec : Written, aged : BOOLEAN])
      BY Zenon, EmptySeq
  <2>. QED
      BY Zenon, <1>1, <1>5, <2>1
<1>7. LpTypeOK
    BY SMTT(30), <1>1, <1>2, <1>3, <1>4, <1>6 DEF LpTypeOK
<1>8. SessionInv
  <2>1. NumberFrom(1, << >>) = << >>
    <3>1. NumberFrom(1, << >>) \in Seq(LpRecord) /\ Len(NumberFrom(1, << >>)) = Len(<< >>)
        BY <1>1, Numbered, Zenon
    <3>. QED
        BY Zenon, <1>1, <3>1, EmptySeq
  <2>. QED
      BY Zenon, <1>2, <1>3, <2>1 DEF SessionInv
<1>9. SentFromLocal
    BY <1>1, <1>2 DEF SentFromLocal
<1>10. Delivered
    BY <1>3, <1>1, <1>2, <1>6 DEF NoStream, Delivered
<1>. QED
    BY Zenon, <1>7, <1>8, <1>9, <1>10 DEF LpInv

\* Every step keeps the invariant.
LEMMA LpNextInv == LpInv /\ [LpNext]_lpVars => LpInv'
<1>. SUFFICES ASSUME LpInv, [LpNext]_lpVars PROVE LpInv'
    BY Zenon
<1>1. CASE ComposeAppend
    BY Zenon, <1>1, ComposeAppendInv
<1>2. CASE ComposeConnected
    BY Zenon, <1>2, ComposeConnectedInv
<1>3. CASE ComposeConnectFails \/ ComposeFinish \/ ComposeCancel \/ ComposeAbandoned
    BY Zenon, <1>3, ComposeEndsInv
<1>4. CASE BrokerPublishOpens \/ BrokerPublishRefused \/ BrokerWaitEnds \/ BrokerRoomTimer \/ LpTick
    BY Zenon, <1>4, RoomInv
<1>5. CASE BrokerPublish
    BY Zenon, <1>5, BrokerPublishInv
<1>6. CASE BrokerPublishEnds
    BY Zenon, <1>6, BrokerPublishEndsInv
<1>7. ASSUME NEW s \in LpSubscribers, SubscriberReads(s) PROVE LpInv'
    BY Zenon, <1>7, SubscriberReadsInv
<1>8. ASSUME NEW s \in LpSubscribers,
             \/ BrokerSubscribe(s) \/ BrokerSubscribeRefused(s) \/ SubscriberEnds(s)
             \/ SubscriberTimesOut(s) \/ BrokerWriteFails(s)
      PROVE  LpInv'
    BY Zenon, <1>8, SubscriptionInv
<1>9. CASE UNCHANGED lpVars
    BY <1>9, SentStays DEF lpVars, LpInv, LpTypeOK, SessionInv, SentFromLocal
<1>. QED
    BY SMTT(30), <1>1, <1>2, <1>3, <1>4, <1>5, <1>6, <1>7, <1>8, <1>9 DEF LpNext

\* What is shown is the first of what is written, so, but for an Abort at its
\* end, the first of the transcript.
LEMMA ShownIsPrefix == LpInv => PreviewIsPrefix
<1>. SUFFICES ASSUME LpInv, NEW s \in LpSubscribers, NEW i \in 1 .. Len(lpSubs[s].shown)
              PROVE  \/ i <= Len(lpSession.local) /\ lpSubs[s].shown[i] = lpSession.local[i]
                     \/ i = Len(lpSubs[s].shown) /\ lpSubs[s].shown[i].kind = "abort"
    BY Zenon DEF PreviewIsPrefix
<1>. DEFINE shown == lpSubs[s].shown
            local == lpSession.local
<1>1. /\ shown \in Seq(LpRecord) /\ Len(shown) \in Nat /\ local \in Seq(LpRecord)
      /\ Len(local) \in Nat /\ Len(lpSent) \in Nat
    BY DEF LpInv, LpTypeOK, LpReceivers
<1>2. Len(shown) <= Len(lpSent) /\ \A k \in 1 .. Len(shown) : shown[k] = lpSent[k]
    BY Zenon DEF LpInv, Delivered
<1>. QED
    BY SMTT(30), <1>1, <1>2 DEF LpInv, SentFromLocal

\* LpInv is an invariant.
THEOREM LpInvariance == LpSpec => []LpInv
BY LpInitInv, LpNextInv, PTL DEF LpSpec

\* The session, the stream, the room and the receivers keep their types: the
\* buffer and the backlog stay within their bounds, a subscriber's queue within
\* its depth (push_bounded, Retained in publish, HasSpace).
THEOREM LpTypeCorrect == LpSpec => []LpTypeOK
<1>1. LpInv => LpTypeOK
    BY Zenon DEF LpInv
<1>. QED
    BY <1>1, LpInvariance, PTL

\* A subscriber never shows anything but a beginning of the transcript, with at
\* most an Abort after it, whenever it joins, however slowly it reads, and
\* wherever the publisher's writes are cut off (subscribe loop of client.rs,
\* subscribe and publish of state.rs, flush_pending_live_records).
THEOREM PreviewIsPrefixHolds == LpSpec => []PreviewIsPrefix
BY ShownIsPrefix, LpInvariance, PTL
=============================================================================
