------------------------- MODULE SubscriptionsProofs ------------------------
(***************************************************************************)
(* A subscription that falls behind recovers, for any number of messages,  *)
(* groups and versions and every size of the channel, the buffer and the   *)
(* memory of seen ids.                                                     *)
(*                                                                         *)
(* A timeline subscription: every announced message newer than the         *)
(* watermark is in the channel, in the task's hands, or forwarded, unless  *)
(* the task is about to find out that it lagged (MessagesOwed); the memory *)
(* of seen ids is what makes forwarding happen once (ForwardedOnce). A     *)
(* chat-list subscription: the last event about a group in the channel     *)
(* carries its current row (EventsCurrent), a group the channel says       *)
(* nothing of is up to date in the fingerprints or on its way (RowsOwed),  *)
(* and a fingerprint is that of the row the caller has or is about to have *)
(* (PrintsTrue).                                                           *)
(***************************************************************************)
EXTENDS Subscriptions, FiniteSetTheorems, WellFoundedInduction, TLAPS

\* Each element of a sequence occurs once.
Once(q) == \A i, j \in DOMAIN q : q[i] = q[j] => i = j

\* Forwarded to the caller, who may not have taken it yet.
Forwarded(m) == m \in Range(suOut) \/ suGot[m] >= 1

\* Every announced message newer than the watermark is on its way or was
\* forwarded, unless the task is about to find out that it fell behind or a read
\* has failed; only forwarded messages are held as seen.
MessagesOwed ==
    /\ suAt = "live" /\ ~suLag /\ ~suFailed =>
          \A m \in suStore \ suUnsaid : IsNewer(m) =>
              m \in Range(suRing) \/ m \in Range(suPending) \/ Forwarded(m)
    /\ \A m \in Range(suSeen) : Forwarded(m)

\* While the memory of seen ids holds all messages, what was forwarded is in it
\* and nothing is forwarded twice.
ForwardedOnce ==
    Cardinality(SuMessages) <= SuSeenLimit =>
        /\ \A m \in Range(suOut) : m \in Range(suSeen) /\ suGot[m] = 0
        /\ \A m \in SuMessages : suGot[m] >= 1 => m \in Range(suSeen) /\ suGot[m] = 1
        /\ Once(suOut)

\* The types of a timeline subscription; before it is live it has sent
\* nothing.
MessagesTyped ==
    /\ suStore \subseteq SuMessages /\ suUnsaid \subseteq suStore
    /\ suMark \subseteq SuMessages /\ suGot \in [SuMessages -> Nat]
    /\ suRing \in Seq(SuMessages) /\ suPending \in Seq(SuMessages)
    /\ suOut \in Seq(SuMessages) /\ suSeen \in Seq(SuMessages) /\ Once(suSeen)
    /\ suAt # "live" => /\ suPending = <<>> /\ suOut = <<>> /\ suSeen = <<>>
                        /\ \A m \in SuMessages : suGot[m] = 0

\* The inductive invariant of a timeline subscription.
MessagesInv == MessagesTyped /\ MessagesOwed /\ ForwardedOnce

\* A sequence of rows says nothing of group g; the last it says of g, if
\* anything, is one of values.
Silent(q, g) == \A i \in DOMAIN q : q[i][1] # g
EndsIn(q, g, values) ==
    \A i \in DOMAIN q :
        q[i][1] = g /\ (\A j \in DOMAIN q : j > i => q[j][1] # g) => q[i][2] \in values

\* The last event about a group carries its row, or makes the task read it.
EventsCurrent == \A g \in SuGroups : EndsIn(suRing, g, {suChat[g], -1})

\* A row is brought up to date by an event, by the task, or is up to date.
RowsOwed == suAt = "live" /\ ~suLag /\ ~suFailed =>
    \A g \in SuGroups : Silent(suRing, g) =>
        \/ <<g, suChat[g]>> \in Range(suPending)
        \/ Silent(suPending, g) /\ suPrints[g] = suChat[g]

\* A sequence holds at most one row of a group.
RowsOnce(q) == \A i, j \in DOMAIN q : q[i][1] = q[j][1] => i = j

\* A fingerprint is that of the row the caller has or is about to have.
PrintsTrue == \A g \in SuGroups :
    /\ Silent(suOut, g) => suList[g] = suPrints[g]
    /\ EndsIn(suOut, g, {suPrints[g]})

\* The rows of the chat list, and the events and updates about them.
SuRow == SuVersions \cup {0}
SuEventSet == SuGroups \X (SuRow \cup {-1})
SuUpdateSet == SuGroups \X SuRow

\* The types of a chat-list subscription; before it is live it has sent
\* nothing.
ChatsTyped ==
    /\ suChat \in [SuGroups -> SuRow] /\ suPrints \in [SuGroups -> SuRow]
    /\ suList \in [SuGroups -> SuRow]
    /\ suRing \in Seq(SuEventSet) /\ suPending \in Seq(SuUpdateSet)
    /\ suOut \in Seq(SuUpdateSet) /\ RowsOnce(suPending)
    /\ suAt # "live" => suPending = <<>> /\ suOut = <<>>
    /\ suAt = "new" => suRing = <<>>

\* The inductive invariant of a chat-list subscription.
ChatsInv == ChatsTyped /\ EventsCurrent /\ RowsOwed /\ PrintsTrue

\* The inductive invariant, by the kind of the subscription.
SuInv ==
    /\ suKind = "messages" => MessagesInv
    /\ suKind = "chats" => ChatsInv

-----------------------------------------------------------------------------
(* Sequences.                                                              *)

\* Sequences and what they hold.
LEMMA RangeOfAppend ==
  ASSUME NEW S, NEW q \in Seq(S), NEW e \in S
  PROVE  Append(q, e) \in Seq(S) /\ Range(Append(q, e)) = Range(q) \cup {e}
<1>1. Append(q, e) \in Seq(S) /\ Len(Append(q, e)) = Len(q) + 1 /\ Len(q) \in Nat
    OBVIOUS
<1>2. /\ \A i \in 1..Len(q) : Append(q, e)[i] = q[i]
      /\ Append(q, e)[Len(q) + 1] = e
    OBVIOUS
<1>3. DOMAIN q = 1..Len(q) /\ DOMAIN Append(q, e) = 1..Len(q) + 1
    BY <1>1
<1>. QED
    BY <1>1, <1>2, <1>3 DEF Range

\* A sequence holds its head and what its tail holds.
LEMMA RangeOfTail ==
  ASSUME NEW S, NEW q \in Seq(S), q # <<>>
  PROVE  /\ Tail(q) \in Seq(S) /\ Head(q) \in S
         /\ Range(q) = Range(Tail(q)) \cup {Head(q)}
<1>1. Tail(q) \in Seq(S) /\ Head(q) \in S /\ Len(q) >= 1 /\ Len(Tail(q)) = Len(q) - 1
    OBVIOUS
<1>2. Range(Tail(q)) \subseteq Range(q) /\ Head(q) \in Range(q)
    BY <1>1 DEF Range
<1>3. ASSUME NEW i \in DOMAIN q PROVE q[i] \in Range(Tail(q)) \cup {Head(q)}
  <2>1. CASE i = 1
      BY <2>1
  <2>2. CASE i # 1
    <3>1. i - 1 \in DOMAIN Tail(q) /\ Tail(q)[i - 1] = q[i]
        BY <1>1, <2>2
    <3>. QED
        BY Zenon, <3>1 DEF Range
  <2>. QED
      BY Zenon, <2>1, <2>2
<1>. QED
    BY Zenon, <1>1, <1>2, <1>3 DEF Range

\* A sequence is longer once something is appended.
LEMMA LongerAfterAppend ==
    ASSUME NEW S, NEW q \in Seq(S), NEW e \in S
    PROVE  Append(q, e) # <<>> /\ Len(Append(q, e)) = Len(q) + 1
<1>1. Len(Append(q, e)) = Len(q) + 1 /\ Len(q) \in Nat
    OBVIOUS
<1>2. Len(<<>>) = 0
    BY Zenon
<1>. QED
    BY <1>1, <1>2

\* Appending a new element keeps elements apart.
LEMMA OnceAppend ==
    ASSUME NEW S, NEW q \in Seq(S), NEW e \in S, Once(q), e \notin Range(q)
    PROVE  Once(Append(q, e))
BY DEF Range, Once

\* Taking the head leaves the others apart, and takes it for good.
LEMMA OnceTail ==
    ASSUME NEW S, NEW q \in Seq(S), q # <<>>, Once(q)
    PROVE  Once(Tail(q)) /\ Head(q) \notin Range(Tail(q))
BY DEF Once, Range

\* Distinct members of a finite set, with one left out, are fewer than it has.
LEMMA OnceIsShort ==
    ASSUME NEW S, IsFiniteSet(S), NEW q \in Seq(S), Once(q), NEW e \in S, e \notin Range(q)
    PROVE  Len(q) < Cardinality(S)
<1>. DEFINE T == S \ {e}
            D == 1..Len(q)
<1>1. /\ IsFiniteSet(T) /\ Cardinality(T) = Cardinality(S) - 1
      /\ Cardinality(S) \in Nat /\ Cardinality(T) \in Nat
    BY Zenon, FS_RemoveElement, FS_CardinalityType
<1>2. Len(q) \in Nat /\ q \in [D -> S] /\ DOMAIN q = D
    OBVIOUS
<1>3. q \in [D -> T]
    BY Zenon, <1>2 DEF Range
<1>4. IsFiniteSet(D) /\ Cardinality(D) = Len(q)
    BY SMTT(30), <1>2, FS_Interval
<1>5. ~ (Cardinality(T) < Cardinality(D))
    BY <1>1, <1>3, <1>4, FS_PigeonHole, <1>2 DEF Once
<1>. QED
    BY <1>1, <1>2, <1>4, <1>5
\* An order of a finite set is a sequence of its members, each once.
LEMMA OrdersAreSeqs ==
    ASSUME NEW S, IsFiniteSet(S), NEW q \in Orders(S)
    PROVE  q \in Seq(S) /\ Range(q) = S /\ Once(q)
<1>. DEFINE n == Cardinality(S)
            D == 1..n
<1>1. n \in Nat /\ q \in [D -> S] /\ Range(q) = S /\ DOMAIN q = D
    BY Zenon, FS_CardinalityType DEF Orders
<1>2. IsFiniteSet(D) /\ Cardinality(D) = n
    BY <1>1, FS_Interval
<1>3. q \in Seq(S)
    BY <1>1
<1>4. q \in Surjection(D, S)
    BY <1>1, Zenon DEF Surjection, Range
<1>5. q \in Injection(D, S)
    BY Zenon, <1>2, <1>4, FS_SurjSameCardinalityImpliesInj
<1>6. Once(q)
    BY Zenon, <1>1, <1>5 DEF Once, Injection, IsInjective
<1>. QED
    BY Zenon, <1>1, <1>3, <1>6

\* A finite set of messages that is not empty has a newest member.
LEMMA NewestExists ==
    ASSUME NEW rows \in SUBSET Nat, IsFiniteSet(rows), rows # {}
    PROVE  \E r \in rows : \A x \in rows : x <= r
<1>. DEFINE Above(r) == {x \in rows : x > r}
            R == StrictSubsetOrdering(rows)
            T == {Above(r) : r \in rows}
<1>1. T \subseteq FiniteSubsetsOf(rows) /\ T # {}
  <2>1. \A r \in rows : Above(r) \subseteq rows /\ IsFiniteSet(Above(r))
      BY Zenon, FS_Subset
  <2>. QED
      BY <2>1, Zenon DEF FiniteSubsetsOf
<1>2. PICK U \in T : \A V \in T : ~ (<<V, U>> \in R)
    BY <1>1, WFMin, FS_StrictSubsetOrderingWellFounded, Zenon
<1>3. PICK r \in rows : U = Above(r)
    BY Zenon
<1>4. ASSUME NEW x \in rows, ~ (x <= r) PROVE FALSE
  <2>0. x > r /\ x \in Nat /\ r \in Nat /\ ~ (x > x) /\ \A y \in rows : y > x => y > r
      BY <1>4
  <2>1. Above(x) \subseteq Above(r) /\ x \in Above(r) /\ x \notin Above(x)
      BY <2>0, Zenon
  <2>2. Above(x) \in T /\ Above(x) \subseteq rows /\ U \subseteq rows
      BY Zenon, <1>3
  <2>3. Above(x) \subseteq U /\ Above(x) # U
      BY Zenon, <1>3, <2>1
  <2>4. <<Above(x), U>> \in R
      BY <2>2, <2>3, Zenon DEF StrictSubsetOrdering
  <2>. QED
      BY ZenonT(30), <1>2, <2>2, <2>4
<1>. QED
    BY Zenon, <1>4

\* The newest of a set of messages is among its newest n.
LEMMA NewestIsAmong ==
    ASSUME NEW rows \in SUBSET Nat, NEW n \in Nat \ {0}, NEW r \in rows,
           \A x \in rows : x <= r
    PROVE  r \in NewestOf(n, rows)
<1>1. {x \in rows : x > r} = {}
  <2>1. \A x \in rows : ~ (x > r)
      OBVIOUS
  <2>. QED
      BY <2>1, Zenon
<1>2. Cardinality({x \in rows : x > r}) = 0
    BY Zenon, <1>1, FS_EmptySet
<1>. QED
    BY <1>2 DEF NewestOf

\* A set of messages is all of its newest n when it has no more than n.
LEMMA NewestAreAll ==
    ASSUME NEW rows \in SUBSET Nat, IsFiniteSet(rows), NEW n \in Nat, Cardinality(rows) <= n
    PROVE  NewestOf(n, rows) = rows
<1>1. ASSUME NEW r \in rows PROVE Cardinality({x \in rows : x > r}) < n
    BY FS_Subset, FS_CardinalityType
<1>. QED
    BY ZenonT(30), <1>1 DEF NewestOf
\* A function on 1 .. n is a sequence.
LEMMA SeqOfFunction ==
  ASSUME NEW S, NEW n \in Nat, NEW f \in [1..n -> S]
  PROVE  f \in Seq(S)
OBVIOUS

\* A sequence over a set is one over a larger set.
LEMMA SeqMonotone ==
  ASSUME NEW S, NEW T, S \subseteq T, NEW q \in Seq(S)
  PROVE  q \in Seq(T)
OBVIOUS

-----------------------------------------------------------------------------
(* Messages.                                                               *)

\* The variables a timeline subscription depends on.
suMessageVars == <<suAt, suStore, suUnsaid, suRing, suLag, suPending, suOut, suSeen,
                   suMark, suGot>>

\* A step that moves no message keeps the invariant; a read may fail in it.
LEMMA MessagesRest ==
    ASSUME MessagesInv, UNCHANGED suMessageVars, suFailed => suFailed'
    PROVE  MessagesInv'
<1>1. MessagesTyped' /\ ForwardedOnce'
    BY DEF MessagesInv, MessagesTyped, ForwardedOnce, suMessageVars, Once, Range
<1>2. MessagesOwed'
    BY Zenon DEF MessagesInv, MessagesOwed, Forwarded, IsNewer, suMessageVars, Range
<1>. QED
    BY Zenon, <1>1, <1>2 DEF MessagesInv

\* A stored message is owed once its event was broadcast.
LEMMA StoredKeeps ==
    ASSUME MessagesInv, NEW m \in SuMessages, MessageStored(m)
    PROVE  MessagesInv'
<1>1. suStore' \ suUnsaid' = suStore \ suUnsaid
    BY Zenon DEF MessageStored
<1>2. MessagesTyped' /\ ForwardedOnce'
  <2>1. /\ UNCHANGED <<suAt, suRing, suPending, suOut, suSeen, suMark, suGot>>
        /\ suStore' = suStore \cup {m} /\ suUnsaid' = suUnsaid \cup {m}
      BY Zenon DEF MessageStored, suTask
  <2>2. MessagesTyped'
      BY Zenon, <2>1 DEF MessagesInv, MessagesTyped, Once
  <2>3. ForwardedOnce'
      BY <2>1 DEF MessagesInv, ForwardedOnce, Once, Range
  <2>. QED
      BY Zenon, <2>2, <2>3
<1>3. MessagesOwed'
    BY Zenon, <1>1 DEF MessagesInv, MessagesOwed, Forwarded, IsNewer, MessageStored,
       suTask, Range
<1>. QED
    BY Zenon, <1>2, <1>3 DEF MessagesInv

\* The event of a message is in the ring, or the ring overflows and says so.
LEMMA AnnouncedKeeps ==
    ASSUME MessagesInv, NEW m \in SuMessages, MessageAnnounced(m)
    PROVE  MessagesInv'
<1>1. /\ UNCHANGED <<suAt, suStore, suFailed, suPending, suOut, suSeen, suMark, suGot>>
      /\ suUnsaid' = suUnsaid \ {m} /\ m \in SuMessages
      /\ suRing \in Seq(SuMessages)
    BY Zenon DEF MessagesInv, MessagesTyped, MessageAnnounced, suTask
<1>2. /\ Append(suRing, m) \in Seq(SuMessages) /\ Append(suRing, m) # <<>>
      /\ Range(Append(suRing, m)) = Range(suRing) \cup {m}
    BY <1>1, RangeOfAppend
<1>3. /\ suRing' \in Seq(SuMessages)
      /\ suAt = "live" => suLag' \/ (~suLag /\ Range(suRing') = Range(suRing) \cup {m})
  <2>1. CASE suAt = "new"
      BY Zenon, <1>1, <2>1 DEF MessageAnnounced, Broadcast
  <2>2. CASE suAt # "new" /\ Len(Append(suRing, m)) > SuRing
    <3>1. suRing' = Tail(Append(suRing, m)) /\ suLag'
        BY ZenonT(30), <2>2 DEF MessageAnnounced, Broadcast
    <3>. QED
        BY <1>2, <3>1
  <2>3. CASE suAt # "new" /\ ~ (Len(Append(suRing, m)) > SuRing)
    <3>1. suRing' = Append(suRing, m) /\ (suLag' <=> suLag)
        BY ZenonT(30), <2>3 DEF MessageAnnounced, Broadcast
    <3>. QED
        BY Zenon, <1>2, <3>1
  <2>. QED
      BY Zenon, <2>1, <2>2, <2>3
<1>4. MessagesTyped'
    BY Zenon, <1>1, <1>3 DEF MessagesInv, MessagesTyped, Once
<1>5. ForwardedOnce'
    BY <1>1 DEF MessagesInv, ForwardedOnce, Once, Range
<1>6. MessagesOwed'
    BY ZenonT(30), <1>1, <1>3 DEF MessagesInv, MessagesOwed, Forwarded, IsNewer, Range
<1>. QED
    BY Zenon, <1>4, <1>5, <1>6 DEF MessagesInv

\* Subscribing to the events promises nothing yet.
LEMMA ListeningKeeps ==
    ASSUME MessagesInv, SubscribeEvents
    PROVE  MessagesInv'
BY DEF MessagesInv, MessagesTyped, ForwardedOnce, SubscribeEvents, suTask, suWorld,
   Once, Range, MessagesOwed, Forwarded, IsNewer

\* No stored message is newer than the watermark of a snapshot.
LEMMA SnapshotKeeps ==
    ASSUME suKind = "messages", MessagesInv, SubscribeSnapshot
    PROVE  MessagesInv'
<1>. DEFINE rows == NewestOf(SuLimit, suStore)
            held == NewestOf(SuSeenLimit, rows)
<1>1. /\ suStore \subseteq Nat /\ IsFiniteSet(suStore) /\ IsFiniteSet(SuMessages)
      /\ suStore \subseteq SuMessages
    BY ZenonT(30), SuAssumption, FS_Subset DEF MessagesInv, MessagesTyped
<1>2. rows \subseteq suStore /\ held \subseteq rows /\ IsFiniteSet(rows) /\ IsFiniteSet(held)
  <2>1. rows \subseteq suStore /\ held \subseteq rows
      BY Zenon DEF NewestOf
  <2>. HIDE DEF rows, held
  <2>. QED
      BY ZenonT(30), <1>1, <2>1, FS_Subset
<1>3. /\ suSeen' \in Ascending(held) /\ suMark' = {r \in rows : \A x \in rows : x <= r}
      /\ suGot' = [m \in SuMessages |-> IF m \in rows THEN 1 ELSE 0]
      /\ UNCHANGED <<suStore, suUnsaid, suRing, suLag, suPending, suOut, suFailed>>
      /\ suAt # "live" /\ suAt' = "live"
    BY Zenon DEF SubscribeSnapshot, suWorld
<1>. HIDE DEF held
<1>4. suSeen' \in Seq(held) /\ Range(suSeen') = held /\ Once(suSeen')
    BY Zenon, <1>2, <1>3, OrdersAreSeqs DEF Ascending
<1>5. suOut = <<>> /\ suPending = <<>> /\ Range(suOut) = {}
    BY <1>3 DEF MessagesInv, MessagesTyped, Range
<1>6. suSeen' \in Seq(SuMessages)
    BY ZenonT(30), <1>1, <1>2, <1>4, SeqMonotone
<1>. HIDE DEF rows
<1>7. MessagesTyped'
    BY ZenonT(30), <1>1, <1>2, <1>3, <1>4, <1>6 DEF MessagesInv, MessagesTyped, Once
<1>8. ASSUME NEW m \in suStore PROVE \E w \in suMark' : ~ (m > w)
  <2>1. PICK r \in suStore : \A x \in suStore : x <= r
      BY Zenon, <1>1, NewestExists
  <2>2. r \in rows
      BY Zenon, <1>1, <2>1, SuAssumption, NewestIsAmong DEF rows
  <2>3. r \in suMark'
      BY Zenon, <1>2, <1>3, <2>1, <2>2
  <2>. QED
      BY <1>1, <2>1, <2>3
<1>9. \A m \in rows : suGot'[m] = 1
    BY Zenon, <1>1, <1>2, <1>3
<1>10. MessagesOwed'
    BY <1>3, <1>8, <1>2, <1>4, <1>9 DEF IsNewer, MessagesOwed, Forwarded
<1>11. ForwardedOnce'
  <2>1. ASSUME Cardinality(SuMessages) <= SuSeenLimit PROVE held = rows
    <3>1. /\ Cardinality(rows) <= Cardinality(SuMessages) /\ Cardinality(rows) \in Nat
          /\ Cardinality(SuMessages) \in Nat
      <4>1. rows \subseteq SuMessages
          BY Zenon, <1>1, <1>2
      <4>. QED
          BY ZenonT(30), <1>1, <1>2, <4>1, FS_Subset, FS_CardinalityType
    <3>2. Cardinality(rows) <= SuSeenLimit
        BY <2>1, <3>1, SuAssumption
    <3>. QED
        BY Zenon, <1>1, <1>2, <3>2, SuAssumption, NewestAreAll DEF held
  <2>2. \A m \in SuMessages : suGot'[m] >= 1 => m \in rows /\ suGot'[m] = 1
      BY <1>3
  <2>3. Range(suOut') = {} /\ Once(suOut')
      BY <1>3, <1>5 DEF Once
  <2>. QED
      BY Zenon, <1>4, <2>1, <2>2, <2>3 DEF ForwardedOnce
<1>. QED
    BY Zenon, <1>7, <1>10, <1>11 DEF MessagesInv
\* The task turns to the message of the oldest event.
LEMMA TakesMessage ==
    ASSUME suKind = "messages", MessagesInv, TaskTakesEvent
    PROVE  MessagesInv'
<1>1. /\ UNCHANGED <<suAt, suStore, suUnsaid, suLag, suFailed, suOut, suSeen, suMark, suGot>>
      /\ suRing # <<>> /\ suRing' = Tail(suRing) /\ suPending' = <<Head(suRing)>>
      /\ suRing \in Seq(SuMessages) /\ suAt = "live" /\ suPending = <<>>
    BY Zenon DEF MessagesInv, MessagesTyped, TaskTakesEvent, TaskReady, UpdateFor, suWorld
<1>2. /\ suRing' \in Seq(SuMessages) /\ Head(suRing) \in SuMessages
      /\ Range(suRing) = Range(suRing') \cup {Head(suRing)}
    BY Zenon, <1>1, RangeOfTail
<1>3. /\ suPending' \in Seq(SuMessages) /\ Range(suPending') = {Head(suRing)} /\ Range(suPending) = {}
    BY <1>1, <1>2 DEF Range
<1>4. MessagesTyped'
    BY Zenon, <1>1, <1>2, <1>3 DEF MessagesInv, MessagesTyped, Once
<1>5. ForwardedOnce'
    BY <1>1 DEF MessagesInv, ForwardedOnce, Once, Range
<1>6. ASSUME NEW m PROVE Forwarded(m)' <=> Forwarded(m)
    BY Zenon, <1>1 DEF Forwarded, Range
<1>7. \A m : IsNewer(m)' <=> IsNewer(m)
    BY Zenon, <1>1 DEF IsNewer
<1>8. Range(suSeen') = Range(suSeen)
    BY Zenon, <1>1
<1>9. MessagesOwed'
    BY Zenon, <1>1, <1>2, <1>3, <1>6, <1>7, <1>8 DEF MessagesInv, MessagesOwed
<1>. QED
    BY Zenon, <1>4, <1>5, <1>9 DEF MessagesInv

\* A recovery puts every message newer than the watermark before the task.
LEMMA RecoversMessages ==
    ASSUME suKind = "messages", MessagesInv, TaskRecovers
    PROVE  MessagesInv'
<1>. DEFINE rows == {m \in suStore : IsNewer(m)}
<1>1. /\ UNCHANGED <<suAt, suStore, suUnsaid, suRing, suFailed, suOut, suSeen, suMark, suGot>>
      /\ suPending' \in Ascending(rows) /\ suAt = "live"
    BY Zenon DEF TaskRecovers, TaskReady, RecoveryRows, suWorld
<1>2. suStore \subseteq SuMessages /\ IsFiniteSet(suStore)
    BY ZenonT(30), SuAssumption, FS_Subset DEF MessagesInv, MessagesTyped
<1>3. rows \subseteq SuMessages /\ IsFiniteSet(rows)
    BY Zenon, <1>2, FS_Subset
<1>4. suPending' \in Seq(SuMessages) /\ Range(suPending') = rows
    BY Zenon, <1>1, <1>3, OrdersAreSeqs, SeqMonotone DEF Ascending
<1>5. MessagesTyped'
    BY Zenon, <1>1, <1>4 DEF MessagesInv, MessagesTyped, Once
<1>6. ForwardedOnce'
    BY <1>1 DEF MessagesInv, ForwardedOnce, Once, Range
<1>7. ASSUME NEW m PROVE Forwarded(m)' <=> Forwarded(m)
    BY Zenon, <1>1 DEF Forwarded, Range
<1>8. \A m : IsNewer(m)' <=> IsNewer(m)
    BY Zenon, <1>1 DEF IsNewer
<1>9. Range(suSeen') = Range(suSeen)
    BY Zenon, <1>1
<1>10. MessagesOwed'
    BY Zenon, <1>1, <1>4, <1>7, <1>8, <1>9 DEF MessagesInv, MessagesOwed
<1>. QED
    BY Zenon, <1>5, <1>6, <1>10 DEF MessagesInv

\* After a failed read nothing is owed.
LEMMA RecoveryFailsMessages ==
    ASSUME MessagesInv, RecoveryFails
    PROVE  MessagesInv'
BY DEF MessagesInv, MessagesTyped, ForwardedOnce, RecoveryFails, suTask, suWorld,
   Once, Range, MessagesOwed, Forwarded

\* A message is skipped only when it was forwarded.
LEMMA SkipsMessage ==
    ASSUME suKind = "messages", MessagesInv, TaskSkips
    PROVE  MessagesInv'
<1>1. /\ UNCHANGED <<suAt, suStore, suUnsaid, suRing, suLag, suFailed, suOut, suSeen, suMark,
                     suGot>>
      /\ suPending # <<>> /\ suPending' = Tail(suPending) /\ Head(suPending) \in Range(suSeen)
      /\ suPending \in Seq(SuMessages)
    BY Zenon DEF MessagesInv, MessagesTyped, TaskSkips, AlreadySent, suWorld
<1>2. /\ suPending' \in Seq(SuMessages)
      /\ Range(suPending) = Range(suPending') \cup {Head(suPending)}
    BY Zenon, <1>1, RangeOfTail
<1>3. MessagesTyped'
    BY Zenon, <1>1, <1>2 DEF MessagesInv, MessagesTyped, Once
<1>4. ForwardedOnce'
    BY <1>1 DEF MessagesInv, ForwardedOnce, Once, Range
<1>5. ASSUME NEW m PROVE Forwarded(m)' <=> Forwarded(m)
    BY Zenon, <1>1 DEF Forwarded, Range
<1>6. \A m : IsNewer(m)' <=> IsNewer(m)
    BY Zenon, <1>1 DEF IsNewer
<1>7. Range(suSeen') = Range(suSeen) /\ Range(suRing') = Range(suRing)
    BY Zenon, <1>1
<1>8. MessagesOwed'
    BY Zenon, <1>1, <1>2, <1>5, <1>6, <1>7 DEF MessagesInv, MessagesOwed
<1>. QED
    BY Zenon, <1>3, <1>4, <1>8 DEF MessagesInv

\* A message is forwarded when it is not held as seen; then it is.
LEMMA SendsMessage ==
    ASSUME suKind = "messages", MessagesInv, TaskSends
    PROVE  MessagesInv'
<1>. DEFINE h == Head(suPending)
<1>1. /\ UNCHANGED <<suAt, suStore, suUnsaid, suRing, suLag, suFailed, suMark, suGot>>
      /\ suPending # <<>> /\ suPending' = Tail(suPending) /\ h \notin Range(suSeen)
      /\ suPending \in Seq(SuMessages) /\ suOut' = Append(suOut, h)
      /\ suSeen' = Insert(suSeen, h) /\ suOut \in Seq(SuMessages)
      /\ suSeen \in Seq(SuMessages) /\ Once(suSeen) /\ suGot \in [SuMessages -> Nat]
      /\ suAt = "live"
    BY Zenon DEF MessagesInv, MessagesTyped, TaskSends, AlreadySent, suWorld
<1>2. /\ suPending' \in Seq(SuMessages) /\ h \in SuMessages
      /\ Range(suPending) = Range(suPending') \cup {h}
    BY Zenon, <1>1, RangeOfTail
<1>. HIDE DEF h
<1>3. suOut' \in Seq(SuMessages) /\ Range(suOut') = Range(suOut) \cup {h}
    BY <1>1, <1>2, RangeOfAppend
<1>4. /\ Append(suSeen, h) \in Seq(SuMessages) /\ Once(Append(suSeen, h))
      /\ Range(Append(suSeen, h)) = Range(suSeen) \cup {h} /\ Append(suSeen, h) # <<>>
      /\ Len(Append(suSeen, h)) = Len(suSeen) + 1
  <2>1. Append(suSeen, h) # <<>> /\ Len(Append(suSeen, h)) = Len(suSeen) + 1
      BY ZenonT(30), <1>1, <1>2, LongerAfterAppend
  <2>2. Once(Append(suSeen, h))
      BY Zenon, <1>1, <1>2, OnceAppend
  <2>. QED
      BY <1>1, <1>2, <2>1, <2>2, RangeOfAppend
<1>5. suSeen' \in Seq(SuMessages) /\ Once(suSeen') /\ Range(suSeen') \subseteq Range(suSeen) \cup {h}
  <2>1. CASE suSeen' = Append(suSeen, h)
      BY Zenon, <1>4, <2>1
  <2>2. CASE suSeen' = Tail(Append(suSeen, h))
    <3>1. Once(suSeen')
        BY ZenonT(30), <1>4, <2>2, OnceTail
    <3>2. PICK t : t = Append(suSeen, h)
        BY ZenonT(30)
    <3>3. t \in Seq(SuMessages) /\ t # <<>> /\ Range(t) = Range(suSeen) \cup {h}
        BY Zenon, <1>4, <3>2
    <3>4. Tail(t) \in Seq(SuMessages) /\ Range(t) = Range(Tail(t)) \cup {Head(t)}
        BY Zenon, <3>3, RangeOfTail
    <3>. QED
        BY Zenon, <2>2, <3>1, <3>2, <3>3, <3>4
  <2>. QED
      BY Zenon, <1>1, <2>1, <2>2 DEF Insert
<1>6. ASSUME Cardinality(SuMessages) <= SuSeenLimit PROVE Range(suSeen') = Range(suSeen) \cup {h}
  <2>1. Len(suSeen) < Cardinality(SuMessages)
      BY Zenon, <1>1, <1>2, SuAssumption, OnceIsShort
  <2>2. ~ (Len(suSeen) + 1 > SuSeenLimit)
      BY <1>1, <1>6, <2>1, SuAssumption, FS_CardinalityType
  <2>. QED
      BY Zenon, <1>1, <1>4, <2>2 DEF Insert
<1>7. MessagesTyped'
    BY Zenon, <1>1, <1>2, <1>3, <1>5 DEF MessagesInv, MessagesTyped
<1>8. ASSUME NEW m PROVE Forwarded(m)' <=> Forwarded(m) \/ m = h
    BY Zenon, <1>1, <1>3 DEF Forwarded
<1>9. \A m : IsNewer(m)' <=> IsNewer(m)
    BY Zenon, <1>1 DEF IsNewer
<1>10. Range(suRing') = Range(suRing)
    BY Zenon, <1>1
<1>11. MessagesOwed'
    BY Zenon, <1>1, <1>2, <1>5, <1>8, <1>9, <1>10 DEF MessagesInv, MessagesOwed
<1>12. ForwardedOnce'
    BY <1>1, <1>2, OnceAppend, <1>6, <1>3 DEF ForwardedOnce, MessagesInv
<1>. QED
    BY Zenon, <1>7, <1>11, <1>12 DEF MessagesInv

\* The caller takes a forwarded message.
LEMMA RecvMessage ==
    ASSUME suKind = "messages", MessagesInv, Recv
    PROVE  MessagesInv'
<1>. DEFINE h == Head(suOut)
<1>1. /\ UNCHANGED <<suAt, suStore, suUnsaid, suRing, suLag, suFailed, suMark, suPending, suSeen>>
      /\ suOut # <<>> /\ suOut' = Tail(suOut) /\ suGot' = [suGot EXCEPT ![h] = @ + 1]
      /\ suOut \in Seq(SuMessages) /\ suGot \in [SuMessages -> Nat] /\ suAt = "live"
    BY Zenon DEF MessagesInv, MessagesTyped, Recv, suWorld
<1>2. /\ suOut' \in Seq(SuMessages) /\ h \in SuMessages
      /\ Range(suOut) = Range(suOut') \cup {h}
    BY Zenon, <1>1, RangeOfTail
<1>. HIDE DEF h
<1>3. /\ suGot' \in [SuMessages -> Nat] /\ suGot'[h] = suGot[h] + 1 /\ suGot[h] \in Nat
      /\ \A m \in SuMessages : m # h => suGot'[m] = suGot[m]
    BY <1>1, <1>2
<1>4. MessagesTyped'
    BY Zenon, <1>1, <1>2, <1>3 DEF MessagesInv, MessagesTyped, Once
<1>5. ASSUME NEW m \in SuMessages, Forwarded(m) PROVE Forwarded(m)'
    BY <1>2, <1>3, <1>5 DEF Forwarded
<1>6. \A m : IsNewer(m)' <=> IsNewer(m)
    BY Zenon, <1>1 DEF IsNewer
<1>7. /\ Range(suSeen') = Range(suSeen) /\ Range(suRing') = Range(suRing)
      /\ Range(suPending') = Range(suPending)
    BY Zenon, <1>1
<1>8. Range(suSeen) \subseteq SuMessages /\ suStore \subseteq SuMessages
    BY SMTT(30) DEF MessagesInv, MessagesTyped, Range
<1>9. MessagesOwed'
    BY Zenon, <1>1, <1>5, <1>6, <1>7, <1>8 DEF MessagesInv, MessagesOwed
<1>10. ForwardedOnce'
    BY <1>1, OnceTail, <1>2, <1>3, <1>7 DEF ForwardedOnce, MessagesInv, h, Range
<1>. QED
    BY Zenon, <1>4, <1>9, <1>10 DEF MessagesInv

\* No step loses a message.
LEMMA MessagesNext ==
    ASSUME suKind = "messages", MessagesInv, SuNext
    PROVE  MessagesInv'
<1>1. CASE InstallRefresh
  <2>1. UNCHANGED suMessageVars /\ (suFailed => suFailed')
      BY ZenonT(30), <1>1 DEF InstallRefresh, suMessageVars, suTask, suWorld
  <2>. QED
      BY Zenon, <2>1, MessagesRest
<1>2. CASE PaginateMerges
    BY Zenon, <1>2, MessagesRest DEF PaginateMerges, suMessageVars, suTask, suWorld
<1>. QED
    BY ZenonT(30), <1>1, <1>2, StoredKeeps, AnnouncedKeeps, ListeningKeeps,
       SnapshotKeeps, TakesMessage,
       RecoversMessages, RecoveryFailsMessages, SkipsMessage, SendsMessage, RecvMessage
       DEF SuNext, ChatChanged, LookupFails, PaginateReads
-----------------------------------------------------------------------------
(* Sequences of rows.                                                      *)

\* What is said of a group after one more row.
LEMMA RowAppended ==
    ASSUME NEW S, NEW q \in Seq(S), NEW e \in S, NEW g, NEW values
    PROVE  /\ Silent(Append(q, e), g) <=> Silent(q, g) /\ e[1] # g
           /\ e[1] = g /\ e[2] \in values => EndsIn(Append(q, e), g, values)
           /\ e[1] # g /\ EndsIn(q, g, values) => EndsIn(Append(q, e), g, values)
<1>. DEFINE n == Len(q)
            r == Append(q, e)
<1>1. n \in Nat /\ DOMAIN q = 1..n /\ DOMAIN r = 1..n + 1
    OBVIOUS
<1>2. (\A i \in 1..n : r[i] = q[i]) /\ r[n + 1] = e
    OBVIOUS
<1>. HIDE DEF n, r
<1>3. Silent(r, g) <=> Silent(q, g) /\ e[1] # g
    BY <1>1, <1>2 DEF Silent
<1>4. ASSUME e[1] = g, e[2] \in values PROVE EndsIn(r, g, values)
    BY <1>1, <1>2, <1>4 DEF EndsIn
<1>5. ASSUME e[1] # g, EndsIn(q, g, values) PROVE EndsIn(r, g, values)
    BY <1>1, <1>2, <1>5 DEF EndsIn
<1>. QED
    BY Zenon, <1>3, <1>4, <1>5 DEF r

\* What is said of a group after the first row was taken.
LEMMA RowTaken ==
    ASSUME NEW S, NEW q \in Seq(S), q # <<>>, NEW g, NEW values
    PROVE  /\ Silent(q, g) <=> Silent(Tail(q), g) /\ Head(q)[1] # g
           /\ EndsIn(q, g, values) => EndsIn(Tail(q), g, values)
           /\ EndsIn(q, g, values) /\ Silent(Tail(q), g) /\ Head(q)[1] = g => Head(q)[2] \in values
<1>. DEFINE n == Len(q)
            r == Tail(q)
            h == Head(q)
<1>1. n \in Nat \ {0} /\ DOMAIN q = 1..n /\ DOMAIN r = 1..n - 1
    OBVIOUS
<1>2. (\A i \in 1..n - 1 : r[i] = q[i + 1]) /\ h = q[1]
    OBVIOUS
<1>. HIDE DEF n, r, h
<1>3. \A j \in DOMAIN q : j > 1 => j - 1 \in DOMAIN r /\ r[j - 1] = q[j]
    BY <1>1, <1>2
<1>4. Silent(q, g) <=> Silent(r, g) /\ h[1] # g
  <2>1. ASSUME Silent(q, g) PROVE Silent(r, g) /\ h[1] # g
      BY SMTT(30), <1>1, <1>2, <2>1 DEF Silent
  <2>2. ASSUME Silent(r, g), h[1] # g PROVE Silent(q, g)
      BY <1>2, <2>2, <1>3, <1>1 DEF Silent
  <2>. QED
      BY Zenon, <2>1, <2>2
<1>5. ASSUME EndsIn(q, g, values) PROVE EndsIn(r, g, values)
  <2>. SUFFICES ASSUME NEW i \in DOMAIN r, r[i][1] = g, \A j \in DOMAIN r : j > i => r[j][1] # g
                PROVE  r[i][2] \in values
      BY Zenon DEF EndsIn
  <2>1. i + 1 \in DOMAIN q /\ r[i] = q[i + 1]
      BY <1>1, <1>2
  <2>2. ASSUME NEW j \in DOMAIN q, j > i + 1 PROVE q[j][1] # g
    <3>1. j - 1 \in DOMAIN r /\ r[j - 1] = q[j] /\ j - 1 > i
        BY <1>1, <1>3, <2>2
    <3>. QED
        BY Zenon, <3>1
  <2>. QED
      BY Zenon, <1>5, <2>1, <2>2 DEF EndsIn
<1>6. ASSUME EndsIn(q, g, values), Silent(r, g), h[1] = g PROVE h[2] \in values
    BY <1>1, <1>3, <1>6, <1>2 DEF Silent, EndsIn
<1>. QED
    BY Zenon, <1>4, <1>5, <1>6 DEF r, h

\* Taking the only row of a group leaves none of it.
LEMMA RowsOnceTail ==
    ASSUME NEW S, NEW q \in Seq(S), q # <<>>, RowsOnce(q)
    PROVE  RowsOnce(Tail(q)) /\ Silent(Tail(q), Head(q)[1])
BY SMTT(30) DEF RowsOnce, Silent
-----------------------------------------------------------------------------
(* The chat list.                                                          *)

\* The variables a chat-list subscription depends on.
suChatVars == <<suAt, suChat, suRing, suLag, suPending, suOut, suPrints, suList>>

\* A step that moves no row keeps the invariant; a read may fail in it.
LEMMA ChatsRest ==
    ASSUME ChatsInv, UNCHANGED suChatVars, suFailed => suFailed'
    PROVE  ChatsInv'
BY Zenon DEF ChatsInv, ChatsTyped, EventsCurrent, PrintsTrue, suChatVars, RowsOwed

\* The event of a change is the last about its group, or the ring overflows and
\* says so.
LEMMA ChangedKeeps ==
    ASSUME ChatsInv, NEW g \in SuGroups, NEW v \in SuVersions, ChatChanged(g, v)
    PROVE  ChatsInv'
<1>1. /\ UNCHANGED <<suAt, suPending, suOut, suPrints, suList, suFailed>>
      /\ suChat' = [suChat EXCEPT ![g] = v] /\ suChat \in [SuGroups -> SuRow]
      /\ suRing \in Seq(SuEventSet)
    BY Zenon DEF ChatsInv, ChatsTyped, ChatChanged, suTask
<1>2. PICK c \in {v, -1} : Broadcast(<<g, c>>)
    BY Zenon DEF ChatChanged
<1>3. PICK e : e = <<g, c>>
    BY ZenonT(30)
<1>4. e \in SuEventSet /\ e[1] = g /\ e[2] \in {v, -1} /\ v \in SuRow
    BY Zenon, <1>3 DEF SuEventSet, SuRow
<1>5. PICK r : r = Append(suRing, e)
    BY ZenonT(30)
<1>6. r \in Seq(SuEventSet) /\ r # <<>>
    BY <1>1, <1>4, <1>5, LongerAfterAppend
<1>7. suChat' \in [SuGroups -> SuRow] /\ suChat'[g] = v /\ \A k \in SuGroups : k # g => suChat'[k] = suChat[k]
    BY Zenon, <1>1, <1>4
<1>8. ASSUME NEW k \in SuGroups PROVE EndsIn(r, k, {suChat'[k], -1})
    BY <1>4, <1>7, <1>1, <1>5, RowAppended DEF ChatsInv, EventsCurrent
<1>9. \/ suAt = "new" /\ suRing' = suRing
      \/ suAt # "new" /\ suRing' = Tail(r) /\ suLag'
      \/ suAt # "new" /\ suRing' = r /\ (suLag' <=> suLag)
    BY ZenonT(30), <1>2, <1>3, <1>5 DEF Broadcast
<1>10. suRing' \in Seq(SuEventSet)
  <2>1. Tail(r) \in Seq(SuEventSet)
      BY Zenon, <1>6, RangeOfTail
  <2>. QED
      BY Zenon, <1>1, <1>6, <1>9, <2>1
<1>11. ChatsTyped'
    BY Zenon, <1>1, <1>7, <1>9, <1>10 DEF ChatsInv, ChatsTyped
<1>12. EventsCurrent'
  <2>. SUFFICES ASSUME NEW k \in SuGroups PROVE EndsIn(suRing', k, {suChat'[k], -1})
      BY Zenon DEF EventsCurrent
  <2>1. CASE suAt = "new"
      BY <2>1, <1>11, <1>1 DEF ChatsTyped, EndsIn
  <2>2. CASE suRing' = Tail(r)
      BY Zenon, <1>6, <1>8, <2>2, RowTaken
  <2>3. CASE suRing' = r
      BY Zenon, <1>8, <2>3
  <2>. QED
      BY Zenon, <1>9, <2>1, <2>2, <2>3
<1>13. RowsOwed'
  <2>. SUFFICES ASSUME suAt' = "live", ~suLag', ~suFailed', NEW k \in SuGroups, Silent(suRing', k)
                PROVE  \/ <<k, suChat'[k]>> \in Range(suPending')
                       \/ Silent(suPending', k) /\ suPrints'[k] = suChat'[k]
      BY Zenon DEF RowsOwed
  <2>1. suRing' = r /\ ~suLag /\ suAt = "live" /\ ~suFailed
      BY Zenon, <1>1, <1>9
  <2>2. Silent(suRing, k) /\ k # g
      BY ZenonT(30), <1>1, <1>4, <1>5, <2>1, RowAppended
  <2>. QED
      BY Zenon, <1>1, <1>7, <2>1, <2>2 DEF ChatsInv, RowsOwed
<1>14. PrintsTrue'
    BY Zenon, <1>1 DEF ChatsInv, PrintsTrue
<1>. QED
    BY Zenon, <1>11, <1>12, <1>13, <1>14 DEF ChatsInv

\* A subscription starts from the list it reads.
LEMMA ListSnapshotKeeps ==
    ASSUME suKind = "chats", ChatsInv, SubscribeSnapshot
    PROVE  ChatsInv'
BY DEF ChatsInv, ChatsTyped, SubscribeSnapshot, suWorld, EventsCurrent, RowsOwed,
   PrintsTrue, Silent, EndsIn

\* Subscribing to the events promises nothing yet.
LEMMA ListListeningKeeps ==
    ASSUME ChatsInv, SubscribeEvents
    PROVE  ChatsInv'
BY Zenon DEF SubscribeEvents, suTask, suWorld, ChatsInv, ChatsTyped, EventsCurrent,
   PrintsTrue, RowsOwed

\* The task turns to the row of the oldest event, which is the stored one when
\* no later event is about its group.
LEMMA TakesRow ==
    ASSUME suKind = "chats", ChatsInv, TaskTakesEvent
    PROVE  ChatsInv'
<1>1. /\ UNCHANGED <<suAt, suChat, suLag, suOut, suPrints, suList, suFailed>>
      /\ suRing # <<>> /\ suRing' = Tail(suRing) /\ suPending' = <<UpdateFor(Head(suRing))>>
      /\ suAt = "live" /\ ~suLag /\ suPending = <<>> /\ suRing \in Seq(SuEventSet)
      /\ suChat \in [SuGroups -> SuRow]
    BY Zenon DEF ChatsInv, ChatsTyped, TaskTakesEvent, TaskReady, suWorld
<1>2. PICK e : e = Head(suRing)
    BY Zenon
<1>3. suRing' \in Seq(SuEventSet) /\ e \in SuEventSet
    BY Zenon, <1>1, <1>2, RangeOfTail
<1>4. PICK u : u = UpdateFor(e)
    BY Zenon
<1>5. /\ u \in SuUpdateSet /\ u[1] = e[1] /\ u[1] \in SuGroups
      /\ e[2] \in {suChat[e[1]], -1} => u = <<e[1], suChat[e[1]]>>
    BY <1>3, <1>1, <1>4 DEF SuEventSet, UpdateFor, SuUpdateSet
<1>6. suPending' = <<u>>
    BY Zenon, <1>1, <1>2, <1>4
<1>7. /\ suPending' \in Seq(SuUpdateSet) /\ RowsOnce(suPending') /\ Range(suPending') = {u}
      /\ \A g : u[1] # g => Silent(suPending', g)
    BY <1>5, <1>6 DEF RowsOnce, Range, Silent
<1>8. ChatsTyped'
    BY Zenon, <1>1, <1>3, <1>7 DEF ChatsInv, ChatsTyped
<1>9. EventsCurrent'
    BY Zenon, <1>1, RowTaken DEF ChatsInv, EventsCurrent
<1>10. RowsOwed'
  <2>. SUFFICES ASSUME ~suFailed, NEW g \in SuGroups, Silent(suRing', g)
                PROVE  \/ <<g, suChat[g]>> \in Range(suPending')
                       \/ Silent(suPending', g) /\ suPrints[g] = suChat[g]
      BY Zenon, <1>1 DEF RowsOwed
  <2>1. CASE e[1] = g
    <3>1. EndsIn(suRing, g, {suChat[g], -1})
        BY Zenon DEF ChatsInv, EventsCurrent
    <3>2. e[2] \in {suChat[g], -1}
        BY Zenon, <1>1, <1>2, <2>1, <3>1, RowTaken
    <3>. QED
        BY Zenon, <1>5, <1>7, <2>1, <3>2
  <2>2. CASE e[1] # g
    <3>1. Silent(suRing, g)
        BY Zenon, <1>1, <1>2, <2>2, RowTaken
    <3>2. suPrints[g] = suChat[g]
        BY <1>1, <3>1 DEF ChatsInv, RowsOwed, Range
    <3>. QED
        BY Zenon, <1>5, <1>7, <2>2, <3>2
  <2>. QED
      BY Zenon, <2>1, <2>2
<1>11. PrintsTrue'
    BY Zenon, <1>1 DEF ChatsInv, PrintsTrue
<1>. QED
    BY Zenon, <1>8, <1>9, <1>10, <1>11 DEF ChatsInv
\* After a failed lookup nothing is owed.
LEMMA LookupFailsKeeps ==
    ASSUME suKind = "chats", ChatsInv, LookupFails
    PROVE  ChatsInv'
BY Zenon, RangeOfTail, RowTaken DEF ChatsInv, ChatsTyped, LookupFails, suTask, suWorld,
   TaskReady, PrintsTrue, RowsOwed, EventsCurrent

\* A recovery puts the stored row of every group before the task.
LEMMA RecoversRows ==
    ASSUME suKind = "chats", ChatsInv, TaskRecovers
    PROVE  ChatsInv'
<1>1. /\ UNCHANGED <<suAt, suChat, suRing, suOut, suPrints, suList, suFailed>> /\ suAt = "live"
      /\ suChat \in [SuGroups -> SuRow]
    BY Zenon DEF ChatsInv, ChatsTyped, TaskRecovers, TaskReady, suWorld
<1>2. PICK q \in Orders(SuGroups) : suPending' = [i \in DOMAIN q |-> <<q[i], suChat[q[i]]>>]
    BY Zenon DEF TaskRecovers, ReconcileOrders, ChatsAfterLag
<1>3. q \in Seq(SuGroups) /\ Range(q) = SuGroups /\ Once(q)
    BY Zenon, SuAssumption, OrdersAreSeqs
<1>4. /\ DOMAIN suPending' = DOMAIN q /\ DOMAIN q = 1..Len(q) /\ Len(q) \in Nat
      /\ \A i \in DOMAIN q : suPending'[i] = <<q[i], suChat[q[i]]>> /\ q[i] \in SuGroups
    BY <1>2, <1>3
<1>5. ASSUME NEW i \in DOMAIN q PROVE suPending'[i] \in SuUpdateSet /\ suPending'[i][1] = q[i]
  <2>1. q[i] \in SuGroups /\ suChat[q[i]] \in SuRow /\ suPending'[i] = <<q[i], suChat[q[i]]>>
      BY Zenon, <1>1, <1>4
  <2>. QED
      BY SMTT(30), <2>1 DEF SuUpdateSet
<1>6. suPending' \in Seq(SuUpdateSet)
    BY Zenon, <1>2, <1>4, <1>5, SeqOfFunction
<1>7. RowsOnce(suPending')
    BY Zenon, <1>3, <1>4, <1>5 DEF RowsOnce, Once
<1>8. \A g \in SuGroups : <<g, suChat[g]>> \in Range(suPending')
    BY <1>3, <1>4 DEF Range
<1>9. ChatsTyped' /\ EventsCurrent' /\ PrintsTrue'
    BY ZenonT(30), <1>1, <1>6, <1>7 DEF ChatsInv, ChatsTyped, EventsCurrent, PrintsTrue
<1>10. RowsOwed'
    BY Zenon, <1>1, <1>8 DEF RowsOwed
<1>. QED
    BY Zenon, <1>9, <1>10 DEF ChatsInv

\* After a failed read nothing is owed.
LEMMA RecoveryFailsRows ==
    ASSUME ChatsInv, RecoveryFails
    PROVE  ChatsInv'
<1>1. UNCHANGED <<suAt, suChat, suRing, suPending, suOut, suPrints, suList>> /\ suFailed'
    BY Zenon DEF RecoveryFails, suTask, suWorld
<1>. QED
    BY Zenon, <1>1 DEF ChatsInv, ChatsTyped, EventsCurrent, PrintsTrue, RowsOwed

\* The task drops the row before it, which is the one sent last or is sent now.
LEMMA PassesRow ==
    ASSUME ChatsInv, suPending # <<>>, suPending' = Tail(suPending),
           UNCHANGED <<suAt, suChat, suRing, suLag, suFailed>>,
           suPrints' \in [SuGroups -> SuRow],
           suPrints'[Head(suPending)[1]] = Head(suPending)[2],
           \A g \in SuGroups : g # Head(suPending)[1] => suPrints'[g] = suPrints[g]
    PROVE  RowsOwed' /\ suPending' \in Seq(SuUpdateSet) /\ RowsOnce(suPending')
<1>1. suPending \in Seq(SuUpdateSet) /\ RowsOnce(suPending)
    BY Zenon DEF ChatsInv, ChatsTyped
<1>2. PICK h : h = Head(suPending)
    BY Zenon
<1>3. /\ suPending' \in Seq(SuUpdateSet) /\ h \in SuUpdateSet
      /\ Range(suPending) = Range(suPending') \cup {h}
    BY Zenon, <1>1, <1>2, RangeOfTail
<1>4. RowsOnce(suPending') /\ Silent(suPending', h[1])
    BY Zenon, <1>1, <1>2, RowsOnceTail
<1>5. h[1] \in SuGroups /\ h = <<h[1], h[2]>>
    BY <1>3 DEF SuUpdateSet
<1>6. RowsOwed'
    BY <1>2, <1>4, <1>3, <1>1, RowTaken DEF RowsOwed, ChatsInv
<1>. QED
    BY Zenon, <1>3, <1>4, <1>6

\* A row is skipped when it is the one sent last.
LEMMA SkipsRow ==
    ASSUME suKind = "chats", ChatsInv, TaskSkips
    PROVE  ChatsInv'
BY Zenon, PassesRow DEF ChatsInv, ChatsTyped, TaskSkips, AlreadySent, suWorld,
   EventsCurrent, PrintsTrue

\* A row that differs from the one sent last is sent.
LEMMA SendsRow ==
    ASSUME suKind = "chats", ChatsInv, TaskSends
    PROVE  ChatsInv'
<1>1. /\ UNCHANGED <<suAt, suChat, suRing, suLag, suList, suFailed>>
      /\ suPending # <<>> /\ suPending' = Tail(suPending)
      /\ suOut' = Append(suOut, Head(suPending)) /\ suOut \in Seq(SuUpdateSet)
      /\ suPrints' = [suPrints EXCEPT ![Head(suPending)[1]] = Head(suPending)[2]]
      /\ suPrints \in [SuGroups -> SuRow] /\ suPending \in Seq(SuUpdateSet)
      /\ suAt = "live"
    BY Zenon DEF ChatsInv, ChatsTyped, TaskSends, suWorld
<1>2. PICK h : h = Head(suPending)
    BY Zenon
<1>3. h \in SuUpdateSet
    BY Zenon, <1>1, <1>2, RangeOfTail
<1>4. h[1] \in SuGroups /\ h[2] \in SuRow
    BY Zenon, <1>3 DEF SuUpdateSet
<1>5. /\ suPrints' \in [SuGroups -> SuRow] /\ suPrints'[h[1]] = h[2]
      /\ \A g \in SuGroups : g # h[1] => suPrints'[g] = suPrints[g]
    BY Zenon, <1>1, <1>2, <1>4
<1>6. RowsOwed' /\ suPending' \in Seq(SuUpdateSet) /\ RowsOnce(suPending')
    BY Zenon, <1>1, <1>2, <1>5, PassesRow
<1>7. suOut' \in Seq(SuUpdateSet)
    BY <1>1, <1>2, <1>3
<1>8. ChatsTyped' /\ EventsCurrent'
    BY Zenon, <1>1, <1>5, <1>6, <1>7 DEF ChatsInv, ChatsTyped, EventsCurrent
<1>9. PrintsTrue'
  <2>. SUFFICES ASSUME NEW g \in SuGroups
                PROVE  /\ Silent(suOut', g) => suList[g] = suPrints'[g]
                       /\ EndsIn(suOut', g, {suPrints'[g]})
      BY Zenon, <1>1 DEF PrintsTrue
  <2>1. (Silent(suOut, g) => suList[g] = suPrints[g]) /\ EndsIn(suOut, g, {suPrints[g]})
      BY Zenon DEF ChatsInv, PrintsTrue
  <2>2. CASE h[1] = g
      BY Zenon, <1>5, <2>2, <1>1, <1>2, <1>3, RowAppended
  <2>3. CASE h[1] # g
    <3>1. EndsIn(suOut, g, {suPrints'[g]}) /\ suPrints'[g] = suPrints[g]
        BY Zenon, <1>5, <2>1, <2>3
    <3>. QED
        BY Zenon, <1>1, <1>2, <1>3, <2>1, <2>3, <3>1, RowAppended
  <2>. QED
      BY Zenon, <2>2, <2>3
<1>. QED
    BY Zenon, <1>6, <1>8, <1>9 DEF ChatsInv

\* The caller takes a row.
LEMMA RecvRow ==
    ASSUME suKind = "chats", ChatsInv, Recv
    PROVE  ChatsInv'
<1>1. /\ UNCHANGED <<suAt, suChat, suRing, suLag, suPending, suPrints, suFailed>>
      /\ suOut # <<>> /\ suOut' = Tail(suOut) /\ suOut \in Seq(SuUpdateSet)
      /\ suList' = [suList EXCEPT ![Head(suOut)[1]] = Head(suOut)[2]]
      /\ suList \in [SuGroups -> SuRow] /\ suAt = "live"
    BY Zenon DEF ChatsInv, ChatsTyped, Recv, suWorld
<1>2. PICK h : h = Head(suOut)
    BY Zenon
<1>3. suOut' \in Seq(SuUpdateSet) /\ h \in SuUpdateSet
    BY Zenon, <1>1, <1>2, RangeOfTail
<1>4. h[1] \in SuGroups /\ h[2] \in SuRow
    BY Zenon, <1>3 DEF SuUpdateSet
<1>5. /\ suList' \in [SuGroups -> SuRow] /\ suList'[h[1]] = h[2]
      /\ \A g \in SuGroups : g # h[1] => suList'[g] = suList[g]
    BY Zenon, <1>1, <1>2, <1>4
<1>6. ChatsTyped' /\ EventsCurrent' /\ RowsOwed'
    BY Zenon, <1>1, <1>3, <1>5 DEF ChatsInv, ChatsTyped, EventsCurrent, RowsOwed
<1>7. PrintsTrue'
    BY Zenon, <1>1, RowTaken, <1>2, <1>5 DEF PrintsTrue, ChatsInv
<1>. QED
    BY Zenon, <1>6, <1>7 DEF ChatsInv

\* No step loses a row of the chat list.
LEMMA ChatsNext ==
    ASSUME suKind = "chats", ChatsInv, SuNext
    PROVE  ChatsInv'
<1>1. CASE InstallRefresh
  <2>1. UNCHANGED suChatVars /\ (suFailed => suFailed')
      BY ZenonT(30), <1>1 DEF InstallRefresh, suChatVars, suTask, suWorld
  <2>. QED
      BY Zenon, <2>1, ChatsRest
<1>2. CASE PaginateMerges
    BY Zenon, <1>2, ChatsRest DEF PaginateMerges, suChatVars, suTask, suWorld
<1>. QED
    BY ZenonT(30), <1>1, <1>2, ChangedKeeps, ListSnapshotKeeps, ListListeningKeeps,
       TakesRow,
       LookupFailsKeeps, RecoversRows, RecoveryFailsRows, SkipsRow, SendsRow, RecvRow
       DEF SuNext, MessageStored, MessageAnnounced, PaginateReads
-----------------------------------------------------------------------------
(* The theorems.                                                           *)

\* The invariant holds of a subscription that was not made yet.
LEMMA SuInitSound == SuInit => SuInv
BY DEF SuInit, Range, MessagesTyped, Once, MessagesOwed, ForwardedOnce, ChatsTyped,
   SuRow, RowsOnce, EventsCurrent, RowsOwed, PrintsTrue, EndsIn, SuInv, MessagesInv,
   ChatsInv

\* The invariant holds always.
LEMMA SuInvariance == SuSpec => []SuInv
<1>1. SuInv /\ [SuNext]_suVars => SuInv'
  <2>. SUFFICES ASSUME SuInv, [SuNext]_suVars PROVE SuInv'
      BY Zenon
  <2>1. CASE SuNext
    <3>1. suKind' = suKind
        BY ZenonT(30), <2>1 DEF SuNext, MessageStored, MessageAnnounced, ChatChanged,
           SubscribeEvents,
            SubscribeSnapshot, TaskTakesEvent, LookupFails, TaskRecovers, RecoveryFails,
            TaskSkips, TaskSends, Recv, InstallRefresh, PaginateReads, PaginateMerges
    <3>. QED
        BY Zenon, <2>1, <3>1, MessagesNext, ChatsNext DEF SuInv
  <2>2. CASE UNCHANGED suVars
      BY Zenon, <2>2, MessagesRest, ChatsRest DEF suVars, suMessageVars, suChatVars,
         suTask, suWorld, SuInv
  <2>. QED
      BY Zenon, <2>1, <2>2
<1>. QED
    BY <1>1, SuInitSound, PTL DEF SuSpec

\* Falling behind the broadcast ring loses nothing as long as the reads succeed.
THEOREM LagRecoversHolds == SuSpec => []LagRecovers
<1>1. SuInv => LagRecovers
  <2>. SUFFICES ASSUME SuInv, SuQuiet, ~suFailed
                PROVE  /\ suKind = "messages" => \A m \in suStore \ suUnsaid :
                            IsNewer(m) => /\ suGot[m] >= 1
                                          /\ Cardinality(SuMessages) <= SuSeenLimit => suGot[m] = 1
                       /\ suKind = "chats" => suList = suChat
      BY Zenon DEF LagRecovers
  <2>1. suAt = "live" /\ ~suLag /\ suRing = <<>> /\ suPending = <<>> /\ suOut = <<>>
      BY Zenon DEF SuQuiet
  <2>2. Range(suRing) = {} /\ Range(suPending) = {} /\ Range(suOut) = {}
      BY <2>1 DEF Range
  <2>3. ASSUME suKind = "messages", NEW m \in suStore \ suUnsaid, IsNewer(m)
        PROVE  suGot[m] >= 1 /\ (Cardinality(SuMessages) <= SuSeenLimit => suGot[m] = 1)
      BY Zenon, <2>3, <2>1, <2>2 DEF SuInv, MessagesInv, MessagesTyped, MessagesOwed,
         Forwarded, ForwardedOnce
  <2>4. ASSUME suKind = "chats" PROVE suList = suChat
    <3>1. ChatsInv
        BY Zenon, <2>4 DEF SuInv
    <3>2. ASSUME NEW g \in SuGroups PROVE suList[g] = suChat[g]
      <4>1. Silent(suRing, g) /\ Silent(suOut, g)
          BY <2>1 DEF Silent
      <4>2. suPrints[g] = suChat[g]
          BY ZenonT(30), <2>1, <2>2, <3>1, <4>1 DEF ChatsInv, RowsOwed
      <4>. QED
          BY ZenonT(30), <3>1, <4>1, <4>2 DEF ChatsInv, PrintsTrue
    <3>3. suList \in [SuGroups -> SuRow] /\ suChat \in [SuGroups -> SuRow]
        BY Zenon, <3>1 DEF ChatsInv, ChatsTyped
    <3>. QED
        BY <3>2, <3>3
  <2>. QED
      BY Zenon, <2>3, <2>4
<1>. QED
    BY <1>1, SuInvariance, PTL

\* A refresh never takes back rows that came into the window after it was read:
\* only install_refresh ends a refresh, and it compares the generations.
THEOREM RefreshKeepsNewerWindowHolds == SuSpec => RefreshKeepsNewerWindow
<1>1. SuNext /\ suRefresh # Idle /\ suRefresh' = Idle => InstallRefresh
    BY ZenonT(30) DEF SuNext, MessageStored, MessageAnnounced, ChatChanged, SubscribeEvents,
        SubscribeSnapshot, TaskTakesEvent, LookupFails, TaskRecovers, RecoveryFails,
        TaskSkips, TaskSends, Recv, PaginateReads, PaginateMerges, suView
<1>2. InstallRefresh /\ suWin.gen # suRefresh.page.gen => suWin' = suWin
    BY Zenon DEF InstallRefresh, Installed
<1>3. [SuNext]_suVars =>
        [suRefresh # Idle /\ suRefresh' = Idle /\ suWin.gen # suRefresh.page.gen
             => suWin.rows \subseteq suWin'.rows]_suVars
    BY Zenon, <1>1, <1>2
<1>. QED
    BY <1>3, PTL DEF SuSpec, RefreshKeepsNewerWindow

=============================================================================
