--------------------------- MODULE ComponentProofs --------------------------
(***************************************************************************)
(* What three parts of an account promise, each on its own: the inbound    *)
(* side of the agent connector, the shared connection of the account       *)
(* database, and the user directory.                                       *)
(*                                                                         *)
(* Inbound, for every capacity of the channel and of the cursor, any       *)
(* number of rows and of subscriptions: a row that is lost is one a replay *)
(* could not see. This is inductive only together with two facts about the *)
(* cursor: it holds nothing that was not written (a row it makes the loop  *)
(* skip has reached the agent), and it holds the newest writes (so that    *)
(* nothing is written twice). At most one catch-up loop serves, because    *)
(* the started flag is set exactly while a loop serves.                    *)
(*                                                                         *)
(* The database, for any number of threads, operations, statements and     *)
(* attempts: transactions stay whole and apart, and no waiter is           *)
(* forgotten. A thread may use the connection while another owns the       *)
(* transaction slot: it was let in before. What keeps them apart is that   *)
(* BEGIN, COMMIT and ROLLBACK need the connection themselves. The          *)
(* invariant therefore says where the owner stands, when the SQL           *)
(* transaction is open on the connection, and who holds the connection.    *)
(*                                                                         *)
(* The directory, for any number of users, writers and callers and any     *)
(* room in the channel: once it is quiet, exactly the known users are      *)
(* watched. The coalescing flag is only ever set while a command that has  *)
(* yet to read the stores is in the channel, and a rebuild that failed     *)
(* with the old batch already gone is never taken for current, because     *)
(* known users only become more.                                           *)
(***************************************************************************)
EXTENDS AgentInbound, AccountDatabase, Directory, TLAPS

-----------------------------------------------------------------------------
(* The inbound subscription.                                               *)

\* While the subscription is not behind, every row it owes the agent is in the
\* channel, in the replay, written, or beyond a replay's window.
Accounted ==
    \A r \in DOMAIN aiRows :
        aiOpen /\ aiLag = 0 /\ Relevant(r) /\ r > aiSince /\ r > aiResync
            => r \in Range(aiRing) \cup aiReplay \cup Range(aiOut) \cup aiBeyond

\* The cursor holds the newest writes, as many as it can.
CursorIsNewest ==
    /\ Len(aiSeen) <= Len(aiOut)
    /\ Len(aiSeen) < AiWindow => Len(aiSeen) = Len(aiOut)
    /\ \A k \in 1 .. Len(aiSeen) : aiSeen[k] = aiOut[Len(aiOut) - Len(aiSeen) + k]

\* The inductive invariant of the inbound subscription.
AiInv == AiTypeOK /\ Accounted /\ CursorIsNewest /\ NotWrittenTwice

-----------------------------------------------------------------------------
(* Sequences as sets. *)

\* Appending an element adds it to the set of elements.
LEMMA RangeOfAppend ==
    ASSUME NEW S, NEW s \in Seq(S), NEW e \in S
    PROVE  Range(Append(s, e)) = Range(s) \cup {e}
<1>1. Append(s, e) \in Seq(S) /\ Len(Append(s, e)) = Len(s) + 1 /\ Len(s) \in Nat
    OBVIOUS
<1>2. \A i \in 1 .. Len(s) : Append(s, e)[i] = s[i]
    OBVIOUS
<1>3. Append(s, e)[Len(s) + 1] = e
    OBVIOUS
<1>4. DOMAIN s = 1 .. Len(s) /\ DOMAIN Append(s, e) = 1 .. Len(s) + 1
    BY <1>1
<1>. QED
    BY <1>1, <1>2, <1>3, <1>4 DEF Range

\* A sequence over a set is one over a larger set.
LEMMA SeqMonotone ==
    ASSUME NEW S, NEW T, S \subseteq T, NEW s \in Seq(S)
    PROVE  s \in Seq(T)
OBVIOUS

\* A sequence holds its head and what its tail holds.
LEMMA RangeOfTail ==
    ASSUME NEW S, NEW s \in Seq(S), s # << >>
    PROVE  /\ Tail(s) \in Seq(S) /\ Head(s) \in S /\ Len(Tail(s)) = Len(s) - 1
           /\ Range(s) = {Head(s)} \cup Range(Tail(s))
<1>1. Tail(s) \in Seq(S) /\ Len(Tail(s)) = Len(s) - 1 /\ Len(s) \in Nat \ {0}
    OBVIOUS
<1>2. \A i \in 1 .. Len(s) - 1 : Tail(s)[i] = s[i + 1]
    OBVIOUS
<1>3. Head(s) = s[1] /\ Head(s) \in S
    OBVIOUS
<1>4. DOMAIN s = 1 .. Len(s) /\ DOMAIN Tail(s) = 1 .. Len(s) - 1
    BY <1>1
<1>5. Range(Tail(s)) \subseteq Range(s) /\ Head(s) \in Range(s)
    BY <1>1, <1>2, <1>3, <1>4 DEF Range
<1>6. ASSUME NEW i \in 1 .. Len(s)
      PROVE  s[i] \in {Head(s)} \cup Range(Tail(s))
    <2>1. CASE i = 1
      BY Zenon, <2>1, <1>3
    <2>2. CASE i # 1
        <3>1. i - 1 \in 1 .. Len(s) - 1 /\ Tail(s)[i - 1] = s[i]
        BY <2>2, <1>1, <1>2
        <3>. QED
        BY ZenonT(30), <3>1, <1>4 DEF Range
    <2>. QED
      BY Zenon, <2>1, <2>2
<1>. QED
    BY Zenon, <1>1, <1>3, <1>4, <1>5, <1>6 DEF Range

-----------------------------------------------------------------------------
(* The cursor. *)

\* A cursor that holds the newest writes has seen nothing that was not written.
LEMMA SeenIsWritten ==
    ASSUME AiInv
    PROVE  Range(aiSeen) \subseteq Range(aiOut)
<1>1. aiSeen \in Seq(DOMAIN aiRows) /\ aiOut \in Seq(DOMAIN aiRows)
    BY Zenon DEF AiInv, AiTypeOK
<1>2. Len(aiSeen) \in Nat /\ Len(aiOut) \in Nat /\ Len(aiSeen) <= Len(aiOut)
    BY <1>1 DEF AiInv, CursorIsNewest
<1>3. ASSUME NEW k \in 1 .. Len(aiSeen)
      PROVE  \E i \in 1 .. Len(aiOut) : aiSeen[k] = aiOut[i]
    BY <1>2 DEF AiInv, CursorIsNewest
<1>. QED
    BY <1>1, <1>3 DEF Range

\* Writing a row keeps the cursor and the writes in step.
LEMMA WriteOnceKeeps ==
    ASSUME AiInv, NEW r \in DOMAIN aiRows, WriteOnce(r), UNCHANGED aiRows
    PROVE  /\ aiSeen' \in Seq(DOMAIN aiRows) /\ aiOut' \in Seq(DOMAIN aiRows)
           /\ Len(aiSeen') <= AiWindow
           /\ Range(aiOut') = Range(aiOut) \cup {r}
           /\ CursorIsNewest' /\ NotWrittenTwice'
<1>. DEFINE D == DOMAIN aiRows
<1>1. /\ aiSeen \in Seq(D) /\ aiOut \in Seq(D) /\ Len(aiSeen) \in Nat /\ Len(aiOut) \in Nat
      /\ Len(aiSeen) <= AiWindow /\ AiWindow \in Nat \ {0}
    BY AiAssumption DEF AiInv, AiTypeOK
<1>2. /\ Len(aiSeen) <= Len(aiOut) /\ (Len(aiSeen) < AiWindow => Len(aiSeen) = Len(aiOut))
      /\ \A k \in 1 .. Len(aiSeen) : aiSeen[k] = aiOut[Len(aiOut) - Len(aiSeen) + k]
    BY Zenon DEF AiInv, CursorIsNewest
<1>3. CASE r \in Range(aiSeen)
    BY Zenon, <1>3, SeenIsWritten, <1>1 DEF WriteOnce, AiInv, CursorIsNewest,
       NotWrittenTwice
<1>4. CASE r \notin Range(aiSeen)
    <2>. DEFINE kept == IF Len(aiSeen) >= AiWindow THEN Tail(aiSeen) ELSE aiSeen
    <2>1. aiSeen' = Append(kept, r) /\ aiOut' = Append(aiOut, r)
      BY Zenon, <1>4 DEF WriteOnce, Remember
    <2>2. /\ Len(aiSeen) >= AiWindow => kept = Tail(aiSeen)
          /\ Len(aiSeen) < AiWindow => kept = aiSeen
      BY <1>1
    <2>. HIDE DEF kept
    <2>3. /\ kept \in Seq(D) /\ Len(kept) \in Nat /\ Len(kept) < AiWindow
          /\ Len(kept) <= Len(aiOut)
          /\ Len(kept) < AiWindow - 1 => Len(kept) = Len(aiOut)
          /\ \A k \in 1 .. Len(kept) : kept[k] = aiOut[Len(aiOut) - Len(kept) + k]
        <3>1. CASE Len(aiSeen) >= AiWindow
            <4>1. aiSeen # << >> /\ Len(aiSeen) = AiWindow
          BY <3>1, <1>1
            <4>2. kept = Tail(aiSeen) /\ kept \in Seq(D) /\ Len(kept) = AiWindow - 1
          BY <4>1, <3>1, <2>2, <1>1
            <4>3. \A k \in 1 .. AiWindow - 1 : Tail(aiSeen)[k] = aiSeen[k + 1]
          BY <4>1, <1>1
            <4>4. ASSUME NEW k \in 1 .. AiWindow - 1
                  PROVE  kept[k] = aiOut[Len(aiOut) - (AiWindow - 1) + k]
          BY <4>1, <1>1, <4>2, <4>3, <1>2
            <4>5. Len(kept) \in Nat /\ Len(kept) < AiWindow /\ Len(kept) <= Len(aiOut)
          BY <4>1, <4>2, <1>1, <1>2
            <4>6. ~(Len(kept) < AiWindow - 1)
          BY <4>2, <1>1
            <4>7. \A k \in 1 .. Len(kept) : kept[k] = aiOut[Len(aiOut) - Len(kept) + k]
          BY ZenonT(30), <4>2, <4>4
            <4>. QED
          BY Zenon, <4>2, <4>5, <4>6, <4>7
        <3>2. CASE Len(aiSeen) < AiWindow
        BY Zenon, <3>2, <2>2, <1>1, <1>2
        <3>. QED
        BY <3>1, <3>2, <1>1
    <2>4. /\ aiSeen' \in Seq(D) /\ Len(aiSeen') = Len(kept) + 1 /\ aiSeen'[Len(kept) + 1] = r
          /\ \A k \in 1 .. Len(kept) : aiSeen'[k] = kept[k]
      BY <2>1, <2>3
    <2>5. /\ aiOut' \in Seq(D) /\ Len(aiOut') = Len(aiOut) + 1 /\ aiOut'[Len(aiOut) + 1] = r
          /\ \A k \in 1 .. Len(aiOut) : aiOut'[k] = aiOut[k]
      BY <2>1, <1>1
    <2>6. ASSUME NEW k \in 1 .. Len(aiSeen')
          PROVE  aiSeen'[k] = aiOut'[Len(aiOut') - Len(aiSeen') + k]
        <3>1. CASE k = Len(kept) + 1
        BY <3>1, <2>3, <2>4, <2>5, <1>1
        <3>2. CASE k # Len(kept) + 1
            <4>1. k \in 1 .. Len(kept) /\ Len(aiOut) - Len(kept) + k \in 1 .. Len(aiOut)
          BY <3>2, <2>3, <2>4, <1>1
            <4>2. Len(aiOut') - Len(aiSeen') + k = Len(aiOut) - Len(kept) + k
          BY <2>3, <2>4, <2>5, <1>1, <4>1
            <4>. QED
          BY Zenon, <4>1, <4>2, <2>3, <2>4, <2>5
        <3>. QED
        BY Zenon, <3>1, <3>2
    <2>7. CursorIsNewest'
      BY <2>3, <2>4, <2>5, <2>6, <1>1 DEF CursorIsNewest
    <2>8. ASSUME NEW i \in 1 .. Len(aiOut), Len(aiOut) + 1 - i <= AiWindow
          PROVE  aiOut[i] # r
        <3>. DEFINE k == i - (Len(aiOut) - Len(aiSeen))
        <3>1. k \in 1 .. Len(aiSeen) /\ Len(aiOut) - Len(aiSeen) + k = i
        BY <2>8, <1>1, <1>2
        <3>2. aiSeen[k] = aiOut[i]
        BY Zenon, <3>1, <1>2
        <3>3. aiSeen[k] \in Range(aiSeen)
        BY <3>1, <1>1 DEF Range
        <3>. QED
        BY Zenon, <3>2, <3>3, <1>4
    <2>9. ASSUME NEW i \in 1 .. Len(aiOut'), NEW j \in 1 .. Len(aiOut'), i < j, j - i <= AiWindow
          PROVE  aiOut'[i] # aiOut'[j]
      BY <2>9, <2>5, <1>1, <2>8 DEF AiInv, NotWrittenTwice
    <2>10. NotWrittenTwice'
      BY Zenon, <2>9 DEF NotWrittenTwice
    <2>11. Range(aiOut') = Range(aiOut) \cup {r}
      BY <2>1, <1>1, RangeOfAppend
    <2>. QED
      BY <2>3, <2>4, <2>5, <2>7, <2>10, <2>11, <1>1
<1>. QED
    BY Zenon, <1>3, <1>4

-----------------------------------------------------------------------------
(* Every step of a subscription. *)

\* With no rows and no subscription the invariant holds.
LEMMA AiInitInv == AiInit => AiInv
<1>. SUFFICES ASSUME AiInit PROVE AiInv
    BY Zenon
<1>1. /\ aiRows = << >> /\ aiOpen = FALSE /\ aiSince = 0 /\ aiRing = << >> /\ aiLag = 0
      /\ aiSeen = << >> /\ aiOut = << >> /\ aiReplay = {} /\ aiResync = 0 /\ aiBeyond = {}
      /\ aiCatchUp = FALSE /\ aiJoins = 0
    BY Zenon DEF AiInit
<1>2. AiTypeOK
    <2>1. << >> \in Seq(DOMAIN aiRows) /\ << >> \in Seq([at : AiTimes, chat : BOOLEAN])
      OBVIOUS
    <2>2. Len(aiRows) = 0 /\ Len(aiRing) <= AiRing /\ Len(aiSeen) <= AiWindow
      BY <1>1, AiAssumption
    <2>3. aiSince \in 0 .. Len(aiRows) /\ aiResync \in 0 .. Len(aiRows) /\ aiLag \in Nat /\ aiJoins \in Nat
      BY <1>1, <2>2
    <2>. QED
      BY ZenonT(30), <1>1, <2>1, <2>2, <2>3 DEF AiTypeOK
<1>3. Accounted
    BY Zenon, <1>1 DEF Accounted
<1>4. CursorIsNewest /\ NotWrittenTwice
    BY <1>1 DEF CursorIsNewest, NotWrittenTwice
<1>. QED
    BY Zenon, <1>2, <1>3, <1>4 DEF AiInv

\* A new row enters the channel, or the subscription falls behind.
LEMMA RuntimeEventInv ==
    ASSUME AiInv, NEW at \in AiTimes, NEW chat \in BOOLEAN, RuntimeEvent(at, chat)
    PROVE  AiInv'
<1>. DEFINE row == [at |-> at, chat |-> chat]
            E == [at : AiTimes, chat : BOOLEAN]
            n == Len(aiRows) + 1
            D == DOMAIN aiRows
<1>1. /\ aiRows \in Seq(E) /\ Len(aiRows) \in Nat /\ D = 1 .. Len(aiRows)
      /\ aiRing \in Seq(D) /\ aiSeen \in Seq(D) /\ aiOut \in Seq(D)
      /\ Len(aiRing) <= AiRing /\ AiRing \in Nat \ {0} /\ aiLag \in Nat
    BY AiAssumption DEF AiInv, AiTypeOK
<1>2. aiRows' = Append(aiRows, row) /\ row \in E
    BY Zenon DEF RuntimeEvent
<1>3. /\ aiRows' \in Seq(E) /\ Len(aiRows') = n /\ DOMAIN aiRows' = 1 .. n
      /\ \A r \in D : aiRows'[r] = aiRows[r]
    BY <1>1, <1>2
<1>4. D \subseteq DOMAIN aiRows' /\ n \in DOMAIN aiRows'
    BY <1>1, <1>3
<1>5. Seq(D) \subseteq Seq(DOMAIN aiRows')
    BY Zenon, <1>4, SeqMonotone
<1>6. UNCHANGED << aiOpen, aiSince, aiSeen, aiOut, aiReplay, aiResync, aiBeyond, aiCatchUp, aiJoins >>
    BY Zenon DEF RuntimeEvent
<1>7. /\ aiRing' \in Seq(DOMAIN aiRows') /\ Len(aiRing') <= AiRing /\ aiLag' \in Nat
      /\ aiOpen /\ aiLag' = 0 => aiLag = 0 /\ Range(aiRing') = Range(aiRing) \cup {n}
    <2>1. CASE ~aiOpen
      BY Zenon, <2>1, <1>1, <1>5 DEF RuntimeEvent
    <2>2. CASE aiOpen /\ Len(aiRing) < AiRing
        <3>1. aiRing' = Append(aiRing, n) /\ aiLag' = aiLag
        BY Zenon, <2>2 DEF RuntimeEvent
        <3>2. aiRing \in Seq(DOMAIN aiRows')
        BY Zenon, <1>1, <1>5
        <3>3. aiRing' \in Seq(DOMAIN aiRows') /\ Len(aiRing') = Len(aiRing) + 1 /\ Len(aiRing) \in Nat
        BY <3>1, <3>2, <1>4
        <3>4. Range(aiRing') = Range(aiRing) \cup {n}
        BY <3>1, <3>2, <1>4, RangeOfAppend
        <3>. QED
        BY <2>2, <3>1, <3>3, <3>4, <1>1
    <2>3. CASE aiOpen /\ ~(Len(aiRing) < AiRing)
        <3>1. aiRing' = Append(Tail(aiRing), n) /\ aiLag' = aiLag + 1
        BY Zenon, <2>3 DEF RuntimeEvent
        <3>2. aiRing \in Seq(DOMAIN aiRows') /\ aiRing # << >> /\ Len(aiRing) \in Nat
        BY <1>1, <1>5, <2>3
        <3>3. Tail(aiRing) \in Seq(DOMAIN aiRows') /\ Len(Tail(aiRing)) = Len(aiRing) - 1
        BY Zenon, <3>2, RangeOfTail
        <3>4. aiRing' \in Seq(DOMAIN aiRows') /\ Len(aiRing') = Len(aiRing)
        BY <3>1, <3>2, <3>3, <1>4
        <3>. QED
        BY <3>1, <3>4, <1>1
    <2>. QED
      BY Zenon, <2>1, <2>2, <2>3
<1>8. AiTypeOK'
    BY <1>1, <1>5, <1>6, <1>4, <1>3, <1>7 DEF AiInv, AiTypeOK
<1>9. Accounted'
    <2>. SUFFICES ASSUME NEW r \in DOMAIN aiRows', (aiOpen /\ aiLag = 0 /\ Relevant(r))',
                         r > aiSince, r > aiResync
                  PROVE  r \in (Range(aiRing) \cup aiReplay \cup Range(aiOut) \cup aiBeyond)'
      BY Zenon, <1>6 DEF Accounted
    <2>1. aiOpen /\ aiLag = 0 /\ Range(aiRing') = Range(aiRing) \cup {n}
      BY Zenon, <1>6, <1>7
    <2>2. CASE r = n
      BY Zenon, <2>1, <2>2
    <2>3. CASE r # n
        <3>1. r \in D
        BY <2>3, <1>1, <1>3
        <3>2. Relevant(r)
        BY Zenon, <3>1, <1>3 DEF Relevant
        <3>3. r \in Range(aiRing) \cup aiReplay \cup Range(aiOut) \cup aiBeyond
        BY Zenon, <3>1, <3>2, <2>1 DEF AiInv, Accounted
        <3>. QED
        BY Zenon, <3>3, <2>1, <1>6
    <2>. QED
      BY Zenon, <2>2, <2>3
<1>10. CursorIsNewest' /\ NotWrittenTwice'
    BY ZenonT(30), <1>6 DEF AiInv, CursorIsNewest, NotWrittenTwice
<1>. QED
    BY Zenon, <1>8, <1>9, <1>10 DEF AiInv

\* The steps that write nothing and store nothing.
LEMMA QuietStepInv ==
    ASSUME AiInv, UNCHANGED << aiRows, aiOut >>, aiSeen' = aiSeen,
           aiOpen' \in BOOLEAN, aiLag' \in Nat, aiCatchUp' \in BOOLEAN, aiJoins' \in Nat,
           aiSince' = aiSince, aiRing' = aiRing, aiResync' \in 0 .. Len(aiRows),
           aiReplay' \subseteq DOMAIN aiRows, aiBeyond' \subseteq DOMAIN aiRows,
           Accounted'
    PROVE  AiInv'
BY Zenon DEF AiInv, AiTypeOK, CursorIsNewest, NotWrittenTwice

\* A subscription begins with nothing owed.
LEMMA SubscribeInv ==
    ASSUME AiInv, SubscribeInbound
    PROVE  AiInv'
BY AiAssumption DEF SubscribeInbound, AiInv, AiTypeOK, Accounted, CursorIsNewest,
   NotWrittenTwice

\* A closed subscription owes nothing.
LEMMA CloseInv ==
    ASSUME AiInv, CloseInbound \/ \E ok \in BOOLEAN : InitialCatchUpEnds(ok)
    PROVE  AiInv'
<1>1. /\ UNCHANGED << aiRows, aiSince, aiRing, aiLag, aiSeen, aiOut, aiReplay, aiResync, aiBeyond, aiJoins >>
      /\ aiOpen /\ aiOpen' \in BOOLEAN /\ aiCatchUp' \in BOOLEAN
    BY ZenonT(30) DEF AiInv, AiTypeOK, CloseInbound, InitialCatchUpEnds, Selects
<1>2. Accounted'
    BY Zenon, <1>1 DEF AiInv, Accounted, Relevant
<1>3. /\ aiLag' \in Nat /\ aiJoins' \in Nat /\ aiResync' \in 0 .. Len(aiRows)
      /\ aiReplay' \subseteq DOMAIN aiRows /\ aiBeyond' \subseteq DOMAIN aiRows
    BY Zenon, <1>1 DEF AiInv, AiTypeOK
<1>. QED
    BY Zenon, <1>1, <1>2, <1>3, QuietStepInv

\* A resync skips the rows so far on purpose.
LEMMA ResyncInv ==
    ASSUME AiInv, ResyncRequired
    PROVE  AiInv'
BY QuietStepInv DEF ResyncRequired, AiInv, AiTypeOK, Accounted

\* A replay collects what the window shows and gives up the rest.
LEMMA ReplayInv ==
    ASSUME AiInv, LaggedReplayed
    PROVE  AiInv'
BY Zenon, QuietStepInv DEF LaggedReplayed, ReplayMissedInbound, Window, Accounted,
   Relevant, AiInv, AiTypeOK

\* A received row is written, or skipped because it was.
LEMMA ReceiveInv ==
    ASSUME AiInv, ReceiveEvent
    PROVE  AiInv'
<1>. DEFINE D == DOMAIN aiRows
            h == Head(aiRing)
<1>1. aiRing \in Seq(D) /\ aiRing # << >> /\ aiSeen \in Seq(D) /\ aiOut \in Seq(D) /\ Len(aiRing) <= AiRing
    BY Zenon DEF AiInv, AiTypeOK, ReceiveEvent
<1>2. /\ Tail(aiRing) \in Seq(D) /\ h \in D /\ Len(Tail(aiRing)) = Len(aiRing) - 1
      /\ Range(aiRing) = {h} \cup Range(Tail(aiRing))
    BY Zenon, <1>1, RangeOfTail
<1>3. /\ aiRing' = Tail(aiRing) /\ aiOpen /\ aiLag = 0
      /\ UNCHANGED << aiRows, aiOpen, aiSince, aiLag, aiReplay, aiResync, aiBeyond, aiCatchUp, aiJoins >>
    BY Zenon DEF ReceiveEvent, Selects
<1>4. /\ aiSeen' \in Seq(D) /\ aiOut' \in Seq(D) /\ Len(aiSeen') <= AiWindow
      /\ CursorIsNewest' /\ NotWrittenTwice' /\ Range(aiOut) \subseteq Range(aiOut')
      /\ Relevant(h) => h \in Range(aiOut')
    <2>1. CASE Relevant(h)
      BY Zenon, <2>1, <1>2, <1>3, WriteOnceKeeps DEF ReceiveEvent
    <2>2. CASE ~Relevant(h)
      BY Zenon, <2>2, <1>1 DEF ReceiveEvent, AiInv, AiTypeOK, CursorIsNewest,
         NotWrittenTwice
    <2>. QED
      BY Zenon, <2>1, <2>2
<1>5. Accounted'
    BY Zenon, <1>2, <1>3, <1>4 DEF AiInv, Accounted, Relevant
<1>6. AiTypeOK'
    BY <1>1, <1>2, <1>3, AiAssumption, <1>4 DEF AiInv, AiTypeOK
<1>. QED
    BY Zenon, <1>4, <1>5, <1>6 DEF AiInv

\* A replayed row is written unless the cursor holds it.
LEMMA WriteReplayedInv ==
    ASSUME AiInv, NEW r \in aiReplay, WriteReplayed(r)
    PROVE  AiInv'
BY WriteOnceKeeps DEF AiInv, AiTypeOK, WriteReplayed, Accounted, Relevant

\* The invariant of a subscription holds in every reachable state.
THEOREM AiInvariance == AiSpec => []AiInv
<1>1. ASSUME AiInv, [AiNext]_aiVars PROVE AiInv'
    <2>1. CASE \E at \in AiTimes, chat \in BOOLEAN : RuntimeEvent(at, chat)
      BY Zenon, <2>1, <1>1, RuntimeEventInv
    <2>2. CASE SubscribeInbound
      BY Zenon, <2>2, <1>1, SubscribeInv
    <2>3. CASE CloseInbound \/ \E ok \in BOOLEAN : InitialCatchUpEnds(ok)
      BY Zenon, <2>3, <1>1, CloseInv
    <2>4. CASE ReceiveEvent
      BY Zenon, <2>4, <1>1, ReceiveInv
    <2>5. CASE LaggedPastWindow \/ LaggedReplayFails
      BY Zenon, <2>5, <1>1, ResyncInv DEF LaggedPastWindow, LaggedReplayFails
    <2>6. CASE LaggedReplayed
      BY Zenon, <2>6, <1>1, ReplayInv
    <2>7. CASE \E r \in aiReplay : WriteReplayed(r)
      BY Zenon, <2>7, <1>1, WriteReplayedInv
    <2>8. CASE UNCHANGED aiVars
      BY Zenon, <2>8, <1>1 DEF aiVars, AiInv, Accounted, Relevant, AiTypeOK,
         CursorIsNewest, NotWrittenTwice
    <2>. QED
      BY Zenon, <2>1, <2>2, <2>3, <2>4, <2>5, <2>6, <2>7, <2>8, <1>1 DEF AiNext
<1>. QED
    BY <1>1, AiInitInv, PTL DEF AiSpec

\* The state of a subscription keeps its type.
THEOREM AiTypeCorrect == AiSpec => []AiTypeOK
<1>1. AiInv => AiTypeOK
    BY Zenon DEF AiInv
<1>. QED
    BY <1>1, AiInvariance, PTL

\* Whatever a subscription that fell behind never hears of was outside the
\* newest rows its replay asked for (stream_inbound_events, Lagged arms).
THEOREM LostOnlyBeyondWindowHolds == AiSpec => []LostOnlyBeyondWindow
<1>1. AiInv => LostOnlyBeyondWindow
    BY Zenon DEF AiInv, Accounted, LostOnlyBeyondWindow, MissedSilently
<1>. QED
    BY <1>1, AiInvariance, PTL

\* No event is written again until AiWindow others have been, whether it came
\* live or by a replay (DeliveredInboundCursor).
THEOREM NotWrittenTwiceHolds == AiSpec => []NotWrittenTwice
<1>1. AiInv => NotWrittenTwice
    BY Zenon DEF AiInv
<1>. QED
    BY <1>1, AiInvariance, PTL

-----------------------------------------------------------------------------
(* The catch-up driver. *)

\* The started flag is set exactly while a loop serves, and one loop does.
StartedMeansServing ==
    /\ cdStarted <=> \E l \in CdLoops : l \in CdServing
    /\ \A k, l \in CdServing : k = l

\* The inductive invariant of the catch-up loop.
CdInv == CdTypeOK /\ StartedMeansServing /\ OneCatchUpLoop

\* At the start no loop serves.
LEMMA CdInitInv == CdInit => CdInv
BY ZenonT(30) DEF CdInit, CdInv, CdTypeOK, StartedMeansServing, OneCatchUpLoop, CdServing

\* Subscribing and dropping change the count only.
LEMMA CdSubInv ==
    ASSUME CdInv, NEW s \in CdSubs, CdSubscribe(s) \/ CdDrop(s)
    PROVE  CdInv'
BY DEF CdSubscribe, CdDrop, CdInv, CdTypeOK, StartedMeansServing, OneCatchUpLoop,
   CdServing

\* Whoever finds the flag clear sets it and starts a loop.
LEMMA CdSpawnInv ==
    ASSUME CdInv, NEW s \in CdSubs, CdSpawn(s)
    PROVE  CdInv'
BY DEF CdSpawn, CdInv, CdTypeOK, StartedMeansServing, OneCatchUpLoop, CdServing,
   CdMove

\* A step of a loop that goes on serving.
LEMMA CdServeInv ==
    ASSUME CdInv, NEW l \in CdLoops, CdTick(l) \/ CdLoad(l) \/ CdLock(l) \/ CdDone(l)
    PROVE  CdInv'
BY DEF CdTick, CdLoad, CdLock, CdDone, CdMove, CdInv, CdTypeOK, CdServing,
   StartedMeansServing, OneCatchUpLoop

\* A loop that means to stop clears the flag.
LEMMA CdStoreInv ==
    ASSUME CdInv, NEW l \in CdLoops, CdStore(l)
    PROVE  CdInv'
<1>1. cdLoop[l] = "store" /\ cdLoop' = [cdLoop EXCEPT ![l] = "reload"] /\ cdStarted' = FALSE /\ cdSub' = cdSub
    BY Zenon DEF CdStore, CdMove
<1>2. CdServing = {l}
    BY Zenon, <1>1 DEF CdInv, StartedMeansServing, CdServing
<1>3. CdServing' = {}
    BY Zenon, <1>1, <1>2 DEF CdInv, CdTypeOK, CdServing
<1>4. CdTypeOK' /\ cdLoop'[l] = "reload"
    BY ZenonT(30), <1>1 DEF CdInv, CdTypeOK
<1>. QED
    BY Zenon, <1>1, <1>3, <1>4 DEF CdInv, StartedMeansServing, OneCatchUpLoop

\* A loop that ends at its second look leaves no subscription behind: it ends
\* only if there is none.
LEMMA CdReloadInv ==
    ASSUME CdInv, NEW l \in CdLoops, CdReload(l)
    PROVE  CdInv'
BY DEF CdReload, CdMove, CdInv, CdTypeOK, CdServing, CdActive, StartedMeansServing,
   OneCatchUpLoop

\* It goes on only if it takes the flag back.
LEMMA CdCasInv ==
    ASSUME CdInv, NEW l \in CdLoops, CdCas(l)
    PROVE  CdInv'
BY DEF CdCas, CdMove, CdInv, CdTypeOK, CdServing, StartedMeansServing,
   OneCatchUpLoop

\* The subscriptions are served by one catch-up loop, for any number of
\* subscriptions and spawned tasks (InboundCatchUpDriver::spawn).
THEOREM OneCatchUpLoopHolds == CdSpec => []OneCatchUpLoop
<1>1. CdInv /\ [CdNext]_cdVars => CdInv'
  <2>. SUFFICES ASSUME CdInv, [CdNext]_cdVars PROVE CdInv'
      OBVIOUS
  <2>1. CASE \E s \in CdSubs : CdSubscribe(s) \/ CdSpawn(s) \/ CdDrop(s)
      BY Zenon, <2>1, CdSubInv, CdSpawnInv
  <2>2. CASE \E l \in CdLoops : \/ CdTick(l) \/ CdLoad(l) \/ CdStore(l) \/ CdReload(l)
                                 \/ CdCas(l) \/ CdLock(l) \/ CdDone(l)
      BY Zenon, <2>2, CdServeInv, CdStoreInv, CdReloadInv, CdCasInv
  <2>3. CASE UNCHANGED cdVars
      BY Zenon, <2>3 DEF cdVars, CdInv, CdTypeOK, StartedMeansServing, OneCatchUpLoop,
         CdServing
  <2>. QED
      BY Zenon, <2>1, <2>2, <2>3 DEF CdNext
<1>2. CdInv => OneCatchUpLoop
    BY Zenon DEF CdInv
<1>. QED
    BY <1>1, <1>2, CdInitInv, PTL DEF CdSpec

-----------------------------------------------------------------------------
(* The database.                                                           *)

\* Where the owner of the transaction slot stands: with its callback running,
\* or on the way into or out of it.
Owning(t) ==
    scInside[t] \/ scPc[t] \in {"begin", "commit", "rollback", "committed", "giveUp", "spoil"}

\* The owner is the one thread that stands there; nobody owns a spoilt
\* connection.
Ownership ==
    /\ \A t \in ScThreads : scOwner = t <=> Owning(t)
    /\ \A t \in ScThreads : scInside[t] => scPc[t] \in {"body", "lock", "connWait", "recheck", "using", "enter"}
    /\ \A t \in ScThreads : scPc[t] = "body" => scInside[t]
    /\ scUnusable => scOwner = NoThread

\* The SQL transaction is open from BEGIN to COMMIT or ROLLBACK, or for good
\* on a spoilt connection.
Opened ==
    /\ \A t \in ScThreads : scOwner = t =>
          scOpen = IF scPc[t] \in {"begin", "committed", "giveUp"} THEN NoThread ELSE t
    /\ scOwner = NoThread /\ ~scUnusable => scOpen = NoThread

\* The connection is held from its being taken to the end of the statement,
\* and used only by a thread whose transaction is open or when none is.
Held ==
    /\ \A t \in ScThreads : scConn = t <=> scPc[t] \in {"recheck", "using"}
    /\ \A t \in ScThreads : scPc[t] = "using" => scOpen \in {NoThread, t} /\ ~scUnusable

\* What is pending is the open transaction's; operations count down, so what a
\* thread wrote is of this operation or of an earlier one.
Numbered ==
    /\ \A w \in scPending : w[1] = scOpen
    /\ \A w \in scPending \cup scDb : w[2] >= scLeft[w[1]]

\* Nothing of an operation is in effect before it is done.
Unfinished(t) ==
    ~ (scPc[t] = "committed" \/ (scPc[t] = "idle" /\ scAnswer[t] # "failed"))
\* Outside a transaction nothing is pending.
Clean ==
    \A t \in ScThreads : Unfinished(t) => \A w \in scDb : w[1] = t => w[2] # scLeft[t]

\* Whoever waits for the slot waits for another thread's transaction.
Waiting == \A t \in ScThreads : scPc[t] \in {"slotWait", "txWait"} => scOwner \notin {NoThread, t}

\* Attempts to begin are counted below their limit.
Tries == \A t \in ScThreads : scPc[t] = "begin" => scTried[t] < ScTries

\* The inductive invariant of the shared connection.
ScInv == ScTypeOK /\ Ownership /\ Opened /\ Held /\ Numbered /\ Clean /\ Waiting /\ Tries

\* Nobody at the connection: the invariant holds.
LEMMA ScInitInv == ScInit => ScInv
<1>. SUFFICES ASSUME ScInit PROVE ScInv
    BY Zenon
<1>. USE ScAssumption DEF ScInit
<1>1. ScTypeOK
    <2>1. scLeft \in [ScThreads -> 0 .. ScOps] /\ scTried \in [ScThreads -> 0 .. ScTries]
      OBVIOUS
    <2>2. scWrote \in [ScThreads -> Nat] /\ scInside \in [ScThreads -> BOOLEAN] /\ scUnusable \in BOOLEAN
      BY ZenonT(30)
    <2>3. scPending \cup scDb \subseteq ScThreads \X (0 .. ScOps) \X Nat
      BY Zenon
    <2>. QED
      BY Zenon, <2>1, <2>2, <2>3 DEF ScTypeOK
<1>2. Ownership /\ Opened /\ Held
    BY Zenon DEF Ownership, Owning, Opened, Held
<1>3. Numbered /\ Clean /\ Waiting /\ Tries
    BY ZenonT(30) DEF Numbered, Clean, Waiting, Tries
<1>. QED
    BY Zenon, <1>1, <1>2, <1>3 DEF ScInv

\* A plain statement queues for the connection.
LEMMA StartStatementInv ==
    ASSUME ScInv, NEW t \in ScThreads, StartStatement(t)
    PROVE  ScInv'
BY SMTT(30), ScAssumption DEF ScInv, ScTypeOK, StartStatement, Goes, Ownership, Owning,
   Opened, Held, Numbered, Clean, Unfinished, Waiting, Tries

\* A transaction goes for the slot.
LEMMA StartTransactionInv ==
    ASSUME ScInv, NEW t \in ScThreads, StartTransaction(t)
    PROVE  ScInv'
BY SMTT(30), ScAssumption DEF ScInv, ScTypeOK, StartTransaction, Goes, Ownership, Owning,
   Opened, Held, Numbered, Clean, Unfinished, Waiting, Tries

\* A statement waits while another thread owns the slot.
LEMMA WaitForSlotInv ==
    ASSUME ScInv, NEW t \in ScThreads, WaitForSlot(t)
    PROVE  ScInv'
BY SMTT(30), ScAssumption DEF ScInv, ScTypeOK, WaitForSlot, Returns, Goes, Foreign,
   Ownership,
   Owning, Opened, Held, Numbered, Clean, Unfinished, Waiting, Tries

\* The free connection goes to one thread.
LEMMA TakeConnectionInv ==
    ASSUME ScInv, NEW t \in ScThreads, TakeConnection(t)
    PROVE  ScInv'
BY SMTT(30), ScAssumption DEF ScInv, ScTypeOK, TakeConnection, Goes, Ownership, Owning,
   Opened, Held, Numbered, Clean, Unfinished, Waiting, Tries

\* With the connection in hand the owner is looked at again.
LEMMA RecheckInv ==
    ASSUME ScInv, NEW t \in ScThreads, Recheck(t)
    PROVE  ScInv'
BY SMTT(30), ScAssumption DEF ScInv, ScTypeOK, Recheck, Returns, Goes, StillForeign,
   Foreign,
   Ownership, Owning, Opened, Held, Numbered, Clean, Unfinished, Waiting, Tries

\* A statement writes into the open transaction, or into the database.
LEMMA ExecuteInv ==
    ASSUME ScInv, NEW t \in ScThreads, Execute(t)
    PROVE  ScInv'
BY SMTT(30), ScAssumption DEF ScInv, ScTypeOK, Execute, Returns, Goes, Statement, Ownership,
   Owning, Opened, Held, Numbered, Clean, Unfinished, Waiting, Tries

\* with_transaction takes the free slot, waits for it, or runs nested.
LEMMA EnterInv ==
    ASSUME ScInv, NEW t \in ScThreads, Enter(t)
    PROVE  ScInv'
BY ScAssumption DEF ScInv, ScTypeOK, Enter, Returns, Goes, Foreign, Ownership,
   Owning, Opened, Held, Numbered, Clean, Unfinished, Waiting, Tries

\* BEGIN opens the transaction or is tried again.
LEMMA BeginInv ==
    ASSUME ScInv, NEW t \in ScThreads, NEW busy \in BOOLEAN, Begin(t, busy)
    PROVE  ScInv'
<1>. USE ScAssumption
<1>1. ScTypeOK'
    <2>1. scTried' \in [ScThreads -> 0 .. ScTries]
      BY DEF ScInv, ScTypeOK, Tries, Begin
    <2>2. /\ scPc' \in [ScThreads -> {"idle", "lock", "slotWait", "connWait", "recheck", "using", "enter", "txWait",
                                      "begin", "body", "commit", "rollback", "committed", "giveUp", "spoil"}]
          /\ scInside' \in [ScThreads -> BOOLEAN] /\ scOpen' \in ScThreads \cup {NoThread}
      BY ZenonT(30) DEF ScInv, ScTypeOK, Begin, Goes
    <2>3. UNCHANGED << scLeft, scWrote, scAnswer, scConn, scOwner, scUnusable, scPending, scDb >>
      BY Zenon DEF Begin
    <2>. QED
      BY Zenon, <2>1, <2>2, <2>3 DEF ScInv, ScTypeOK
<1>2. Ownership'
    BY DEF ScInv, ScTypeOK, Ownership, Owning, Begin, Goes
<1>3. Opened'
    BY SMTT(30) DEF ScInv, ScTypeOK, Ownership, Owning, Opened, Begin, Goes
<1>4. Held'
    BY SMTT(30) DEF ScInv, ScTypeOK, Ownership, Owning, Opened, Held, Begin, Goes
<1>5. Numbered'
    BY DEF ScInv, ScTypeOK, Held, Ownership, Owning, Opened, Numbered, Begin, Goes
<1>6. Clean'
    BY DEF ScInv, ScTypeOK, Ownership, Owning, Opened, Held, Numbered, Clean,
       Unfinished, Begin, Goes
<1>7. Waiting'
    BY DEF ScInv, ScTypeOK, Ownership, Owning, Waiting, Begin, Goes
<1>8. Tries'
    BY ZenonT(30) DEF ScInv, ScTypeOK, Tries, Begin, Goes
<1>. QED
    BY Zenon, <1>1, <1>2, <1>3, <1>4, <1>5, <1>6, <1>7, <1>8 DEF ScInv

\* The callback runs a statement or a nested transaction.
LEMMA BodyStatementInv ==
    ASSUME ScInv, NEW t \in ScThreads, BodyStatement(t)
    PROVE  ScInv'
BY SMTT(30), ScAssumption DEF ScInv, ScTypeOK, BodyStatement, Goes, Ownership, Owning,
   Opened,
   Held, Numbered, Clean, Unfinished, Waiting, Tries

\* The callback ends in COMMIT or ROLLBACK.
LEMMA BodyEndsInv ==
    ASSUME ScInv, NEW t \in ScThreads, NEW ok \in BOOLEAN, BodyEnds(t, ok)
    PROVE  ScInv'
BY SMTT(30), ScAssumption DEF ScInv, ScTypeOK, BodyEnds, Goes, Ownership, Owning, Opened,
   Held, Numbered, Clean, Unfinished, Waiting, Tries

\* COMMIT stores what is pending, or fails and leaves it.
LEMMA CommitInv ==
    ASSUME ScInv, NEW t \in ScThreads, NEW ok \in BOOLEAN, Commit(t, ok)
    PROVE  ScInv'
BY SMTT(30), ScAssumption DEF ScInv, ScTypeOK, Commit, Goes, Ownership, Owning, Opened,
   Held,
   Numbered, Clean, Unfinished, Waiting, Tries

\* ROLLBACK drops what is pending.
LEMMA RollbackInv ==
    ASSUME ScInv, NEW t \in ScThreads, NEW ok \in BOOLEAN, Rollback(t, ok)
    PROVE  ScInv'
BY SMTT(30), ScAssumption DEF ScInv, ScTypeOK, Rollback, Goes, Ownership, Owning, Opened,
   Held, Numbered, Clean, Unfinished, Waiting, Tries

\* The owner clears the slot and tells the waiters.
LEMMA LeaveInv ==
    ASSUME ScInv, NEW t \in ScThreads, Leave(t)
    PROVE  ScInv'
BY SMTT(30), ScAssumption DEF ScInv, ScTypeOK, Leave, ClearOwner, GoesNotifying, Ownership,
   Owning, Opened, Held, Numbered, Clean, Unfinished, Waiting, Tries

\* A rollback that fails makes the connection unusable.
LEMMA SpoilInv ==
    ASSUME ScInv, NEW t \in ScThreads, Spoil(t)
    PROVE  ScInv'
BY ScAssumption DEF ScInv, ScTypeOK, Spoil, MarkUnusable, GoesNotifying, Ownership,
   Owning, Opened, Held, Numbered, Clean, Unfinished, Waiting, Tries

-----------------------------------------------------------------------------

\* The invariant holds in every reachable state.
THEOREM ScInvariance == ScSpec => []ScInv
<1>1. ASSUME ScInv, [ScNext]_scVars PROVE ScInv'
    <2>1. CASE ScNext
        <3>1. PICK t \in ScThreads : StartStatement(t) \/ StartTransaction(t) \/ ScRuns(t)
        BY Zenon, <2>1 DEF ScNext
        <3>2. CASE StartStatement(t) \/ StartTransaction(t)
        BY Zenon, <3>2, <1>1, StartStatementInv, StartTransactionInv
        <3>3. CASE WaitForSlot(t) \/ TakeConnection(t) \/ Recheck(t) \/ Execute(t)
        BY Zenon, <3>3, <1>1, WaitForSlotInv, TakeConnectionInv, RecheckInv, ExecuteInv
        <3>4. CASE Enter(t) \/ Leave(t) \/ Spoil(t) \/ BodyStatement(t)
        BY Zenon, <3>4, <1>1, EnterInv, LeaveInv, SpoilInv, BodyStatementInv
        <3>5. CASE \E ok \in BOOLEAN : Begin(t, ~ok)
        BY ZenonT(30), <3>5, <1>1, BeginInv
        <3>6. CASE \E ok \in BOOLEAN : BodyEnds(t, ok) \/ Commit(t, ok) \/ Rollback(t, ok)
        BY Zenon, <3>6, <1>1, BodyEndsInv, CommitInv, RollbackInv
        <3>. QED
        BY Zenon, <3>1, <3>2, <3>3, <3>4, <3>5, <3>6 DEF ScRuns
    <2>2. CASE UNCHANGED scVars
      BY ZenonT(30), <2>2, <1>1 DEF scVars, ScInv, ScTypeOK, Ownership, Owning, Opened,
         Held,
         Numbered, Clean,
                            Unfinished, Waiting, Tries
    <2>. QED
      BY Zenon, <1>1, <2>1, <2>2
<1>. QED
    BY <1>1, ScInitInv, PTL DEF ScSpec

\* Threads, connection and statements keep their types.
THEOREM ScTypeCorrect == ScSpec => []ScTypeOK
<1>1. ScInv => ScTypeOK
    BY Zenon DEF ScInv
<1>. QED
    BY <1>1, ScInvariance, PTL

\* While a transaction is open no other thread uses the connection, and a
\* connection whose rollback failed is used by nobody (lock,
\* mark_transaction_unusable).
THEOREM TransactionsIsolatedHolds == ScSpec => []TransactionsIsolated
<1>1. ScInv => TransactionsIsolated
    BY Zenon DEF ScInv, Held, Numbered, TransactionsIsolated
<1>. QED
    BY <1>1, ScInvariance, PTL

\* Of an operation that failed nothing is in effect (with_transaction).
THEOREM TransactionsAtomicHolds == ScSpec => []TransactionsAtomic
<1>1. ScInv => TransactionsAtomic
    BY Zenon DEF ScInv, Clean, Unfinished, TransactionsAtomic
<1>. QED
    BY <1>1, ScInvariance, PTL

\* A waiter waits for a transaction of another thread that is on its way, and
\* who holds the connection waits for nothing (clear_transaction_owner).
THEOREM NoWaiterForgottenHolds == ScSpec => []NoWaiterForgotten
<1>1. ASSUME ScInv PROVE NoWaiterForgotten
    BY Zenon, <1>1 DEF ScInv, ScTypeOK, Waiting, Ownership, Owning, Held, NoWaiterForgotten
<1>. QED
    BY <1>1, ScInvariance, PTL

-----------------------------------------------------------------------------
(* The directory.                                                          *)

(***************************************************************************)
(* The user directory.                                                     *)
(***************************************************************************)

\* A user's record is on its way to the worker: a writer that has put it will
\* still ask for a rebuild.
DyAnnounced(u) == \E w \in DyWriters : dyWriter[w].st \in {"cache", "request"} /\ dyWriter[w].user = u

\* A rebuild that has yet to read the stores is queued or begun.
DyRebuildDue == dyChan > 0 \/ dyWorker = "plan"

\* A read-modify-write in flight.
DySaves == [st : {"idle", "compare", "shared", "cache", "request"},
            user : DyUsers \cup {Missing}, age : DyAges \cup {Missing}]

\* The types; the plan and the watched users are known ones.
DyTyped ==
  /\ dyShared \in [DyUsers -> DyAges \cup {Missing}]
  /\ dyCache \in [DyUsers -> DyAges \cup {Missing}]
  /\ dyEdges \subseteq DyUsers
  /\ dyWriter \in [DyWriters -> DySaves]
  /\ \A w \in DyWriters : dyWriter[w].st # "idle" =>
       dyWriter[w].user \in DyUsers /\ dyWriter[w].age \in DyAges
  /\ dyQueued \in BOOLEAN /\ dyChan \in 0..DyChannel
  /\ dyWorker \in {"idle", "plan", "subscribe"}
  /\ dyPlan \subseteq KnownUsers /\ dyActive \subseteq KnownUsers
  /\ dyLive \subseteq SUBSET DyUsers
  /\ dyFailed \in BOOLEAN

\* What the coalescing flag and the failed rebuilds leave true at every step.
DyWatched ==
  /\ dyQueued => dyChan > 0
  /\ \A u \in KnownUsers :
       \/ DyRebuildDue \/ DyAnnounced(u)
       \/ dyWorker = "subscribe" /\ u \in dyPlan
       \/ dyWorker = "idle" /\ (dyFailed \/ u \in dyActive)
  /\ dyWorker = "subscribe" => dyActive \subseteq dyPlan
  /\ dyActive # {} => \/ dyActive \in dyLive
                      \/ dyFailed /\ dyActive # KnownUsers
                           /\ (dyWorker = "subscribe" => dyActive # dyPlan)

\* The shared fetch and its callers.
DyServed ==
  /\ dyFetch \in [st : {"none", "running"}, owner : DyCallers \cup {Missing}, waiters : SUBSET DyCallers]
  /\ dyCaller \in [DyCallers -> {"idle", "waiting"}]
  /\ WaitersAreServed

\* The inductive invariant of the directory.
DyInv == DyTyped /\ DyWatched /\ DyServed

\* The newer of two records is a record as soon as one of them is.
LEMMA NewerIsARecord ==
  ASSUME NEW c \in DyAges \cup {Missing}, NEW s \in DyAges \cup {Missing}
  PROVE  SelectNewer(c, s) # Missing <=> (c # Missing \/ s # Missing)
BY DyAssumption DEF Missing, SelectNewer

\* A user is known once either store has a record of them.
LEMMA DyKnown ==
  ASSUME DyTyped
  PROVE  KnownUsers = {u \in DyUsers : dyCache[u] # Missing \/ dyShared[u] # Missing}
BY NewerIsARecord DEF DyTyped, KnownUsers, Entry

\* The same after a step, and nothing is forgotten: a step that keeps or adds
\* records keeps users known.
LEMMA DyKnownGrows ==
  ASSUME DyTyped,
         dyCache' \in [DyUsers -> DyAges \cup {Missing}],
         dyShared' \in [DyUsers -> DyAges \cup {Missing}],
         \A u \in DyUsers : /\ dyCache[u] # Missing => dyCache'[u] # Missing
                            /\ dyShared[u] # Missing => dyShared'[u] # Missing
  PROVE  /\ KnownUsers' = {u \in DyUsers : dyCache'[u] # Missing \/ dyShared'[u] # Missing}
         /\ KnownUsers \subseteq KnownUsers'
BY NewerIsARecord, DyKnown DEF KnownUsers, Entry

\* With empty stores the invariant holds.
LEMMA DyInitSound == DyInit => DyInv
<1>. SUFFICES ASSUME DyInit PROVE DyInv
    BY Zenon
<1>1. KnownUsers = {}
    BY Zenon DEF DyInit, KnownUsers, Entry, SelectNewer, Missing
<1>2. NoSave \in DySaves /\ NoSave.st = "idle"
    BY Zenon DEF NoSave, DySaves
<1>3. 1 \in 0..DyChannel
    BY DyAssumption
<1>4. DyTyped
    BY ZenonT(30), <1>1, <1>2, <1>3 DEF DyInit, DyTyped
<1>5. DyWatched
    BY Zenon, <1>1 DEF DyInit, DyWatched
<1>6. DyServed
    BY Zenon DEF DyInit, DyServed, NoFetch, WaitersAreServed, Missing
<1>. QED
    BY Zenon, <1>4, <1>5, <1>6 DEF DyInv

\* Fetches and the rest of the directory share nothing.
LEMMA DyServedKept ==
  ASSUME DyServed, UNCHANGED dyFetches
  PROVE  DyServed'
BY Zenon DEF DyServed, dyFetches, WaitersAreServed

\* Taking up something to remember, and comparing it with the stores, writes
\* nothing.
LEMMA DyWriterStep ==
  ASSUME DyTyped, DyWatched, NEW w \in DyWriters, NEW sv \in DySaves,
         sv.st # "idle" => sv.user \in DyUsers /\ sv.age \in DyAges,
         dyWriter[w].st \notin {"cache", "request"},
         dyWriter' = [dyWriter EXCEPT ![w] = sv],
         UNCHANGED <<dyStores, dySync>>
  PROVE  DyTyped' /\ DyWatched'
BY Zenon DEF KnownUsers, Entry, dyStores, DyTyped, dySync, DyAnnounced, DyRebuildDue,
   DyWatched

\* A writer starts with a record to save.
LEMMA RememberUserKeeps ==
  ASSUME DyInv, NEW w \in DyWriters, NEW u \in DyUsers, NEW age \in DyAges,
         RememberUser(w, u, age)
  PROVE  DyInv'
BY DyWriterStep, DyServedKept DEF DySaves, RememberUser, DyInv, DyTyped

\* A record that is not newer is not saved.
LEMMA SaveComparesKeeps ==
  ASSUME DyInv, NEW w \in DyWriters, SaveCompares(w)
  PROVE  DyInv'
<1>. DEFINE u == dyWriter[w].user
            chosen == SelectNewer(dyWriter[w].age, dyShared[u])
            sv == IF dyShared[u] = chosen /\ dyCache[u] = chosen THEN NoSave
                  ELSE [dyWriter[w] EXCEPT !.st = "shared", !.age = chosen]
<1>1. dyWriter[w] \in DySaves /\ u \in DyUsers /\ dyWriter[w].age \in DyAges
    BY Zenon DEF SaveCompares, DyInv, DyTyped
<1>2. chosen \in DyAges
  <2>1. dyShared[u] \in DyAges \cup {Missing}
      BY Zenon, <1>1 DEF DyInv, DyTyped
  <2>2. dyWriter[w].age # Missing
      BY <1>1, DyAssumption DEF Missing
  <2>3. chosen # Missing
      BY Zenon, <1>1, <2>1, <2>2, NewerIsARecord
  <2>. QED
      BY Zenon, <1>1, <2>1, <2>3 DEF SelectNewer
<1>3. sv \in DySaves
    BY ZenonT(30), <1>1, <1>2 DEF DySaves, NoSave
<1>4. sv.st # "idle" => sv.user \in DyUsers /\ sv.age \in DyAges
    BY Zenon, <1>1, <1>2 DEF NoSave, DySaves
<1>5. DyTyped' /\ DyWatched'
    BY ZenonT(30), <1>3, <1>4, DyWriterStep DEF DyInv, SaveCompares
<1>. QED
    BY Zenon, <1>5, DyServedKept DEF DyInv, SaveCompares

\* A record put into a store makes its user known, and its writer is still to
\* ask for a rebuild.
LEMMA SavePutsKeeps ==
  ASSUME DyInv, NEW w \in DyWriters, SavePutsShared(w) \/ SavePutsCache(w)
  PROVE  DyInv'
<1>0. PICK u : u = dyWriter[w].user
    BY Zenon
<1>. USE DEF DyInv
<1>1. dyWriter[w] \in DySaves /\ u \in DyUsers /\ dyWriter[w].age \in DyAges
    BY Zenon, <1>0 DEF SavePutsShared, SavePutsCache, DyTyped
<1>2. dyWriter[w].age # Missing
    BY <1>1, DyAssumption DEF Missing
<1>3. /\ dyCache' \in [DyUsers -> DyAges \cup {Missing}]
      /\ dyShared' \in [DyUsers -> DyAges \cup {Missing}]
      /\ \A v \in DyUsers : /\ dyCache[v] # Missing => dyCache'[v] # Missing
                            /\ dyShared[v] # Missing => dyShared'[v] # Missing
      /\ \A v \in DyUsers \ {u} : dyCache'[v] = dyCache[v] /\ dyShared'[v] = dyShared[v]
    BY Zenon, <1>0, <1>1, <1>2 DEF SavePutsShared, SavePutsCache, DyTyped
<1>4. KnownUsers \subseteq KnownUsers' /\ KnownUsers' \subseteq KnownUsers \cup {u}
    BY Zenon, <1>3, DyKnownGrows, DyKnown
<1>5. /\ dyWriter' \in [DyWriters -> DySaves]
      /\ dyWriter'[w].st \in {"cache", "request"} /\ dyWriter'[w].user = u
      /\ dyWriter'[w].age = dyWriter[w].age
      /\ \A x \in DyWriters \ {w} : dyWriter'[x] = dyWriter[x]
    BY <1>0, <1>1 DEF SavePutsShared, SavePutsCache, DyTyped, DySaves
<1>6. UNCHANGED dySync /\ dyEdges' = dyEdges /\ UNCHANGED dyFetches
    BY Zenon DEF SavePutsShared, SavePutsCache
<1>7. DyTyped'
    BY Zenon, <1>1, <1>3, <1>4, <1>5, <1>6 DEF DyTyped, dySync
<1>8. DyAnnounced(u)' /\ \A v : DyAnnounced(v) => DyAnnounced(v)'
    BY Zenon, <1>0, <1>5 DEF DyAnnounced
<1>9. DyRebuildDue' = DyRebuildDue
    BY Zenon, <1>6 DEF DyRebuildDue, dySync
<1>10. ASSUME dyActive # {}, dyActive \notin dyLive
       PROVE  dyActive # KnownUsers'
    BY ZenonT(30), <1>4, <1>10 DEF DyWatched, DyTyped
<1>11. \A v \in KnownUsers' :
         \/ DyRebuildDue' \/ DyAnnounced(v)'
         \/ dyWorker' = "subscribe" /\ v \in dyPlan'
         \/ dyWorker' = "idle" /\ (dyFailed' \/ v \in dyActive')
    BY Zenon, <1>4, <1>8, <1>9, <1>6 DEF DyWatched, dySync
<1>12. DyWatched'
    BY ZenonT(30), <1>6, <1>10, <1>11 DEF DyWatched, dySync
<1>. QED
    BY Zenon, <1>6, <1>7, <1>12, DyServedKept

\* A request is queued, coalesced or finds the channel full.
LEMMA RequestRebuildKeeps ==
  ASSUME DyInv, NEW w \in DyWriters, RequestRebuild(w)
  PROVE  DyInv'
BY DyAssumption, DyServedKept DEF DyInv, KnownUsers, Entry, RequestRebuild,
   dyStores, DyTyped, DyWatched, NoSave, DySaves, DyRebuildDue

\* Steps that touch neither stores nor writers.
LEMMA DyKnownKept ==
  ASSUME UNCHANGED <<dyStores, dyWriter>>
  PROVE  /\ KnownUsers' = KnownUsers
         /\ \A u : DyAnnounced(u)' = DyAnnounced(u)
BY Zenon DEF KnownUsers, Entry, DyAnnounced, dyStores

\* Follows enter the search graph only.
LEMMA IngestsContactListKeeps ==
  ASSUME DyInv, NEW u \in DyUsers, IngestsContactList(u)
  PROVE  DyInv'
BY ZenonT(30), DyServedKept DEF DyInv, KnownUsers, Entry, IngestsContactList, DyAnnounced,
   DyTyped, dySync, DyWatched, DyRebuildDue

\* A rebuild in the foreground is one more command.
LEMMA ForegroundRebuildKeeps ==
  ASSUME DyInv, ForegroundRebuild
  PROVE  DyInv'
BY DyKnownKept, DyAssumption, DyServedKept DEF DyInv, ForegroundRebuild, DyTyped,
   dyStores, DyWatched, DyRebuildDue

\* The worker clears the flag before it plans.
LEMMA WorkerTakesKeeps ==
  ASSUME DyInv, WorkerTakes
  PROVE  DyInv'
<1>. USE DEF DyInv
<1>1. KnownUsers' = KnownUsers
    BY Zenon, DyKnownKept DEF WorkerTakes
<1>2. DyTyped'
  <2>1. dyChan' \in 0..DyChannel
      BY DyAssumption DEF DyTyped, WorkerTakes
  <2>. QED
      BY ZenonT(30), <1>1, <2>1 DEF DyTyped, WorkerTakes, dyStores, FlagWhenTaken
<1>3. DyWatched'
    BY Zenon, <1>1 DEF DyWatched, WorkerTakes, DyRebuildDue, FlagWhenTaken
<1>. QED
    BY Zenon, <1>2, <1>3, DyServedKept DEF WorkerTakes

\* The plan is everyone known at this moment: who is announced later has a
\* writer still to ask.
LEMMA WorkerPlansKeeps ==
  ASSUME DyInv, WorkerPlans
  PROVE  DyInv'
BY Zenon, DyKnownKept, DyServedKept DEF DyInv, WorkerPlans, DyTyped, dyStores, DyWatched

\* The worker replaces the batches by those of the plan.
LEMMA WorkerSubscribesKeeps ==
  ASSUME DyInv, WorkerSubscribes
  PROVE  DyInv'
<1>. USE DEF DyInv
<1>1. KnownUsers' = KnownUsers /\ \A v : DyAnnounced(v)' = DyAnnounced(v)
    BY Zenon, DyKnownKept DEF WorkerSubscribes
<1>2. dyPlan \subseteq DyUsers
    BY Zenon DEF DyTyped, KnownUsers
<1>3. DyTyped'
  <2>1. dyLive' \subseteq SUBSET DyUsers
      BY <1>2 DEF DyTyped, WorkerSubscribes
  <2>. QED
      BY ZenonT(30), <1>1, <2>1 DEF DyTyped, WorkerSubscribes, dyStores
<1>4. dyPlan # {} => dyPlan \in dyLive'
    BY Zenon DEF WorkerSubscribes, DyWatched
<1>5. \A u \in KnownUsers : dyChan > 0 \/ DyAnnounced(u) \/ u \in dyPlan
    BY Zenon DEF DyWatched, WorkerSubscribes, DyRebuildDue
<1>6. DyWatched'
    BY Zenon, <1>1, <1>4, <1>5 DEF DyWatched, WorkerSubscribes, DyRebuildDue
<1>. QED
    BY Zenon, <1>3, <1>6, DyServedKept DEF WorkerSubscribes

\* A failed rebuild may have dropped the old batch, but then there is someone
\* to watch who is not in it, so that it is never taken for the current one.
LEMMA WorkerFailsKeeps ==
  ASSUME DyInv, WorkerFails
  PROVE  DyInv'
<1>. USE DEF DyInv
<1>1. KnownUsers' = KnownUsers /\ \A v : DyAnnounced(v)' = DyAnnounced(v)
    BY Zenon, DyKnownKept DEF WorkerFails
<1>2. DyTyped'
    BY Zenon, <1>1 DEF DyTyped, WorkerFails, dyStores
<1>3. dyActive \in dyLive /\ dyActive \notin dyLive' => dyActive # KnownUsers
  <2>. SUFFICES ASSUME dyActive \in dyLive, dyActive \notin dyLive', dyActive = KnownUsers
                PROVE  FALSE
      BY Zenon
  <2>1. dyActive # dyPlan
      BY Zenon DEF WorkerFails
  <2>2. dyActive \subseteq dyPlan /\ dyPlan \subseteq KnownUsers
      BY Zenon DEF WorkerFails, DyWatched, DyTyped
  <2>. QED
      BY Zenon, <2>1, <2>2
<1>4. DyWatched'
    BY Zenon, <1>1, <1>3 DEF DyWatched, WorkerFails
<1>. QED
    BY Zenon, <1>2, <1>4, DyServedKept DEF WorkerFails

\* A restart begins with a rebuild queued.
LEMMA DyRestartKeeps ==
  ASSUME DyInv, DyRestart
  PROVE  DyInv'
<1>. USE DEF DyInv
<1>1. KnownUsers' = KnownUsers
    BY Zenon DEF DyRestart, KnownUsers, Entry, dyStores
<1>2. 1 \in 0..DyChannel
    BY DyAssumption
<1>3. DyTyped'
    BY ZenonT(30), <1>1, <1>2 DEF DyTyped, DyRestart, dyStores, NoSave, DySaves
<1>4. DyWatched'
    BY Zenon, <1>1 DEF DyWatched, DyRestart, DyRebuildDue
<1>5. DyServed'
    BY Zenon DEF DyRestart, DyServed, NoFetch, WaitersAreServed, Missing
<1>. QED
    BY Zenon, <1>3, <1>4, <1>5

\* The fetches: whoever waits is registered with the running one.
LEMMA DyFetchKeeps ==
  ASSUME DyInv, DyFetchNext
  PROVE  DyInv'
<1>. USE DEF DyInv
<1>1. UNCHANGED <<dyStores, dyWriter, dySync>>
    BY ZenonT(30) DEF DyFetchNext, FetchRequested, CallerGoesAway, FetchAnswered
<1>2. KnownUsers' = KnownUsers /\ \A v : DyAnnounced(v)' = DyAnnounced(v)
    BY Zenon, <1>1, DyKnownKept
<1>3. DyTyped' /\ DyWatched'
    BY Zenon, <1>1, <1>2 DEF DyTyped, DyWatched, DyRebuildDue, dyStores, dySync
<1>4. ASSUME NEW c \in DyCallers, FetchRequested(c)
      PROVE  DyServed'
    BY Zenon, <1>4 DEF DyServed, FetchRequested, WaitersAreServed
<1>5. ASSUME NEW c \in DyCallers, CallerGoesAway(c)
      PROVE  DyServed'
    BY ZenonT(30), <1>5 DEF DyServed, CallerGoesAway, SurvivesCaller, WaitersAreServed
<1>6. ASSUME FetchAnswered
      PROVE  DyServed'
    BY Zenon, <1>6 DEF DyServed, FetchAnswered, NoFetch, WaitersAreServed, Missing
<1>. QED
    BY Zenon, <1>3, <1>4, <1>5, <1>6 DEF DyFetchNext

\* The invariant of the directory holds throughout.
LEMMA DyInvariance == DySpec => []DyInv
<1>1. DyInv /\ [DySyncNext \/ DyFetchNext]_dyVars => DyInv'
  <2>. SUFFICES ASSUME DyInv, [DySyncNext \/ DyFetchNext]_dyVars PROVE DyInv'
      BY Zenon
  <2>1. CASE UNCHANGED dyVars
      BY Zenon, <2>1, DyKnownKept, DyServedKept DEF dyVars, DyInv, DyTyped, DyWatched,
         DyRebuildDue, dyStores, dySync
  <2>2. CASE DySyncNext
      BY ZenonT(30), <2>2, RememberUserKeeps, SaveComparesKeeps, SavePutsKeeps,
         RequestRebuildKeeps,
         IngestsContactListKeeps, ForegroundRebuildKeeps, WorkerTakesKeeps, WorkerPlansKeeps,
         WorkerSubscribesKeeps, WorkerFailsKeeps, DyRestartKeeps DEF DySyncNext
  <2>3. CASE DyFetchNext
      BY Zenon, <2>3, DyFetchKeeps
  <2>. QED
      BY Zenon, <2>1, <2>2, <2>3
<1>. QED
    BY <1>1, DyInitSound, PTL DEF DySpec

\* The stores, the worker and the callers keep their shapes.
THEOREM DyTypeCorrect == DySpec => []DyTypeOK
<1>1. DyInv => DyTypeOK
    BY Zenon DEF DyInv, DyTyped, DyServed, DyTypeOK, KnownUsers
<1>. QED
    BY <1>1, DyInvariance, PTL

\* request_rebuild coalesces without losing a change, and a rebuild that fails
\* half-way never leaves a dropped batch taken for the current one; a fetch
\* outlives the callers that go away.  For any users, writers and channel.
THEOREM DirectorySoundHolds == DySpec => []DirectorySound
<1>1. DyInv => DirectorySound
  <2>. SUFFICES ASSUME DyInv PROVE DirectorySound
      BY Zenon
  <2>1. WaitersAreServed
      BY Zenon DEF DyInv, DyServed
  <2>2. ASSUME dyChan = 0, dyWorker = "idle", ~dyFailed,
               \A w \in DyWriters : dyWriter[w].st = "idle"
        PROVE  dyActive = KnownUsers /\ (dyActive # {} => dyActive \in dyLive)
    <3>1. \A u : ~DyAnnounced(u)
        BY Zenon, <2>2 DEF DyAnnounced
    <3>2. ~DyRebuildDue
        BY <2>2 DEF DyRebuildDue
    <3>3. \A u \in KnownUsers : u \in dyActive
        BY Zenon, <2>2, <3>1, <3>2 DEF DyInv, DyWatched
    <3>4. dyActive \subseteq KnownUsers
        BY Zenon DEF DyInv, DyTyped
    <3>5. dyActive # {} => dyActive \in dyLive
        BY Zenon, <2>2 DEF DyInv, DyWatched
    <3>. QED
        BY Zenon, <3>3, <3>4, <3>5
  <2>. QED
      BY Zenon, <2>1, <2>2 DEF DirectorySound, KnownAreWatched
<1>. QED
    BY <1>1, DyInvariance, PTL

=============================================================================
