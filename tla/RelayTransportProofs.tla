------------------------ MODULE RelayTransportProofs ------------------------
(***************************************************************************)
(* The relay pool and the way of an event from a relay to an account, for  *)
(* any number of accounts, groups, relays, publishes and events, and every *)
(* lookback.                                                               *)
(*                                                                         *)
(* The pool: every route of an account that was activated is fed by a      *)
(* registered subscription on a readable relay. That a publish may remove  *)
(* a relay when it lets go of it is sound because a relay is in the pool   *)
(* for writing only while some publish holds it, and the count of a relay  *)
(* is the number of publishes that hold it (HeldSound). A call in flight   *)
(* accounts for every subscription it wants: to do, added, or there        *)
(* already (CallSound).                                                    *)
(*                                                                         *)
(* Delivery: an account that lost nothing and whose cursor never jumped    *)
(* lacks only events that are on their way to it, and none older than its  *)
(* cursor by more than the lookback (Owed). This is what lets an           *)
(* activation subscribe from the cursor less the lookback.                 *)
(***************************************************************************)
EXTENDS RelayTransport, FiniteSetTheorems, TLAPS

-----------------------------------------------------------------------------
(* The pool of relays: subscriptions.                                      *)

\* A routing call of an account, and a publish.
RoCalls == [kind : {"none", "activate", "sync"}, want : SUBSET RoSubs, todo : SUBSET RoSubs,
            added : SUBSET RoSubs, drop : SUBSET RoSubs]
RoPublishes == [st : {"none", "retain", "release"}, left : SUBSET RoRelays,
                held : SUBSET RoRelays, sent : SUBSET RoRelays]

\* The types of the pool: what it has of each relay, and what accounts and
\* publishes do.
RoTyped ==
  /\ roPool \in [RoRelays -> {"absent", "write", "read"}]
  /\ roRefs \in [RoRelays -> Nat]
  /\ roRoutes \in [RoAccounts -> SUBSET RoSubs]
  /\ roLive \in [RoAccounts -> SUBSET RoSubs]
  /\ roKept \in [RoAccounts -> SUBSET RoSubs]
  /\ roCall \in [RoAccounts -> RoCalls]
  /\ roSound \in [RoAccounts -> BOOLEAN]
  /\ roPub \in [RoPublishers -> RoPublishes]

\* What a call works from and towards: the subscriptions it still has to
\* make, those under way, and the ones already registered and remembered.
CallSound(a) ==
  LET call == roCall[a] IN
  /\ roSound[a] => /\ RoInbox \in roRoutes[a]
                   /\ roRoutes[a] \subseteq roLive[a] \cap roKept[a]
                   /\ call.kind # "activate"
  /\ (call.kind = "activate" \/ (call.kind = "sync" /\ roSound[a])) =>
       call.want \subseteq call.todo \cup call.added \cup (roLive[a] \cap roKept[a])
  /\ call.kind = "activate" => RoInbox \in call.want /\ call.drop = {}
  /\ call.drop \cap (call.want \cup {RoInbox}) = {}

\* A relay someone subscribes to stays readable.
ReadRelays == \A a \in RoAccounts : \A s \in roCall[a].added \cup roLive[a] : roPool[s[2]] = "read"

\* The publishes that hold a relay.
Holders(r) == {p \in RoPublishers :
                 r \in roPub[p].held /\ (roPub[p].st = "release" => r \in roPub[p].left)}

\* A publish holds or finds readable every relay it has sent to, and
\* releases only what it holds.
PublishSound(p) ==
  LET pub == roPub[p] IN
  /\ pub.st = "none" => pub.held = {} /\ pub.sent = {}
  /\ pub.st = "retain" => pub.left \cap pub.held = {} /\ pub.left \cap pub.sent = {}
  /\ pub.st = "release" => pub.left \subseteq pub.held /\ pub.sent = {}
  /\ \A r \in pub.sent : r \in pub.held \/ roPool[r] = "read"

\* The write count of a relay is the number of publishes that hold it.
HeldSound ==
  /\ \A r \in RoRelays : /\ roPool[r] = "write" => roRefs[r] > 0
                         /\ roRefs[r] > 0 => roPool[r] # "absent"
                         /\ roRefs[r] = Cardinality(Holders(r))
  /\ \A p \in RoPublishers : PublishSound(p)

\* The inductive invariant of the pool.
RoInv == RoTyped /\ (\A a \in RoAccounts : CallSound(a)) /\ ReadRelays /\ HeldSound

\* A subscription is at a relay.
LEMMA RoRelayOf == \A s \in RoSubs : s[2] \in RoRelays
BY RoAssumption DEF RoSubs

\* The inbox subscription is one.
LEMMA RoInboxIsSub == RoInbox \in RoSubs
BY Zenon DEF RoInbox, RoSubs

\* What a caller may wish for are subscriptions.
LEMMA RoWishesAreSubs == \A want \in RoWishes : want \subseteq RoSubs
BY Zenon DEF RoWishes, RoSubs

\* The empty pool satisfies the invariant.
LEMMA RoInitSound == RoInit => RoInv
<1>. SUFFICES ASSUME RoInit PROVE RoInv
    BY Zenon
<1>1. NoCall \in RoCalls /\ NoPublish \in RoPublishes
    BY Zenon DEF NoCall, NoPublish, RoCalls, RoPublishes
<1>2. RoTyped
    BY Zenon, <1>1 DEF RoInit, RoTyped
<1>3. \A a \in RoAccounts : CallSound(a)
    BY Zenon DEF RoInit, CallSound, NoCall
<1>4. ReadRelays
    BY Zenon DEF RoInit, ReadRelays, NoCall
<1>5. \A r \in RoRelays : Holders(r) = {}
    BY Zenon DEF RoInit, Holders, NoPublish
<1>6. \A p \in RoPublishers : PublishSound(p)
    BY Zenon DEF RoInit, PublishSound, NoPublish
<1>7. \A r \in RoRelays : roPool[r] = "absent" /\ roRefs[r] = 0 /\ Cardinality(Holders(r)) = 0
    BY ZenonT(30), <1>5, FS_EmptySet DEF RoInit
<1>8. HeldSound
    BY <1>6, <1>7 DEF HeldSound
<1>. QED
    BY Zenon, <1>2, <1>3, <1>4, <1>8 DEF RoInv

\* A step of one account's call takes no relay away and leaves the publishes
\* and the other accounts alone.
LEMMA RoAccountStep ==
  ASSUME RoInv, NEW a \in RoAccounts, RoTyped', CallSound(a)',
         \A b \in RoAccounts \ {a} :
           /\ roRoutes'[b] = roRoutes[b] /\ roLive'[b] = roLive[b] /\ roKept'[b] = roKept[b]
           /\ roCall'[b] = roCall[b] /\ roSound'[b] = roSound[b],
         UNCHANGED <<roRefs, roPub>>,
         \A r \in RoRelays : roPool'[r] = roPool[r] \/ roPool'[r] = "read",
         \A s \in roCall'[a].added \cup roLive'[a] : roPool'[s[2]] = "read"
  PROVE  RoInv'
<1>1. ASSUME NEW b \in RoAccounts \ {a} PROVE CallSound(b)'
    BY <1>1 DEF RoInv, CallSound
<1>2. ASSUME NEW b \in RoAccounts \ {a}, NEW s \in roCall'[b].added \cup roLive'[b]
      PROVE  roPool'[s[2]] = "read"
    BY <1>2, RoRelayOf DEF RoInv, RoTyped, RoCalls, ReadRelays
<1>3. ReadRelays'
    BY Zenon, <1>2 DEF ReadRelays
<1>4. \A r \in RoRelays : Holders(r)' = Holders(r)
    BY Zenon DEF Holders
<1>5. \A r \in RoRelays : /\ roPool'[r] = "write" => roRefs'[r] > 0
                          /\ roRefs'[r] > 0 => roPool'[r] # "absent"
                          /\ roRefs'[r] = Cardinality(Holders(r))'
    BY <1>4 DEF RoInv, HeldSound
<1>6. ASSUME NEW p \in RoPublishers PROVE PublishSound(p)'
    BY Zenon, <1>6 DEF RoInv, HeldSound, RoTyped, RoPublishes, PublishSound
<1>7. HeldSound'
    BY Zenon, <1>5, <1>6 DEF HeldSound
<1>. QED
    BY Zenon, <1>1, <1>3, <1>7 DEF RoInv

\* activate_account drops the old subscriptions first.
LEMMA ActivateStartsKeeps ==
  ASSUME RoInv, NEW a \in RoAccounts, ActivateStarts(a)
  PROVE  RoInv'
<1>1. PICK want \in RoWishes :
        /\ roCall' = [roCall EXCEPT ![a] =
             [kind |-> "activate", want |-> want \cup {RoInbox},
              todo |-> want \cup {RoInbox}, added |-> {}, drop |-> {}]]
        /\ roSound' = [roSound EXCEPT ![a] = FALSE]
        /\ \/ /\ roKept' = [roKept EXCEPT ![a] = {}]
              /\ roLive' = [roLive EXCEPT ![a] = @ \ roKept[a]]
           \/ UNCHANGED <<roKept, roLive>>
        /\ UNCHANGED <<roPool, roRefs, roRoutes, roPub>>
    BY ZenonT(30) DEF ActivateStarts
<1>2. want \cup {RoInbox} \subseteq RoSubs
    BY Zenon, RoInboxIsSub, RoWishesAreSubs
<1>3. roCall'[a] \in RoCalls /\ roCall' \in [RoAccounts -> RoCalls]
    BY Zenon, <1>1, <1>2 DEF RoInv, RoTyped, RoCalls
<1>4. RoTyped'
    BY <1>1, <1>3 DEF RoInv, RoTyped
<1>5. CallSound(a)'
    BY Zenon, <1>1 DEF RoInv, RoTyped, CallSound
<1>6. \A s \in roCall'[a].added \cup roLive'[a] : roPool'[s[2]] = "read"
    BY <1>1 DEF RoInv, RoTyped, ReadRelays
<1>. QED
    BY ZenonT(30), <1>1, <1>4, <1>5, <1>6, RoAccountStep DEF RoInv, RoTyped

\* A sync works out what to add and what to drop from the routes it finds.
LEMMA SyncStartsKeeps ==
  ASSUME RoInv, NEW a \in RoAccounts, SyncStarts(a)
  PROVE  RoInv'
<1>1. PICK want \in RoWishes :
        /\ roCall' = [roCall EXCEPT ![a] =
             [kind |-> "sync", want |-> want, todo |-> ToAdd(roRoutes[a], want),
              added |-> {}, drop |-> ToRemove(roRoutes[a], want)]]
        /\ UNCHANGED <<roPool, roRefs, roRoutes, roLive, roKept, roSound, roPub>>
    BY ZenonT(30) DEF SyncStarts
<1>2. want \subseteq RoSubs /\ roRoutes[a] \subseteq RoSubs
    BY Zenon, RoWishesAreSubs DEF RoInv, RoTyped
<1>3. roCall' \in [RoAccounts -> RoCalls]
    BY Zenon, <1>1, <1>2 DEF RoInv, RoTyped, RoCalls, ToAdd, ToRemove
<1>4. RoTyped'
    BY Zenon, <1>1, <1>3 DEF RoInv, RoTyped
<1>5. CallSound(a)'
    BY <1>1 DEF RoInv, RoTyped, CallSound, ToAdd, ToRemove
<1>6. \A s \in roCall'[a].added \cup roLive'[a] : roPool'[s[2]] = "read"
    BY Zenon, <1>1 DEF RoInv, RoTyped, ReadRelays
<1>. QED
    BY ZenonT(30), <1>1, <1>4, <1>5, <1>6, RoAccountStep DEF RoInv, RoTyped

\* Subscribing at a relay makes it readable.
LEMMA AddsRelayKeeps ==
  ASSUME RoInv, NEW a \in RoAccounts, NEW s \in RoSubs, AddsRelay(a, s)
  PROVE  RoInv'
<1>1. s[2] \in RoRelays
    BY Zenon, RoRelayOf
<1>2. roCall[a] \in RoCalls /\ CallSound(a)
    BY Zenon DEF RoInv, RoTyped
<1>3. /\ roCall' \in [RoAccounts -> RoCalls]
      /\ roCall'[a].kind = roCall[a].kind /\ roCall'[a].want = roCall[a].want
      /\ roCall'[a].drop = roCall[a].drop /\ roCall'[a].todo = roCall[a].todo \ {s}
      /\ roCall'[a].added = roCall[a].added \cup {s}
    BY ZenonT(30), <1>2 DEF RoInv, RoTyped, RoCalls, AddsRelay
<1>4. RoTyped'
    BY Zenon, <1>1, <1>3 DEF RoInv, RoTyped, AddsRelay
<1>5. CallSound(a)'
    BY Zenon, <1>2, <1>3 DEF CallSound, AddsRelay
<1>6. ASSUME NEW t \in roCall'[a].added \cup roLive'[a] PROVE roPool'[t[2]] = "read"
    BY SMTT(30), <1>2, <1>3, <1>6, RoRelayOf, <1>1 DEF RoInv, RoTyped, RoCalls, AddsRelay,
       ReadRelays
<1>. QED
    BY Zenon, <1>1, <1>4, <1>5, <1>6, RoAccountStep DEF RoInv, RoTyped, AddsRelay

\* A subscription is registered with a relay in the pool.
LEMMA RegistersKeeps ==
  ASSUME RoInv, NEW a \in RoAccounts, NEW s \in RoSubs, Registers(a, s)
  PROVE  RoInv'
BY RoAccountStep DEF RoInv, RoTyped, Registers, CallSound, ReadRelays

\* A registered subscription is remembered for the account.
LEMMA RemembersKeeps ==
  ASSUME RoInv, NEW a \in RoAccounts, NEW s \in RoSubs, Remembers(a, s)
  PROVE  RoInv'
<1>1. roCall[a] \in RoCalls /\ CallSound(a)
    BY Zenon DEF RoInv, RoTyped
<1>2. /\ roCall' \in [RoAccounts -> RoCalls]
      /\ roCall'[a].kind = roCall[a].kind /\ roCall'[a].want = roCall[a].want
      /\ roCall'[a].drop = roCall[a].drop /\ roCall'[a].todo = roCall[a].todo
      /\ roCall'[a].added = roCall[a].added \ {s}
      /\ roKept'[a] = roKept[a] \cup {s}
    BY ZenonT(30), <1>1 DEF RoInv, RoTyped, RoCalls, Remembers
<1>3. RoTyped'
    BY Zenon, <1>2 DEF RoInv, RoTyped, Remembers
<1>4. CallSound(a)'
    BY Zenon, <1>1, <1>2 DEF CallSound, Remembers
<1>5. \A t \in roCall'[a].added \cup roLive'[a] : roPool'[t[2]] = "read"
    BY <1>2 DEF RoInv, ReadRelays, Remembers
<1>. QED
    BY ZenonT(30), <1>3, <1>4, <1>5, RoAccountStep DEF RoInv, RoTyped, Remembers

\* An aborted call keeps what it added; the routes it did not get to replace
\* are still those of the subscriptions before it.
LEMMA SubscribeFailsKeeps ==
  ASSUME RoInv, NEW a \in RoAccounts, SubscribeFails(a)
  PROVE  RoInv'
<1>1. CallSound(a)
    BY Zenon DEF RoInv
<1>2. NoCall \in RoCalls /\ roCall'[a] = NoCall
    BY Zenon DEF NoCall, RoCalls, SubscribeFails, RoInv, RoTyped
<1>3. RoTyped'
    BY Zenon, <1>2 DEF RoInv, RoTyped, SubscribeFails
<1>4. CallSound(a)'
    BY <1>1, <1>2 DEF CallSound, SubscribeFails, NoCall
<1>5. \A t \in roCall'[a].added \cup roLive'[a] : roPool'[t[2]] = "read"
    BY <1>2 DEF RoInv, ReadRelays, SubscribeFails, NoCall
<1>. QED
    BY Zenon, <1>3, <1>4, <1>5, RoAccountStep DEF RoInv, RoTyped, SubscribeFails

\* What the ended call drops is none of what it wanted: an unsubscribe goes by
\* the subscription, not by the group.
LEMMA CallEndsKeeps ==
  ASSUME RoInv, NEW a \in RoAccounts, CallEnds(a)
  PROVE  RoInv'
<1>1. roCall[a] \in RoCalls /\ CallSound(a)
    BY Zenon DEF RoInv, RoTyped
<1>2. NoCall \in RoCalls /\ roCall'[a] = NoCall
    BY Zenon DEF NoCall, RoCalls, CallEnds, RoInv, RoTyped
<1>3. /\ roLive'[a] = roLive[a] \ roCall[a].drop
      /\ roKept'[a] = roKept[a] \ roCall[a].drop
      /\ roRoutes'[a] = roCall[a].want \cup {RoInbox}
      /\ roSound'[a] = (roSound[a] \/ roCall[a].kind = "activate")
    BY Zenon DEF RoInv, RoTyped, CallEnds, Unsubscribed
<1>4. roSound'[a] \in BOOLEAN
    BY Zenon, <1>3
<1>5. RoTyped'
    BY <1>1, <1>2, <1>4, RoInboxIsSub DEF RoInv, RoTyped, CallEnds, Unsubscribed, RoCalls
<1>6. ASSUME roSound'[a] PROVE roRoutes'[a] \subseteq roLive'[a] \cap roKept'[a]
  <2>1. roCall[a].kind = "activate" \/ (roCall[a].kind = "sync" /\ roSound[a])
      BY ZenonT(30), <1>3, <1>6 DEF CallEnds
  <2>2. roCall[a].want \cup {RoInbox} \subseteq roLive[a] \cap roKept[a]
      BY Zenon, <1>1, <2>1 DEF CallSound, CallEnds
  <2>. QED
      BY Zenon, <1>1, <1>3, <2>2 DEF CallSound
<1>7. CallSound(a)'
    BY <1>2, <1>3, <1>6 DEF CallSound, NoCall
<1>8. \A t \in roCall'[a].added \cup roLive'[a] : roPool'[t[2]] = "read"
    BY <1>2, <1>3 DEF RoInv, ReadRelays, CallEnds, NoCall
<1>. QED
    BY Zenon, <1>5, <1>7, <1>8, RoAccountStep DEF RoInv, RoTyped, CallEnds

\* An account that goes has no routes left to feed.
LEMMA DeactivateAccountKeeps ==
  ASSUME RoInv, NEW a \in RoAccounts, DeactivateAccount(a)
  PROVE  RoInv'
<1>1. CallSound(a)
    BY Zenon DEF RoInv
<1>2. RoTyped'
    BY Zenon DEF RoInv, RoTyped, DeactivateAccount
<1>3. CallSound(a)'
    BY Zenon, <1>1 DEF RoInv, RoTyped, CallSound, DeactivateAccount
<1>4. \A t \in roCall'[a].added \cup roLive'[a] : roPool'[t[2]] = "read"
    BY Zenon DEF RoInv, RoTyped, ReadRelays, DeactivateAccount
<1>. QED
    BY ZenonT(30), <1>2, <1>3, <1>4, RoAccountStep DEF RoInv, RoTyped, DeactivateAccount

(***************************************************************************)
(* The pool of relays: publishes.                                          *)
(***************************************************************************)

\* A step of one publish takes no readable relay away and leaves the accounts
\* and the other publishes alone.
LEMMA RoPublishStep ==
  ASSUME RoInv, NEW p \in RoPublishers, RoTyped', PublishSound(p)',
         UNCHANGED <<roRoutes, roLive, roKept, roCall, roSound>>,
         \A q \in RoPublishers \ {p} : roPub'[q] = roPub[q],
         \A r \in RoRelays : roPool[r] = "read" => roPool'[r] = "read",
         \A r \in RoRelays : /\ roPool'[r] = "write" => roRefs'[r] > 0
                             /\ roRefs'[r] > 0 => roPool'[r] # "absent"
                             /\ roRefs'[r] = Cardinality(Holders(r)')
  PROVE  RoInv'
<1>1. \A a \in RoAccounts : CallSound(a)'
    BY Zenon DEF RoInv, CallSound
<1>2. ASSUME NEW a \in RoAccounts, NEW s \in roCall'[a].added \cup roLive'[a]
      PROVE  roPool'[s[2]] = "read"
    BY Zenon, <1>2, RoRelayOf DEF RoInv, RoTyped, RoCalls, ReadRelays
<1>3. ReadRelays'
    BY Zenon, <1>2 DEF ReadRelays
<1>4. ASSUME NEW q \in RoPublishers \ {p} PROVE PublishSound(q)'
    BY <1>4 DEF RoInv, HeldSound, RoTyped, RoPublishes, PublishSound
<1>5. HeldSound'
    BY Zenon, <1>4 DEF HeldSound
<1>. QED
    BY Zenon, <1>1, <1>3, <1>5 DEF RoInv

\* A relay is counted once more, or once less, with the holder that comes or
\* goes.
LEMMA HoldersChange ==
  ASSUME RoInv, NEW p \in RoPublishers, NEW r \in RoRelays
  PROVE  /\ roRefs[r] = Cardinality(Holders(r)) /\ IsFiniteSet(Holders(r))
         /\ p \in Holders(r) => /\ roRefs[r] > 0
                                /\ Cardinality(Holders(r) \ {p}) = roRefs[r] - 1
         /\ p \notin Holders(r) => Cardinality(Holders(r) \cup {p}) = roRefs[r] + 1
<1>1. IsFiniteSet(Holders(r))
    BY Zenon, RoAssumption, FS_Subset DEF Holders
<1>2. roRefs[r] = Cardinality(Holders(r)) /\ roRefs[r] \in Nat
    BY Zenon DEF RoInv, HeldSound, RoTyped
<1>3. p \in Holders(r) => Cardinality(Holders(r) \ {p}) = Cardinality(Holders(r)) - 1
    BY ZenonT(30), <1>1, FS_RemoveElement
<1>4. p \notin Holders(r) => Cardinality(Holders(r) \cup {p}) = Cardinality(Holders(r)) + 1
    BY Zenon, <1>1, FS_AddElement
<1>5. p \in Holders(r) => Cardinality(Holders(r)) # 0
    BY Zenon, <1>1, FS_EmptySet
<1>. QED
    BY <1>1, <1>2, <1>3, <1>4, <1>5

\* A publish that changes neither the relays nor what it holds.
LEMMA RoQuietPublish ==
  ASSUME RoInv, NEW p \in RoPublishers, NEW pub \in RoPublishes,
         roPub' = [roPub EXCEPT ![p] = pub], PublishSound(p)',
         UNCHANGED <<roPool, roRefs, roRoutes, roLive, roKept, roCall, roSound>>,
         \A r \in RoRelays : Holders(r)' = Holders(r)
  PROVE  RoInv'
BY Zenon, RoPublishStep DEF RoInv, RoTyped, HeldSound

\* A publish starts with nothing held.
LEMMA PublishStartsKeeps ==
  ASSUME RoInv, NEW p \in RoPublishers, PublishStarts(p)
  PROVE  RoInv'
<1>1. PICK targets \in SUBSET RoRelays :
        /\ roPub' = [roPub EXCEPT ![p] =
             [st |-> "retain", left |-> targets, held |-> {}, sent |-> {}]]
        /\ UNCHANGED <<roPool, roRefs, roRoutes, roLive, roKept, roCall, roSound>>
    BY ZenonT(30) DEF PublishStarts
<1>2. roPub[p].st = "none" /\ PublishSound(p)
    BY Zenon DEF PublishStarts, RoInv, HeldSound
<1>3. [st |-> "retain", left |-> targets, held |-> {}, sent |-> {}] \in RoPublishes
    BY Zenon DEF RoPublishes
<1>4. roPub'[p] = [st |-> "retain", left |-> targets, held |-> {}, sent |-> {}]
        /\ \A q \in RoPublishers \ {p} : roPub'[q] = roPub[q]
    BY Zenon, <1>1 DEF RoInv, RoTyped
<1>5. PublishSound(p)'
    BY <1>4 DEF PublishSound
<1>6. \A r \in RoRelays : Holders(r)' = Holders(r)
    BY <1>2, <1>4 DEF Holders, PublishSound
<1>. QED
    BY ZenonT(30), <1>1, <1>3, <1>5, <1>6, RoQuietPublish

\* A relay that cannot be retained is left out of the publish.
LEMMA RetainFailsKeeps ==
  ASSUME RoInv, NEW p \in RoPublishers, NEW r \in RoRelays, RetainFails(p, r)
  PROVE  RoInv'
<1>. DEFINE pub == [roPub[p] EXCEPT !.left = @ \ {r}]
<1>1. roPub[p] \in RoPublishes /\ PublishSound(p)
    BY Zenon DEF RoInv, RoTyped, HeldSound
<1>2. pub \in RoPublishes /\ pub.st = roPub[p].st /\ pub.held = roPub[p].held
        /\ pub.sent = roPub[p].sent /\ pub.left = roPub[p].left \ {r}
    BY Zenon, <1>1 DEF RoPublishes
<1>3. roPub' = [roPub EXCEPT ![p] = pub] /\ roPub[p].st = "retain"
    BY Zenon DEF RetainFails
<1>. HIDE DEF pub
<1>4. roPub'[p] = pub /\ \A q \in RoPublishers \ {p} : roPub'[q] = roPub[q]
    BY Zenon, <1>3 DEF RoInv, RoTyped
<1>5. PublishSound(p)'
    BY Zenon, <1>1, <1>2, <1>3, <1>4 DEF PublishSound, RetainFails
<1>6. \A s \in RoRelays : Holders(s)' = Holders(s)
    BY Zenon, <1>2, <1>3, <1>4 DEF Holders
<1>. QED
    BY ZenonT(30), <1>2, <1>3, <1>5, <1>6, RoQuietPublish DEF RetainFails

\* When the sends are over, what is held is to be released.
LEMMA SendsEndKeeps ==
  ASSUME RoInv, NEW p \in RoPublishers, SendsEnd(p)
  PROVE  RoInv'
<1>. DEFINE pub == [roPub[p] EXCEPT !.st = "release", !.left = roPub[p].held, !.sent = {}]
<1>1. roPub[p] \in RoPublishes /\ PublishSound(p)
    BY Zenon DEF RoInv, RoTyped, HeldSound
<1>2. pub \in RoPublishes /\ pub.st = "release" /\ pub.held = roPub[p].held
        /\ pub.sent = {} /\ pub.left = roPub[p].held
    BY ZenonT(30), <1>1 DEF RoPublishes
<1>3. roPub' = [roPub EXCEPT ![p] = pub] /\ roPub[p].st = "retain"
    BY ZenonT(30) DEF SendsEnd
<1>. HIDE DEF pub
<1>4. roPub'[p] = pub /\ \A q \in RoPublishers \ {p} : roPub'[q] = roPub[q]
    BY Zenon, <1>3 DEF RoInv, RoTyped
<1>5. PublishSound(p)'
    BY Zenon, <1>2, <1>4 DEF PublishSound
<1>6. \A s \in RoRelays : Holders(s)' = Holders(s)
    BY <1>2, <1>3, <1>4 DEF Holders
<1>. QED
    BY ZenonT(30), <1>2, <1>3, <1>5, <1>6, RoQuietPublish DEF SendsEnd

\* A publish ends with everything released.
LEMMA PublishEndsKeeps ==
  ASSUME RoInv, NEW p \in RoPublishers, PublishEnds(p)
  PROVE  RoInv'
<1>1. roPub'[p] = NoPublish /\ \A q \in RoPublishers \ {p} : roPub'[q] = roPub[q]
    BY Zenon DEF PublishEnds, RoInv, RoTyped
<1>2. NoPublish \in RoPublishes
    BY Zenon DEF NoPublish, RoPublishes
<1>3. PublishSound(p)'
    BY <1>1 DEF PublishSound, NoPublish
<1>4. \A s \in RoRelays : Holders(s)' = Holders(s)
    BY SMTT(30), <1>1 DEF Holders, PublishEnds, NoPublish
<1>. QED
    BY ZenonT(30), <1>2, <1>3, <1>4, RoQuietPublish DEF PublishEnds

\* Retaining: the publish becomes a holder, or uses a relay that is there for
\* reading.
LEMMA RetainPublishRelayKeeps ==
  ASSUME RoInv, NEW p \in RoPublishers, NEW r \in RoRelays, RetainPublishRelay(p, r)
  PROVE  RoInv'
<1>1. roPub[p] \in RoPublishes /\ PublishSound(p) /\ roPub[p].st = "retain" /\ r \in roPub[p].left
    BY Zenon DEF RoInv, RoTyped, HeldSound, RetainPublishRelay
<1>2. /\ roPool[r] = "write" => roRefs[r] > 0
      /\ roRefs[r] > 0 => roPool[r] # "absent"
      /\ roRefs[r] \in Nat /\ roPool[r] \in {"absent", "write", "read"}
    BY Zenon DEF RoInv, HeldSound, RoTyped
<1>3. \A q \in RoPublishers \ {p} : roPub'[q] = roPub[q]
    BY Zenon DEF RetainPublishRelay, RoInv, RoTyped
<1>4. CASE /\ roRefs' = [roRefs EXCEPT ![r] = @ + 1]
           /\ roPool' = [roPool EXCEPT ![r] = IF @ = "absent" THEN "write" ELSE @]
           /\ roPub' = [roPub EXCEPT ![p].left = @ \ {r}, ![p].held = @ \cup {r},
                                     ![p].sent = @ \cup {r}]
  <2>1. /\ roPub'[p] \in RoPublishes /\ roPub'[p].st = "retain"
        /\ roPub'[p].left = roPub[p].left \ {r} /\ roPub'[p].held = roPub[p].held \cup {r}
        /\ roPub'[p].sent = roPub[p].sent \cup {r}
      BY ZenonT(30), <1>1, <1>4 DEF RoInv, RoTyped, RoPublishes
  <2>2. RoTyped'
      BY <1>2, <1>4, <2>1 DEF RoInv, RoTyped, RetainPublishRelay
  <2>3. /\ roPool'[r] # "absent" /\ roRefs'[r] = roRefs[r] + 1
        /\ \A s \in RoRelays \ {r} : roPool'[s] = roPool[s] /\ roRefs'[s] = roRefs[s]
        /\ roPool[r] = "read" => roPool'[r] = "read"
      BY Zenon, <1>4 DEF RoInv, RoTyped
  <2>4. PublishSound(p)'
    <3>1. \A s \in roPub'[p].sent : s \in roPub'[p].held \/ roPool'[s] = "read"
        BY ZenonT(30), <1>1, <2>1, <2>3 DEF PublishSound, RoPublishes
    <3>. QED
        BY ZenonT(30), <1>1, <2>1, <3>1 DEF PublishSound
  <2>5. p \notin Holders(r) /\ Holders(r)' = Holders(r) \cup {p}
      BY <1>1, <1>3, <2>1 DEF Holders, PublishSound
  <2>6. \A s \in RoRelays \ {r} : Holders(s)' = Holders(s)
      BY Zenon, <1>1, <1>3, <2>1 DEF Holders
  <2>7. Cardinality(Holders(r)') = roRefs[r] + 1
      BY Zenon, <2>5, HoldersChange
  <2>8. \A s \in RoRelays : /\ roPool'[s] = "write" => roRefs'[s] > 0
                            /\ roRefs'[s] > 0 => roPool'[s] # "absent"
                            /\ roRefs'[s] = Cardinality(Holders(s)')
      BY <1>2, <2>3, <2>6, <2>7 DEF RoInv, HeldSound
  <2>. QED
      BY Zenon, <1>3, <2>2, <2>3, <2>4, <2>8, RoPublishStep DEF RetainPublishRelay
<1>5. CASE /\ roRefs[r] = 0 /\ roPool[r] # "absent"
           /\ roPub' = [roPub EXCEPT ![p].left = @ \ {r}, ![p].sent = @ \cup {r}]
           /\ UNCHANGED <<roRefs, roPool>>
  <2>. DEFINE pub == [roPub[p] EXCEPT !.left = @ \ {r}, !.sent = @ \cup {r}]
  <2>1. pub \in RoPublishes /\ pub.st = "retain" /\ pub.held = roPub[p].held
          /\ pub.sent = roPub[p].sent \cup {r} /\ pub.left = roPub[p].left \ {r}
      BY ZenonT(30), <1>1 DEF RoPublishes
  <2>2. roPub' = [roPub EXCEPT ![p] = pub]
      BY ZenonT(30), <1>5
  <2>. HIDE DEF pub
  <2>3. roPub'[p] = pub
      BY Zenon, <2>2 DEF RoInv, RoTyped
  <2>4. roPool[r] = "read"
      BY <1>2, <1>5
  <2>5. PublishSound(p)'
      BY ZenonT(30), <1>1, <1>5, <2>1, <2>3, <2>4 DEF PublishSound
  <2>6. \A s \in RoRelays : Holders(s)' = Holders(s)
      BY Zenon, <1>1, <1>3, <2>1, <2>3 DEF Holders
  <2>. QED
      BY ZenonT(30), <1>5, <2>1, <2>2, <2>5, <2>6, RoQuietPublish DEF RetainPublishRelay
<1>. QED
    BY ZenonT(30), <1>4, <1>5 DEF RetainPublishRelay

\* Releasing: the last holder takes the relay out, unless a subscription reads
\* from it by now.
LEMMA ReleasePublishRelayKeeps ==
  ASSUME RoInv, NEW p \in RoPublishers, NEW r \in RoRelays, ReleasePublishRelay(p, r)
  PROVE  RoInv'
<1>1. roPub[p] \in RoPublishes /\ PublishSound(p) /\ roPub[p].st = "release" /\ r \in roPub[p].left
    BY Zenon DEF RoInv, RoTyped, HeldSound, ReleasePublishRelay
<1>2. /\ roPool[r] = "write" => roRefs[r] > 0
      /\ roRefs[r] > 0 => roPool[r] # "absent"
      /\ roRefs[r] \in Nat /\ roPool[r] \in {"absent", "write", "read"}
    BY Zenon DEF RoInv, HeldSound, RoTyped
<1>3. \A q \in RoPublishers \ {p} : roPub'[q] = roPub[q]
    BY Zenon DEF ReleasePublishRelay, RoInv, RoTyped
<1>4. /\ roPub'[p] \in RoPublishes /\ roPub'[p].st = "release"
      /\ roPub'[p].left = roPub[p].left \ {r} /\ roPub'[p].held = roPub[p].held
      /\ roPub'[p].sent = roPub[p].sent
    BY Zenon, <1>1 DEF RoInv, RoTyped, RoPublishes, ReleasePublishRelay
<1>5. p \in Holders(r) /\ Holders(r)' = Holders(r) \ {p}
    BY <1>1, <1>3, <1>4 DEF Holders, PublishSound
<1>6. \A s \in RoRelays \ {r} : Holders(s)' = Holders(s)
    BY Zenon, <1>1, <1>3, <1>4 DEF Holders
<1>7. roRefs[r] > 0 /\ Cardinality(Holders(r)') = roRefs[r] - 1
    BY Zenon, <1>5, HoldersChange
<1>8. /\ roRefs'[r] = roRefs[r] - 1 /\ roRefs'[r] \in Nat
      /\ roPool'[r] = IF roRefs[r] = 1 THEN IF roPool[r] = "read" THEN "read" ELSE "absent"
                      ELSE roPool[r]
      /\ \A s \in RoRelays \ {r} : roPool'[s] = roPool[s] /\ roRefs'[s] = roRefs[s]
    BY <1>2, <1>7 DEF ReleasePublishRelay, LastHolder, AfterLastRelease, RoInv, RoTyped
<1>9. RoTyped'
    BY ZenonT(30), <1>2, <1>8, <1>4 DEF ReleasePublishRelay, RoInv, RoTyped
<1>10. PublishSound(p)'
    BY Zenon, <1>1, <1>4 DEF PublishSound
<1>11. \A s \in RoRelays : /\ roPool'[s] = "write" => roRefs'[s] > 0
                           /\ roRefs'[s] > 0 => roPool'[s] # "absent"
                           /\ roRefs'[s] = Cardinality(Holders(s)')
    BY <1>2, <1>6, <1>7, <1>8 DEF RoInv, HeldSound
<1>12. \A s \in RoRelays : roPool[s] = "read" => roPool'[s] = "read"
    BY Zenon, <1>8
<1>. QED
    BY Zenon, <1>3, <1>9, <1>10, <1>11, <1>12, RoPublishStep DEF ReleasePublishRelay

\* The invariant of the pool holds throughout.
LEMMA RoInvariance == RoSpec => []RoInv
<1>1. RoInv /\ [RoNext]_roVars => RoInv'
  <2>. SUFFICES ASSUME RoInv, [RoNext]_roVars PROVE RoInv'
      BY Zenon
  <2>1. CASE UNCHANGED roVars
    <3>1. RoTyped' /\ ReadRelays' /\ \A a \in RoAccounts : CallSound(a)'
        BY Zenon, <2>1 DEF RoInv, RoTyped, CallSound, ReadRelays, roVars
    <3>2. (\A p \in RoPublishers : PublishSound(p)') /\ \A r \in RoRelays : Holders(r)' = Holders(r)
        BY Zenon, <2>1 DEF RoInv, HeldSound, PublishSound, Holders, roVars
    <3>3. HeldSound'
        BY Zenon, <2>1, <3>2 DEF RoInv, HeldSound, roVars
    <3>. QED
        BY Zenon, <3>1, <3>3 DEF RoInv
  <2>2. ASSUME NEW a \in RoAccounts,
               \/ ActivateStarts(a) \/ SyncStarts(a) \/ SubscribeFails(a)
               \/ CallEnds(a) \/ DeactivateAccount(a)
               \/ \E s \in RoSubs : AddsRelay(a, s) \/ Registers(a, s) \/ Remembers(a, s)
        PROVE  RoInv'
      BY Zenon, <2>2, ActivateStartsKeeps, SyncStartsKeeps, SubscribeFailsKeeps,
         CallEndsKeeps,
         DeactivateAccountKeeps, AddsRelayKeeps, RegistersKeeps, RemembersKeeps
  <2>3. ASSUME NEW p \in RoPublishers,
               \/ PublishStarts(p) \/ SendsEnd(p) \/ PublishEnds(p)
               \/ \E r \in RoRelays : \/ RetainPublishRelay(p, r) \/ RetainFails(p, r)
                                      \/ ReleasePublishRelay(p, r)
        PROVE  RoInv'
      BY Zenon, <2>3, PublishStartsKeeps, SendsEndKeeps, PublishEndsKeeps,
         RetainPublishRelayKeeps,
         RetainFailsKeeps, ReleasePublishRelayKeeps
  <2>. QED
      BY Zenon, <2>1, <2>2, <2>3 DEF RoNext
<1>. QED
    BY <1>1, RoInitSound, PTL DEF RoSpec

\* Pool, counts, routes and calls keep their shapes.
THEOREM RoTypeCorrect == RoSpec => []RoTypeOK
<1>1. RoInv => RoTypeOK
  <2>. SUFFICES ASSUME RoInv PROVE RoTypeOK
      BY Zenon
  <2>1. ASSUME NEW r \in RoRelays PROVE roRefs[r] \in 0..Cardinality(RoPublishers)
    <3>1. Holders(r) \subseteq RoPublishers
        BY Zenon DEF Holders
    <3>2. Cardinality(Holders(r)) <= Cardinality(RoPublishers) /\ Cardinality(RoPublishers) \in Nat
        BY Zenon, <3>1, RoAssumption, FS_Subset, FS_CardinalityType
    <3>. QED
        BY <3>2 DEF RoInv, RoTyped, HeldSound
  <2>. QED
      BY Zenon, <2>1 DEF RoInv, RoTyped, RoTypeOK, RoCalls, RoPublishes
<1>. QED
    BY <1>1, RoInvariance, PTL

\* An account whose activation ran to its end has a live and remembered
\* subscription on a readable relay behind every route, for any accounts,
\* groups, relays and publishes.
THEOREM RoutesAreFedHolds == RoSpec => []RoutesAreFed
<1>1. RoInv => RoutesAreFed
    BY Zenon DEF RoutesAreFed, RoInv, CallSound, ReadRelays
<1>. QED
    BY <1>1, RoInvariance, PTL

\* retain_publish_relay and release_publish_relay count right, and a publish
\* never loses the relay it is sending to.
THEOREM WriteRelaysAreHeldHolds == RoSpec => []WriteRelaysAreHeld
<1>1. RoInv => WriteRelaysAreHeld
  <2>. SUFFICES ASSUME RoInv PROVE WriteRelaysAreHeld
      BY Zenon
  <2>1. ASSUME NEW r \in RoRelays
        PROVE  /\ roPool[r] = "write" => roRefs[r] > 0
               /\ roRefs[r] = Cardinality({p \in RoPublishers :
                    r \in roPub[p].held /\ (roPub[p].st = "release" => r \in roPub[p].left)})
      BY Zenon DEF RoInv, HeldSound, Holders
  <2>2. ASSUME NEW p \in RoPublishers, NEW r \in roPub[p].sent PROVE roPool[r] # "absent"
    <3>1. PublishSound(p) /\ roPub[p].st \in {"none", "retain", "release"} /\ r \in RoRelays
        BY Zenon, <2>2 DEF RoInv, HeldSound, RoTyped, RoPublishes
    <3>2. CASE roPool[r] = "read"
        BY Zenon, <3>2
    <3>3. CASE r \in roPub[p].held
      <4>1. p \in Holders(r)
          BY Zenon, <2>2, <3>1, <3>3 DEF Holders, PublishSound
      <4>2. roRefs[r] > 0
          BY ZenonT(30), <3>1, <4>1, HoldersChange
      <4>. QED
          BY Zenon, <3>1, <4>2 DEF RoInv, HeldSound
    <3>. QED
        BY Zenon, <2>2, <3>1, <3>2, <3>3 DEF PublishSound
  <2>. QED
      BY Zenon, <2>1, <2>2 DEF WriteRelaysAreHeld
<1>. QED
    BY <1>1, RoInvariance, PTL

(***************************************************************************)
(* The plane: from the relay to the accounts.                              *)
(***************************************************************************)

\* Sequences and what they hold.
LEMMA RangeOfAppend ==
  ASSUME NEW S, NEW q \in Seq(S), NEW e \in S
  PROVE  Append(q, e) \in Seq(S) /\ Range(Append(q, e)) = Range(q) \cup {e}
<1>1. Append(q, e) \in Seq(S) /\ Len(Append(q, e)) = Len(q) + 1 /\ Len(q) \in Nat
    OBVIOUS
<1>2. /\ \A i \in 1..Len(q) : Append(q, e)[i] = q[i]
      /\ Append(q, e)[Len(q) + 1] = e
    OBVIOUS
<1>3. DOMAIN q = 1..Len(q) /\ DOMAIN Append(q, e) = 1..Len(q) + 1
    BY <1>1
<1>. QED
    BY <1>1, <1>2, <1>3 DEF Range

\* A sequence holds its head and what its tail holds.
LEMMA RangeOfTail ==
  ASSUME NEW S, NEW q \in Seq(S), q # <<>>
  PROVE  /\ Tail(q) \in Seq(S) /\ Head(q) \in S
         /\ Range(q) = Range(Tail(q)) \cup {Head(q)}
<1>1. Tail(q) \in Seq(S) /\ Head(q) \in S /\ Len(q) >= 1 /\ Len(Tail(q)) = Len(q) - 1
    OBVIOUS
<1>2. Range(Tail(q)) \subseteq Range(q) /\ Head(q) \in Range(q)
    BY <1>1 DEF Range
<1>3. ASSUME NEW i \in DOMAIN q PROVE q[i] \in Range(Tail(q)) \cup {Head(q)}
  <2>1. CASE i = 1
      BY <2>1
  <2>2. CASE i # 1
    <3>1. i - 1 \in DOMAIN Tail(q) /\ Tail(q)[i - 1] = q[i]
        BY <1>1, <2>2
    <3>. QED
        BY Zenon, <3>1 DEF Range
  <2>. QED
      BY Zenon, <2>1, <2>2
<1>. QED
    BY Zenon, <1>1, <1>2, <1>3 DEF Range

\* Two sequences put together hold what each of them holds.
LEMMA RangeOfConcat ==
  ASSUME NEW S, NEW q \in Seq(S), NEW r \in Seq(S)
  PROVE  q \o r \in Seq(S) /\ Range(q \o r) = Range(q) \cup Range(r)
<1>1. q \o r \in Seq(S) /\ Len(q \o r) = Len(q) + Len(r)
        /\ \A i \in 1..Len(q \o r) : (q \o r)[i] = IF i <= Len(q) THEN q[i] ELSE r[i - Len(q)]
    OBVIOUS
<1>2. \A i \in 1..Len(q) : (q \o r)[i] = q[i] /\ i \in DOMAIN (q \o r)
    BY <1>1
<1>3. \A i \in 1..Len(r) : (q \o r)[i + Len(q)] = r[i] /\ i + Len(q) \in DOMAIN (q \o r)
    BY <1>1
<1>4. Range(q) \subseteq Range(q \o r)
    BY <1>2 DEF Range
<1>5. Range(r) \subseteq Range(q \o r)
  <2>1. ASSUME NEW i \in DOMAIN r PROVE r[i] \in Range(q \o r)
    <3>1. (q \o r)[i + Len(q)] = r[i] /\ i + Len(q) \in DOMAIN (q \o r)
        BY <1>3
    <3>. QED
        BY ZenonT(30), <3>1 DEF Range
  <2>. QED
      BY Zenon, <2>1 DEF Range
<1>6. \A i \in 1..Len(q \o r) : i \notin 1..Len(q) => i - Len(q) \in 1..Len(r)
    BY <1>1
<1>7. Range(q \o r) \subseteq Range(q) \cup Range(r)
    BY <1>1, <1>6 DEF Range
<1>. QED
    BY Zenon, <1>1, <1>4, <1>5, <1>7

\* The event e is somewhere between the relay and the account.
OnItsWay(a, e) ==
  \/ e \in Range(rpNotes)
  \/ a \in rpSend.to /\ rpSend.event = e
  \/ [event |-> e, for |-> a] \in Range(rpQueue)
  \/ e \in Range(rpInbox[a])

\* The types of the delivery path: each queue holds events of the store.
RpTyped ==
  /\ rpStore \subseteq RpEvents /\ IsFiniteSet(rpStore)
  /\ rpSince \in [RpAccounts -> Nat \cup {NotSubscribed}]
  /\ rpRouted \subseteq RpAccounts
  /\ rpOpen \in [RpAccounts -> {"down", "subscribing", "routing", "up"}]
  /\ rpCursor \in [RpAccounts -> rpStore \cup {0}]
  /\ rpNotes \in Seq(rpStore)
  /\ rpSend \in [event : RpEvents \cup {0}, to : SUBSET RpAccounts]
  /\ rpSend.to # {} => rpSend.event \in rpStore
  /\ rpQueue \in Seq([event : rpStore, for : RpAccounts])
  /\ rpInbox \in [RpAccounts -> Seq(rpStore)]
  /\ rpGot \in [RpAccounts -> SUBSET rpStore]
  /\ rpLost \in [RpAccounts -> SUBSET rpStore]
  /\ rpJumped \subseteq RpAccounts

\* A subscription reaches back by the lookback from an event the relay has.
SinceSound(a) ==
  rpOpen[a] \in {"routing", "up"} =>
    /\ rpSince[a] \in Nat
    /\ rpSince[a] = 0 \/ \E f \in rpStore : rpSince[a] + RpLookback <= f

\* What the account lacks is within the lookback of its cursor and, once it is
\* subscribed, matched by the subscription and on its way.
Owed(a) ==
  (rpLost[a] = {} /\ a \notin rpJumped) =>
    \A e \in rpStore \ rpGot[a] :
      /\ rpCursor[a] <= e + RpLookback
      /\ rpOpen[a] \in {"routing", "up"} => rpSince[a] \in 0 .. e /\ OnItsWay(a, e)

\* The inductive invariant of the delivery path.
RpInv ==
  /\ RpTyped
  /\ \A a \in RpAccounts : /\ rpOpen[a] = "up" => a \in rpRouted
                           /\ SinceSound(a) /\ Owed(a)

\* Nothing stored and nobody subscribed satisfies the invariant.
LEMMA RpInitSound == RpInit => RpInv
BY FS_EmptySet DEF RpInit, RpTyped, NoEvent, NotSubscribed, SinceSound, Owed, RpInv

\* Times are numbers.
LEMMA RpNumbers ==
  ASSUME RpInv
  PROVE  /\ \A e \in RpEvents : e \in Nat
         /\ \A e \in rpStore : e \in Nat /\ e \in RpEvents
         /\ \A a \in RpAccounts : rpCursor[a] \in Nat
         /\ RpLookback \in Nat
<1>1. \A e \in RpEvents : e \in Nat
    BY Zenon, RpAssumption
<1>2. \A e \in rpStore : e \in Nat /\ e \in RpEvents
    BY Zenon, <1>1 DEF RpInv, RpTyped
<1>3. \A a \in RpAccounts : rpCursor[a] \in rpStore \cup {0}
    BY Zenon DEF RpInv, RpTyped
<1>. QED
    BY <1>1, <1>2, <1>3, RpAssumption

\* A bigger store holds the same sequences.
LEMMA SeqOfFunction ==
  ASSUME NEW S, NEW n \in Nat, NEW f \in [1..n -> S]
  PROVE  f \in Seq(S)
OBVIOUS

\* A sequence over a set is one over a larger set.
LEMMA SeqMonotone ==
  ASSUME NEW S, NEW T, S \subseteq T, NEW q \in Seq(S)
  PROVE  q \in Seq(T)
OBVIOUS

\* The invariant outlives a store that grows.
LEMMA RpStoreGrows ==
  ASSUME RpTyped, NEW e \in RpEvents
  PROVE  LET store == rpStore \cup {e} IN
         /\ store \subseteq RpEvents /\ IsFiniteSet(store)
         /\ rpCursor \in [RpAccounts -> store \cup {0}]
         /\ rpNotes \in Seq(store)
         /\ rpQueue \in Seq([event : store, for : RpAccounts])
         /\ rpInbox \in [RpAccounts -> Seq(store)]
         /\ rpGot \in [RpAccounts -> SUBSET store]
         /\ rpLost \in [RpAccounts -> SUBSET store]
<1>. DEFINE store == rpStore \cup {e}
<1>1. IsFiniteSet(store)
    BY ZenonT(30), FS_AddElement DEF RpTyped
<1>2. Seq(rpStore) \subseteq Seq(store)
    OBVIOUS
<1>3. [event : rpStore, for : RpAccounts] \subseteq [event : store, for : RpAccounts]
    BY Zenon
<1>4. rpQueue \in Seq([event : store, for : RpAccounts])
    BY ZenonT(30), <1>3, SeqMonotone DEF RpTyped
<1>5. rpInbox \in [RpAccounts -> Seq(store)] /\ rpNotes \in Seq(store)
    BY Zenon, <1>2 DEF RpTyped
<1>. QED
    BY Zenon, <1>1, <1>4, <1>5 DEF RpTyped

\* An event the relay stores is notified if an account asked for it.
LEMMA RelayStoresKeeps ==
  ASSUME RpInv, NEW e \in RpEvents, RelayStores(e)
  PROVE  RpInv'
<1>1. rpNotes' \in Seq(rpStore') /\ Range(rpNotes) \subseteq Range(rpNotes')
        /\ (Matching(e) # {} => e \in Range(rpNotes'))
  <2>1. rpNotes \in Seq(rpStore') /\ e \in rpStore'
      BY ZenonT(30), RpStoreGrows DEF RpInv, RelayStores
  <2>. QED
      BY <2>1, RangeOfAppend DEF RelayStores
<1>2. RpTyped'
    BY ZenonT(30), <1>1, RpStoreGrows DEF RpInv, RpTyped, RelayStores
<1>3. ASSUME NEW a \in RpAccounts PROVE SinceSound(a)'
    BY ZenonT(30) DEF RpInv, SinceSound, RelayStores
<1>4. ASSUME NEW a \in RpAccounts PROVE Owed(a)'
  <2>. SUFFICES ASSUME rpLost[a] = {}, a \notin rpJumped, NEW f \in rpStore' \ rpGot[a]
                PROVE  /\ rpCursor[a] <= f + RpLookback
                       /\ rpOpen[a] \in {"routing", "up"} => rpSince[a] \in 0 .. f /\ OnItsWay(a, f)'
      BY Zenon DEF Owed, RelayStores
  <2>1. CASE f \in rpStore
      BY Zenon, <2>1, <1>1 DEF RpInv, Owed, OnItsWay, RelayStores
  <2>2. CASE f \notin rpStore
    <3>1. f = e /\ \A g \in rpStore : g <= e + RpLookback
        BY Zenon, <2>2 DEF RelayStores
    <3>2. rpCursor[a] <= e + RpLookback
        BY <3>1, RpNumbers DEF RpInv, RpTyped
    <3>3. ASSUME rpOpen[a] \in {"routing", "up"} PROVE rpSince[a] \in 0 .. e
        BY <3>3, <3>1, RpNumbers DEF RpInv, SinceSound
    <3>4. rpSince[a] \in 0 .. e => OnItsWay(a, e)'
        BY Zenon, <1>1 DEF Matching, OnItsWay
    <3>. QED
        BY Zenon, <3>1, <3>2, <3>3, <3>4
  <2>. QED
      BY ZenonT(30), <2>1, <2>2
<1>. QED
    BY Zenon, <1>2, <1>3, <1>4 DEF RpInv, RelayStores

\* A step that leaves the relay, the subscriptions and what an account has
\* alone, and loses nothing on its way to it, owes it what it owed.
LEMMA OwedKept ==
  ASSUME RpInv, NEW a \in RpAccounts,
         UNCHANGED rpStore,
         rpSince'[a] = rpSince[a], rpOpen'[a] = rpOpen[a], rpCursor'[a] = rpCursor[a],
         rpGot'[a] = rpGot[a], rpLost[a] \subseteq rpLost'[a],
         a \in rpJumped => a \in rpJumped',
         \A e \in rpStore \ rpGot[a] :
           (OnItsWay(a, e) /\ rpLost'[a] = {} /\ rpSince[a] \in 0 .. e /\ rpOpen[a] \in {"routing", "up"})
             => OnItsWay(a, e)'
  PROVE  SinceSound(a)' /\ Owed(a)'
BY Zenon DEF RpInv, SinceSound, Owed

\* An account that is not subscribed is owed nothing but a fitting cursor.
LEMMA OwedUnsubscribed ==
  ASSUME RpInv, NEW a \in RpAccounts, UNCHANGED <<rpStore, rpCursor, rpGot, rpLost, rpJumped>>,
         rpOpen'[a] \in {"down", "subscribing"}
  PROVE  SinceSound(a)' /\ Owed(a)'
BY Zenon DEF RpInv, SinceSound, Owed

\* An activation drops the subscription of the account first.
LEMMA ActivationStartsKeeps ==
  ASSUME RpInv, NEW a \in RpAccounts, ActivationStarts(a)
  PROVE  RpInv'
<1>1. RpTyped'
    BY DEF RpInv, RpTyped, ActivationStarts, NotSubscribed
<1>2. SinceSound(a)' /\ Owed(a)' /\ rpOpen'[a] # "up"
    BY Zenon, OwedUnsubscribed DEF ActivationStarts, RpInv, RpTyped
<1>3. ASSUME NEW b \in RpAccounts \ {a}
      PROVE SinceSound(b)' /\ Owed(b)' /\ (rpOpen'[b] = "up" => b \in rpRouted')
    BY Zenon, OwedKept DEF ActivationStarts, RpInv, RpTyped, OnItsWay
<1>. QED
    BY Zenon, <1>1, <1>2, <1>3 DEF RpInv

\* The relay's answer has everything the account lacks.
LEMMA ActivationSubscribesKeeps ==
  ASSUME RpInv, NEW a \in RpAccounts, ActivationSubscribes(a)
  PROVE  RpInv'
<1>. DEFINE since == SubscriptionRebuildSince(rpCursor[a])
            wanted == {e \in rpStore : e >= since}
<1>1. PICK answer \in OldestFirst(wanted) : rpNotes' = rpNotes \o answer
    BY ZenonT(30) DEF ActivationSubscribes
<1>2. IsFiniteSet(wanted) /\ Cardinality(wanted) \in Nat
    BY Zenon, FS_Subset, FS_CardinalityType DEF RpInv, RpTyped
<1>3. answer \in Seq(rpStore) /\ Range(answer) = wanted
  <2>1. answer \in [1..Cardinality(wanted) -> wanted] /\ Range(answer) = wanted
      BY Zenon, <1>1 DEF OldestFirst
  <2>2. answer \in Seq(wanted)
      BY ZenonT(30), <1>2, <2>1, SeqOfFunction
  <2>3. answer \in Seq(rpStore)
      BY Zenon, <2>2, SeqMonotone
  <2>. QED
      BY Zenon, <2>1, <2>3
<1>4. rpNotes' \in Seq(rpStore) /\ Range(rpNotes') = Range(rpNotes) \cup wanted
    BY <1>1, <1>3, RangeOfConcat DEF RpInv, RpTyped
<1>5. since \in Nat /\ (since = 0 \/ (since + RpLookback = rpCursor[a] /\ rpCursor[a] \in rpStore))
  <2>1. rpCursor[a] \in rpStore \cup {0} /\ rpCursor[a] \in Nat /\ RpLookback \in Nat
      BY Zenon, RpNumbers DEF RpInv, RpTyped
  <2>2. since = IF rpCursor[a] > RpLookback THEN rpCursor[a] - RpLookback ELSE 0
      BY Zenon DEF SubscriptionRebuildSince
  <2>. HIDE DEF since
  <2>. QED
      BY <2>1, <2>2
<1>6. RpTyped'
    BY Zenon, <1>4, <1>5 DEF RpInv, RpTyped, ActivationSubscribes
<1>7. rpSince'[a] = since /\ rpOpen'[a] = "routing"
    BY Zenon DEF ActivationSubscribes, RpInv, RpTyped
<1>8. SinceSound(a)'
    BY SMTT(30), <1>5, <1>7, RpNumbers DEF SinceSound, ActivationSubscribes
<1>9. Owed(a)'
  <2>. SUFFICES ASSUME rpLost[a] = {}, a \notin rpJumped, NEW e \in rpStore \ rpGot[a]
                PROVE  rpCursor[a] <= e + RpLookback /\ since \in 0 .. e /\ OnItsWay(a, e)'
      BY ZenonT(30), <1>7 DEF Owed, ActivationSubscribes
  <2>1. rpCursor[a] <= e + RpLookback
      BY ZenonT(30) DEF RpInv, Owed
  <2>2. since \in 0 .. e
      BY SMTT(30), <1>5, <2>1, RpNumbers
  <2>3. e \in wanted
      BY <1>5, <2>2, RpNumbers
  <2>. QED
      BY Zenon, <1>4, <2>1, <2>2, <2>3 DEF OnItsWay
<1>10. ASSUME NEW b \in RpAccounts \ {a}
       PROVE SinceSound(b)' /\ Owed(b)' /\ (rpOpen'[b] = "up" => b \in rpRouted')
    BY ZenonT(30), <1>4, OwedKept DEF ActivationSubscribes, RpInv, RpTyped, OnItsWay
<1>. QED
    BY Zenon, <1>6, <1>7, <1>8, <1>9, <1>10 DEF RpInv

\* An activation that fails leaves nobody subscribed.
LEMMA ActivationFailsKeeps ==
  ASSUME RpInv, NEW a \in RpAccounts, ActivationFails(a)
  PROVE  RpInv'
BY Zenon, OwedUnsubscribed, OwedKept DEF RpInv, RpTyped, ActivationFails, rpPipe, OnItsWay

\* Installing the routes changes nothing an event depends on.
LEMMA ActivationRoutesKeeps ==
  ASSUME RpInv, NEW a \in RpAccounts, ActivationRoutes(a)
  PROVE  RpInv'
<1>1. RpTyped'
    BY Zenon DEF RpInv, RpTyped, ActivationRoutes, rpPipe
<1>2. rpOpen[a] = "routing" /\ rpOpen'[a] = "up" /\ a \in rpRouted'
    BY Zenon DEF ActivationRoutes, RpInv, RpTyped
<1>3. \A b, e : OnItsWay(b, e)' = OnItsWay(b, e)
    BY ZenonT(30) DEF OnItsWay, ActivationRoutes, rpPipe
<1>4. SinceSound(a)' /\ Owed(a)'
    BY Zenon, <1>2, <1>3 DEF RpInv, SinceSound, Owed, ActivationRoutes
<1>5. ASSUME NEW b \in RpAccounts \ {a}
      PROVE SinceSound(b)' /\ Owed(b)' /\ (rpOpen'[b] = "up" => b \in rpRouted')
  <2>1. rpOpen'[b] = rpOpen[b]
      BY Zenon DEF ActivationRoutes, RpInv, RpTyped
  <2>. QED
      BY Zenon, <1>3, <2>1, OwedKept DEF ActivationRoutes, RpInv
<1>. QED
    BY Zenon, <1>1, <1>2, <1>4, <1>5 DEF RpInv

\* A worker that goes down takes its queue with it and keeps its cursor.
LEMMA WorkerGoesDownKeeps ==
  ASSUME RpInv, NEW a \in RpAccounts, WorkerGoesDown(a)
  PROVE  RpInv'
BY OwedUnsubscribed, OwedKept DEF RpInv, RpTyped, WorkerGoesDown, OnItsWay

\* The forwarder sends to every routed account; a matching account without a
\* route is recorded as having lost the event.
LEMMA ForwarderTakesKeeps ==
  ASSUME RpInv, ForwarderTakes
  PROVE  RpInv'
<1>1. PICK h : h = Head(rpNotes)
    BY Zenon
<1>2. h \in rpStore /\ rpNotes' \in Seq(rpStore) /\ Range(rpNotes) = Range(rpNotes') \cup {h}
    BY Zenon, <1>1, RangeOfTail DEF ForwarderTakes, RpInv, RpTyped
<1>3. /\ rpSend' = [event |-> h, to |-> rpRouted]
      /\ rpLost' = [a \in RpAccounts |->
           IF a \in Matching(h) \ rpRouted THEN rpLost[a] \cup {h} ELSE rpLost[a]]
    BY ZenonT(30), <1>1 DEF ForwarderTakes
<1>4. rpSend'.event = h /\ rpSend'.to = rpRouted
    BY ZenonT(30), <1>3
<1>5. RpTyped'
  <2>1. h \in RpEvents
      BY Zenon, <1>2 DEF RpInv, RpTyped
  <2>. QED
      BY SMTT(30), <1>2, <1>3, <2>1 DEF RpInv, RpTyped, ForwarderTakes
<1>6. ASSUME NEW a \in RpAccounts PROVE SinceSound(a)' /\ Owed(a)'
  <2>1. rpLost[a] \subseteq rpLost'[a]
      BY Zenon, <1>3
  <2>2. ASSUME NEW e \in rpStore \ rpGot[a], OnItsWay(a, e), rpLost'[a] = {}, rpSince[a] \in 0 .. e
        PROVE  OnItsWay(a, e)'
    <3>1. CASE e = h
        BY Zenon, <2>2, <1>3, <3>1, <1>4 DEF Matching, OnItsWay
    <3>2. CASE e # h
        BY Zenon, <1>2, <2>2, <3>2 DEF OnItsWay, ForwarderTakes
    <3>. QED
        BY Zenon, <3>1, <3>2
  <2>. QED
      BY ZenonT(30), <2>1, <2>2, OwedKept DEF ForwarderTakes
<1>. QED
    BY Zenon, <1>5, <1>6 DEF RpInv, ForwarderTakes

\* An event enters the delivery queue for one account.
LEMMA ForwarderSendsKeeps ==
  ASSUME RpInv, NEW a \in RpAccounts, ForwarderSends(a)
  PROVE  RpInv'
<1>. DEFINE d == [event |-> rpSend.event, for |-> a]
            Deliveries == [event : rpStore, for : RpAccounts]
<1>1. d \in Deliveries
    BY Zenon DEF ForwarderSends, RpInv, RpTyped
<1>2. rpQueue' \in Seq(Deliveries) /\ Range(rpQueue') = Range(rpQueue) \cup {d}
  <2>1. rpQueue \in Seq(Deliveries) /\ rpQueue' = Append(rpQueue, d)
      BY Zenon DEF ForwarderSends, RpInv, RpTyped
  <2>. HIDE DEF d, Deliveries
  <2>. QED
      BY <1>1, <2>1, RangeOfAppend
<1>3. /\ rpSend' \in [event : RpEvents \cup {0}, to : SUBSET RpAccounts]
      /\ rpSend'.to = rpSend.to \ {a} /\ (rpSend'.to # {} => rpSend'.event = rpSend.event)
    BY Zenon DEF ForwarderSends, RpInv, RpTyped, NoEvent
<1>4. RpTyped'
    BY Zenon, <1>2, <1>3 DEF RpInv, RpTyped, ForwarderSends
<1>5. ASSUME NEW b \in RpAccounts, NEW e, OnItsWay(b, e) PROVE OnItsWay(b, e)'
    BY Zenon, <1>2, <1>3, <1>5 DEF OnItsWay, ForwarderSends
<1>6. ASSUME NEW b \in RpAccounts PROVE SinceSound(b)' /\ Owed(b)'
    BY Zenon, <1>5, OwedKept DEF ForwarderSends
<1>. QED
    BY Zenon, <1>4, <1>6 DEF RpInv, ForwarderSends

\* The router drops what does not fit, and records it.
LEMMA RouterMovesKeeps ==
  ASSUME RpInv, RouterMoves
  PROVE  RpInv'
<1>. DEFINE Deliveries == [event : rpStore, for : RpAccounts]
<1>1. PICK d : d = Head(rpQueue)
    BY Zenon
<1>2. rpQueue \in Seq(Deliveries) /\ rpQueue # <<>> /\ rpQueue' = Tail(rpQueue)
    BY ZenonT(30) DEF RouterMoves, RpInv, RpTyped
<1>3. d \in Deliveries /\ rpQueue' \in Seq(Deliveries) /\ Range(rpQueue) = Range(rpQueue') \cup {d}
  <2>. HIDE DEF Deliveries
  <2>. QED
      BY Zenon, <1>1, <1>2, RangeOfTail
<1>4. d.event \in rpStore /\ d.for \in RpAccounts /\ d = [event |-> d.event, for |-> d.for]
    BY Zenon, <1>3
<1>5. /\ \A b \in RpAccounts \ {d.for} : rpInbox'[b] = rpInbox[b] /\ rpLost'[b] = rpLost[b]
      /\ rpLost[d.for] \subseteq rpLost'[d.for]
      /\ Range(rpInbox[d.for]) \subseteq Range(rpInbox'[d.for])
      /\ \/ rpOpen[d.for] = "down" \/ d.event \in Range(rpInbox'[d.for]) \/ d.event \in rpLost'[d.for]
      /\ rpInbox' \in [RpAccounts -> Seq(rpStore)] /\ rpLost' \in [RpAccounts -> SUBSET rpStore]
  <2>1. rpInbox[d.for] \in Seq(rpStore) /\ rpLost[d.for] \in SUBSET rpStore
      BY Zenon, <1>4 DEF RpInv, RpTyped
  <2>2. CASE UNCHANGED <<rpInbox, rpLost>> /\ rpOpen[d.for] = "down"
      BY Zenon, <2>2 DEF RpInv, RpTyped
  <2>3. CASE rpInbox' = [rpInbox EXCEPT ![d.for] = Append(@, d.event)] /\ UNCHANGED rpLost
      BY <1>4, <2>3, <2>1, RangeOfAppend DEF RpInv, RpTyped
  <2>4. CASE rpLost' = [rpLost EXCEPT ![d.for] = @ \cup {d.event}] /\ UNCHANGED rpInbox
      BY Zenon, <1>4, <2>4 DEF RpInv, RpTyped
  <2>. QED
      BY ZenonT(30), <1>1, <2>2, <2>3, <2>4 DEF RouterMoves
<1>6. RpTyped'
    BY ZenonT(30), <1>3, <1>5 DEF RpInv, RpTyped, RouterMoves
<1>7. ASSUME NEW a \in RpAccounts PROVE SinceSound(a)' /\ Owed(a)'
  <2>1. rpLost[a] \subseteq rpLost'[a] /\ Range(rpInbox[a]) \subseteq Range(rpInbox'[a])
      BY ZenonT(30), <1>5
  <2>2. ASSUME NEW e \in rpStore \ rpGot[a], OnItsWay(a, e), rpLost'[a] = {},
               rpOpen[a] \in {"routing", "up"}
        PROVE  OnItsWay(a, e)'
    <3>1. CASE d = [event |-> e, for |-> a]
        BY Zenon, <1>5, <2>2, <3>1 DEF OnItsWay
    <3>2. CASE d # [event |-> e, for |-> a]
        BY Zenon, <1>3, <2>1, <2>2, <3>2 DEF OnItsWay, RouterMoves
    <3>. QED
        BY Zenon, <3>1, <3>2
  <2>. QED
      BY ZenonT(30), <2>1, <2>2, OwedKept DEF RouterMoves
<1>. QED
    BY Zenon, <1>6, <1>7 DEF RpInv, RouterMoves

\* A worker moves its cursor past what it still lacks by more than the
\* lookback only if that is recorded.
LEMMA WorkerReceivesKeeps ==
  ASSUME RpInv, NEW a \in RpAccounts, WorkerReceives(a)
  PROVE  RpInv'
<1>1. PICK h : h = Head(rpInbox[a])
    BY Zenon
<1>2. rpInbox[a] \in Seq(rpStore) /\ rpInbox[a] # <<>> /\ rpInbox'[a] = Tail(rpInbox[a])
    BY Zenon DEF WorkerReceives, RpInv, RpTyped
<1>3. h \in rpStore /\ rpInbox'[a] \in Seq(rpStore) /\ Range(rpInbox[a]) = Range(rpInbox'[a]) \cup {h}
    BY SMTT(30), <1>1, <1>2, RangeOfTail
<1>4. /\ rpGot'[a] = rpGot[a] \cup {h}
      /\ rpCursor'[a] = IF h > rpCursor[a] THEN h ELSE rpCursor[a]
      /\ \A b \in RpAccounts \ {a} : rpGot'[b] = rpGot[b] /\ rpCursor'[b] = rpCursor[b] /\ rpInbox'[b] = rpInbox[b]
      /\ rpJumped \subseteq rpJumped'
      /\ (\E f \in rpStore \ rpGot[a] : f + RpLookback < h) => a \in rpJumped'
    BY Zenon, <1>1 DEF WorkerReceives, RpInv, RpTyped
<1>5. RpTyped'
  <2>1. rpCursor'[a] \in rpStore \cup {0}
      BY Zenon, <1>3, <1>4 DEF RpInv, RpTyped
  <2>2. rpCursor' \in [RpAccounts -> rpStore \cup {0}] /\ rpGot' \in [RpAccounts -> SUBSET rpStore]
      BY Zenon, <1>1, <1>3, <2>1 DEF WorkerReceives, RpInv, RpTyped
  <2>3. rpInbox' \in [RpAccounts -> Seq(rpStore)] /\ rpJumped' \subseteq RpAccounts
      BY Zenon, <1>3 DEF WorkerReceives, RpInv, RpTyped
  <2>. QED
      BY Zenon, <2>2, <2>3 DEF WorkerReceives, RpInv, RpTyped
<1>6. SinceSound(a)'
    BY Zenon DEF RpInv, SinceSound, WorkerReceives
<1>7. Owed(a)'
  <2>. SUFFICES ASSUME rpLost[a] = {}, a \notin rpJumped', NEW e \in rpStore \ rpGot'[a]
                PROVE  /\ rpCursor'[a] <= e + RpLookback
                       /\ rpSince[a] \in 0 .. e /\ OnItsWay(a, e)'
      BY ZenonT(30) DEF Owed, WorkerReceives
  <2>1. e \in rpStore \ rpGot[a] /\ e # h
      BY Zenon, <1>4
  <2>2. a \notin rpJumped /\ ~(e + RpLookback < h)
      BY Zenon, <1>4, <2>1
  <2>3. rpCursor[a] <= e + RpLookback /\ rpSince[a] \in 0 .. e /\ OnItsWay(a, e)
      BY ZenonT(30), <2>1, <2>2 DEF RpInv, Owed, WorkerReceives
  <2>4. rpCursor'[a] <= e + RpLookback
      BY SMTT(30), <1>3, <1>4, <2>2, <2>3, RpNumbers
  <2>5. OnItsWay(a, e)'
      BY Zenon, <1>3, <2>1, <2>3 DEF OnItsWay, WorkerReceives
  <2>. QED
      BY Zenon, <2>3, <2>4, <2>5
<1>8. ASSUME NEW b \in RpAccounts \ {a} PROVE SinceSound(b)' /\ Owed(b)'
    BY Zenon, <1>4, OwedKept DEF OnItsWay, WorkerReceives
<1>. QED
    BY Zenon, <1>5, <1>6, <1>7, <1>8 DEF RpInv, WorkerReceives

\* The invariant of the delivery path holds throughout.
LEMMA RpInvariance == RpSpec => []RpInv
<1>1. RpInv /\ [RpNext]_rpVars => RpInv'
  <2>. SUFFICES ASSUME RpInv, [RpNext]_rpVars PROVE RpInv'
      BY Zenon
  <2>1. CASE UNCHANGED rpVars
    <3>1. \A a, e : OnItsWay(a, e)' = OnItsWay(a, e)
        BY ZenonT(30), <2>1 DEF OnItsWay, rpVars
    <3>2. RpTyped'
        BY Zenon, <2>1 DEF RpInv, RpTyped, rpVars
    <3>. QED
        BY ZenonT(30), <2>1, <3>1, <3>2 DEF RpInv, SinceSound, Owed, rpVars
  <2>2. CASE RpNext
      BY SMTT(30), <2>2, RelayStoresKeeps, ActivationStartsKeeps, ActivationSubscribesKeeps,
         ActivationFailsKeeps, ActivationRoutesKeeps, WorkerGoesDownKeeps, ForwarderSendsKeeps,
         WorkerReceivesKeeps, ForwarderTakesKeeps, RouterMovesKeeps DEF RpNext
  <2>. QED
      BY Zenon, <2>1, <2>2
<1>. QED
    BY <1>1, RpInitSound, PTL DEF RpSpec

\* An account with nothing on its way to it has every event of the relay,
\* unless a drop or an overtaken lookback is on record; for any events, lookback
\* and queue sizes.
THEOREM CaughtUpHasAllHolds == RpSpec => []CaughtUpHasAll
<1>1. RpInv => CaughtUpHasAll
    BY DEF CaughtUpHasAll, RpInv, Owed, CaughtUp, OnItsWay, NoEvent, Range
<1>. QED
    BY <1>1, RpInvariance, PTL

\* The three promises of the relay side together, over its two parts.
THEOREM DeliverySoundHolds == RoSpec /\ RpSpec => []DeliverySound
BY RoutesAreFedHolds, WriteRelaysAreHeldHolds, CaughtUpHasAllHolds, PTL DEF DeliverySound

=============================================================================
