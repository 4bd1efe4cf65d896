----------------------------- MODULE Convergence -----------------------------
(***************************************************************************)
(* Several members of one group commit, publish and receive each other's   *)
(* commits (crates/cgka-engine/src: message_processor, publish.rs,         *)
(* fork_recovery.rs, distributed_convergence.rs, openmls_projection.rs).   *)
(* It composes what the other modules study apart: a client that commits   *)
(* resolves a race with its own commit by fork recovery, every other race  *)
(* by a convergence pass, and keeps what it cannot read yet for a retry.   *)
(*                                                                         *)
(* A commit is a number, which is also its ordering key: lower wins.  A    *)
(* group state is the path of commits that leads to it, so the epoch is    *)
(* its length.  Commits are sealed by the transport to the state they are  *)
(* made in, and none of them removes a member.  Handlers take `&mut self`  *)
(* and are one step each; they are operators on the record of one client,  *)
(* of which Engine is the type.                                            *)
(***************************************************************************)
EXTENDS BranchSelection, Sequences, Functions

CONSTANTS
    Clients,
    Commits,      \* the commits that may be made
    Author,       \* commit -> the client that makes it
    None,         \* no commit is pending
    MaxPasses,    \* MAX_CONVERGENCE_REPROCESSING_PASSES
    Rounds,       \* nobody commits while a commit of an older epoch is under way
    Interleaved,  \* the host delivers messages while a publish is outstanding
    LostAcks,     \* a publish that reached a relay may look failed
    MaxFailures,  \* bound: publishes that fail or look so
    MaxRestarts   \* bound: restarts of a client

ASSUME ConvergenceAssumption ==
    /\ Commits \subseteq Nat
    /\ Author \in [Commits -> Clients]
    /\ None \notin Commits
    /\ MaxPasses \in Nat /\ MaxFailures \in Nat /\ MaxRestarts \in Nat
    /\ Rounds \in BOOLEAN /\ Interleaved \in BOOLEAN /\ LostAcks \in BOOLEAN

VARIABLES
    node,     \* client -> its engine
    base,     \* commit made -> the state it was made in
    wire,     \* the commits relays hold
    got,      \* client -> the commits relays have delivered to it
    budget    \* failures and restarts so far

vars == << node, base, wire, got, budget >>

\* The group state s is t or an ancestor of t.
IsPrefix(s, t) == Len(s) <= Len(t) /\ SubSeq(s, 1, Len(s)) = SubSeq(t, 1, Len(s))

Made == DOMAIN base

Source(c) == Len(base[c])

Branch(c) == Append(base[c], c)

Floor(e) == Minus(e, MaxRewind)

NoEntries == [x \in {} |-> x]

NoRow == [st |-> "None", at |-> 0]

Row(st, at) == [st |-> st, at |-> at]

\* A client that was there when the group was created.
Fresh ==
    [path    |-> << >>,
     mode    |-> "Stable",
     pending |-> [commit |-> None],
     rows    |-> [c \in Commits |-> NoRow],
     raw     |-> << >>,
     anchors |-> NoEntries,
     wins    |-> NoEntries,
     from    |-> {}]

Init ==
    /\ node = [cl \in Clients |-> Fresh]
    /\ base = NoEntries
    /\ wire = {}
    /\ got = [cl \in Clients |-> {}]
    /\ budget = [failures |-> 0, restarts |-> 0]

-----------------------------------------------------------------------------
(* Storage.  A row has a state and the epoch it is filed under.  Rows of   *)
(* commits are keyed by content; `raw` holds the rows of messages that     *)
(* were stored unopened, in the order of their insertion.                  *)

\* create_group_snapshot: a snapshot also holds the message rows.
Save(n) == [path |-> n.path, rows |-> n.rows, raw |-> n.raw]

\* rollback_group_to_snapshot.
Restore(n, s) == [n EXCEPT !.path = s.path, !.rows = s.rows, !.raw = s.raw]

\* Seeded bug: an anchor that exists is not replaced.
RetainOld(n) ==
    LET tip == Len(n.path)
        kept == {e \in DOMAIN n.anchors : e >= Floor(tip)}
    IN  [n EXCEPT !.anchors = [e \in kept \union {tip} |->
                                  IF e \in kept THEN n.anchors[e] ELSE Save(n)]]

\* retain_current_group_epoch_snapshot.
Retain(n) ==
    LET tip == Len(n.path)
        kept == {e \in DOMAIN n.anchors : e >= Floor(tip)} \ {tip}
    IN  [n EXCEPT !.anchors = [e \in kept \union {tip} |->
                                  IF e = tip THEN Save(n) ELSE n.anchors[e]]]

HasRaw(raw, c) == \E i \in DOMAIN raw : raw[i].c = c

\* persist_transport_message.
PutRaw(n, c, st) ==
    LET r == [c |-> c, st |-> st, at |-> Len(n.path)]
    IN  [n EXCEPT !.raw =
            IF HasRaw(@, c) THEN [i \in DOMAIN @ |-> IF @[i].c = c THEN r ELSE @[i]]
            ELSE Append(@, r)]

\* update_stored_message_state of a raw row.
SetRaw(n, c, st) ==
    [n EXCEPT !.raw = [i \in DOMAIN @ |-> IF @[i].c = c THEN [@[i] EXCEPT !.st = st] ELSE @[i]]]

PutRow(n, c, st, at) == [n EXCEPT !.rows[c] = Row(st, at)]

SetRow(n, c, st) ==
    IF n.rows[c].st = "None" THEN n ELSE [n EXCEPT !.rows[c].st = st]

\* Seeded bug: the incumbents are pruned up to the tip, the epochs are not.
PruneIncumbents(n) ==
    [n EXCEPT !.wins = [e \in {f \in DOMAIN n.wins : f >= Len(n.path)} |-> n.wins[e]]]

\* prune_fork_recovery_for_group.
Prune(n) ==
    LET old == Floor(Len(n.path))
    IN  [n EXCEPT !.wins = [e \in {f \in DOMAIN n.wins : f >= old} |-> n.wins[e]],
                  !.from = {e \in @ : e >= old}]

\* Seeded bug: the incumbent is kept under the epoch it leads to.
IncumbentNext(n, e, c, snap) ==
    [n EXCEPT !.wins = [f \in DOMAIN n.wins \union {e + 1} |->
                           IF f = e + 1 THEN [commit |-> c, snap |-> snap] ELSE n.wins[f]]]

\* record_applied_commit_for_recovery and promote_pending.
Incumbent(n, e, c, snap) ==
    [n EXCEPT !.wins = [f \in DOMAIN n.wins \union {e} |->
                           IF f = e THEN [commit |-> c, snap |-> snap] ELSE n.wins[f]]]

-----------------------------------------------------------------------------
(* ingest_group_message of a commit.  The result is the engine after it    *)
(* and the outcome.                                                        *)

Result(n, out) == [n |-> n, out |-> out]

\* The live state opens the message, or a retained one of an earlier epoch.
Peelable(n, state) ==
    \/ state = n.path
    \/ \E e \in DOMAIN n.anchors : e < Len(n.path) /\ n.anchors[e].path = state
    \/ \E e \in DOMAIN n.wins : e < Len(n.path) /\ n.wins[e].snap.path = state

\* recorded_message_outcome.
Recorded(st) ==
    CASE st = "Sent" -> "Stale" [] st = "Created" -> "Buffered" [] OTHER -> "Stale"

\* Seeded bug: a commit of an epoch that is over never enters convergence.
EntersConvergenceAhead(n, e) == e >= Len(n.path)

\* commit_should_enter_convergence.
EntersConvergence(n, e) ==
    \/ e >= Len(n.path)
    \/ Minus(Len(n.path), e) <= MaxRewind /\ e \notin n.from /\ e \in DOMAIN n.anchors

\* The commit is processed in the live state, which is the one it was made
\* in: StagedCommitMessage, once its row is `stored`.
Merge(stored, c) == [Retain(stored) EXCEPT !.path = Branch(c), !.mode = "Stable"]

Apply(stored, c) ==
    SetRow(Prune(Incumbent(Merge(stored, c), Source(c), c, Save(stored))), c, "Processed")

ApplyDirectly(n, c) == Apply(PutRow(n, c, "Created", Source(c)), c)

\* The rival c wins against the incumbent: the group goes back to the state
\* before the incumbent, the message rows with it.
RollBack(n, win, e) ==
    [SetRow(Restore(n, win.snap), win.commit, "EpochInvalidated") EXCEPT
        !.wins = [f \in DOMAIN n.wins \ {e} |-> n.wins[f]], !.mode = "Stable"]

\* The loop of ingest starts over with the message.
Again(back, c) ==
    IF back.rows[c].st # "None" THEN Result(back, Recorded(back.rows[c].st))
    ELSE Result(ApplyDirectly(back, c), "Processed")

\* Seeded bug: the commit that arrives later wins the race.
ResolveLatest(n, c, win) == Again(RollBack(n, win, Source(c)), c)

\* resolve_fork_candidate against the incumbent, and what ingest does with
\* the answer.  The candidate is probed in the incumbent's snapshot first.
Resolve(n, c, win) ==
    IF win.snap.path # base[c] THEN Result(n, "Error")
    ELSE IF c >= win.commit THEN Result(SetRow(n, c, "EpochInvalidated"), "Stale")
    ELSE Again(RollBack(n, win, Source(c)), c)

\* Fork recovery, for a commit of an epoch this client left with a commit of
\* its own.
ForkRecovery(n, c) ==
    IF Source(c) \in DOMAIN n.wins THEN Resolve(n, c, n.wins[Source(c)])
    ELSE Result([SetRow(n, c, "EpochInvalidated") EXCEPT !.mode = "Recovering"], "Forked")

\* A commit of an epoch that is over, once its row is `stored`: WrongEpoch.
WrongEpoch(stored, c) ==
    IF Source(c) \in stored.from THEN ForkRecovery(stored, c)
    ELSE Result(SetRow(stored, c, "Failed"), "Stale")

\* The convergence pass an ingest ends in is still inside the quiescence
\* window it has just reopened, so it applies nothing.
Ingest(n, c) ==
    CASE n.mode \in {"Pending", "Unrecoverable"} ->
             Result(PutRaw(n, c, "Retryable"), "Buffered")
      [] n.mode \in {"Stable", "Recovering"} /\ ~Peelable(n, base[c]) ->
             Result(PutRaw(n, c, "PeelDeferred"), "PeelFailed")
      [] OTHER ->
             IF n.rows[c].st # "None" THEN Result(n, Recorded(n.rows[c].st))
             ELSE IF EntersConvergence(n, Source(c))
             THEN Result(PutRow(n, c, "Created", Source(c)), "Buffered")
             ELSE WrongEpoch(PutRow(n, c, "Created", Len(n.path)), c)

-----------------------------------------------------------------------------
(* A convergence pass of client me, its quiescence window over.            *)

\* unresolved_commit_state; the commit of a failed publish stays Sent.
Open(n) == {c \in Made : n.rows[c].st \in {"Sent", "Created"}}

Stale(n) == {c \in Open(n) : Source(c) < Floor(Len(n.path))}

\* historical_replay_start_epoch.
Late(n) == {c \in Open(n) \ Stale(n) : Source(c) < Len(n.path)}

\* The commits a pass can replay.  OpenMLS does not process a client's own.
Replayable(me, n, late) ==
    {c \in Made : /\ Author[c] # me
                  /\ Source(c) >= Floor(Len(n.path))
                  /\ \/ n.rows[c].st \in {"Sent", "Created"}
                     \/ late # {} /\ n.rows[c].st = "Processed"}

\* build_stored_openmls_candidate_paths, from the state `start`.
Reached(held, start) ==
    {c \in held : /\ IsPrefix(start, base[c])
                  /\ \A i \in Len(start) + 1 .. Source(c) : base[c][i] \in held}

Maximal(reached) ==
    {c \in reached : \A d \in reached : IsPrefix(Branch(c), Branch(d)) => d = c}

Candidate(c, start) ==
    [fork |-> Len(start), tip |-> Len(Branch(c)), priority |-> 0, committer |-> 0,
     digest |-> c, witnesses |-> {}]

Suffix(c, start) == {Branch(c)[i] : i \in Len(start) + 1 .. Len(Branch(c))}

\* The rows of raw whose message has none in old.
Unknown(old, raw) ==
    LET new[k \in 0 .. Len(raw)] ==
            IF k = 0 THEN << >>
            ELSE IF HasRaw(old, raw[k].c) THEN new[k - 1] ELSE Append(new[k - 1], raw[k])
    IN  new[Len(raw)]

\* Seeded bug: the rows that came after the anchor are not put back.
PutBackAnchor(old, live) ==
    [path |-> old.path,
     rows |-> [c \in Commits |-> IF live.rows[c].st = "None" THEN old.rows[c] ELSE live.rows[c]],
     raw  |-> old.raw]

\* restore_live_message_and_queue_records puts the live rows back over those
\* of the anchor, and removes none.
PutBack(old, live) ==
    [path |-> old.path,
     rows |-> [c \in Commits |-> IF live.rows[c].st = "None" THEN old.rows[c] ELSE live.rows[c]],
     raw  |-> [i \in DOMAIN old.raw |->
                  IF HasRaw(live.raw, old.raw[i].c)
                  THEN live.raw[CHOOSE j \in DOMAIN live.raw : live.raw[j].c = old.raw[i].c]
                  ELSE old.raw[i]]
              \o Unknown(old.raw, live.raw)]

\* Seeded bug: the rows of the losing branches are left alone.
DisposeWinners(n, won, lost) ==
    [n EXCEPT !.rows = [c \in Commits |->
        IF c \in won THEN [@[c] EXCEPT !.st = "Processed"] ELSE @[c]]]

\* Seeded bug: a commit that is on a losing branch too counts as lost.
DisposeLosersFirst(n, won, lost) ==
    [n EXCEPT !.rows = [c \in Commits |->
        CASE c \in lost -> [@[c] EXCEPT !.st = "EpochInvalidated"]
          [] c \in won \ lost -> [@[c] EXCEPT !.st = "Processed"]
          [] OTHER -> @[c]]]

\* persist_openmls_canonicalization_dispositions.
Dispose(n, won, lost) ==
    [n EXCEPT !.rows = [c \in Commits |->
        CASE c \in won -> [@[c] EXCEPT !.st = "Processed"]
          [] c \in lost \ won -> [@[c] EXCEPT !.st = "EpochInvalidated"]
          [] OTHER -> @[c]]]

\* apply_openmls_canonicalization_result: the state to replay from is found
\* by the epoch the first accepted commit is filed under.
ApplyFrom(n, at) ==
    IF at >= Len(n.path) THEN Save(n)
    ELSE IF at \in DOMAIN n.anchors THEN PutBack(n.anchors[at], n)
    ELSE [path |-> << None >>]

ApplyPath(n, live, start, w, lost) ==
    IF live.path # start THEN Result(n, "Error")
    ELSE Result(Retain([Dispose(Restore(n, live), Suffix(w, start), lost) EXCEPT
                           !.path = Branch(w), !.mode = "Stable"]),
                "Settled")

Select(n, start, w, all, at) ==
    ApplyPath(IF at = Len(n.path) THEN Retain(n) ELSE n, ApplyFrom(n, at), start, w,
              (UNION {Suffix(c, start) : c \in all}) \union Stale(n))

First(w, start) == Branch(w)[Len(start) + 1]

Choose(n, start, all) ==
    LET w == CHOOSE c \in all :
                 Candidate(c, start) \in Selected(Len(n.path), {Candidate(d, start) : d \in all})
    IN  IF \E c \in all : Eligible(Len(n.path), Candidate(c, start))
        THEN Select(n, start, w, all, n.rows[First(w, start)].at)
        ELSE Result(Dispose(n, {}, Stale(n)), "Settled")

\* A pass from the state `start`.
ConvergeFrom(me, n, late, start) ==
    Choose(n, start, Maximal(Reached(Replayable(me, n, late), start)))

\* The late commits make the pass start in the oldest epoch of theirs.
ConvergeLate(me, n, late, from) ==
    IF from \in DOMAIN n.anchors THEN ConvergeFrom(me, n, late, n.anchors[from].path)
    ELSE Result([n EXCEPT !.mode = "Unrecoverable"], "Blocked")

ConvergeWith(me, n, late) ==
    IF late = {} THEN ConvergeFrom(me, n, late, n.path)
    ELSE ConvergeLate(me, n, late, Min({Source(c) : c \in late}))

\* converge_stored_openmls_messages.
Converge(me, n) ==
    IF n.mode = "Unrecoverable" THEN Result(n, "Blocked") ELSE ConvergeWith(me, n, Late(n))

\* has_unresolved_convergence_inputs.
HasUnresolved(n) ==
    LET old == Floor(Len(n.path))
    IN  \/ \E c \in Commits : n.rows[c].st = "Created" /\ n.rows[c].at >= old
        \/ \E i \in DOMAIN n.raw : n.raw[i].st = "Retryable" /\ n.raw[i].at >= old

-----------------------------------------------------------------------------
(* The retries of stored messages.                                         *)

Retried(n, progress, failed) == [n |-> n, progress |-> progress, failed |-> failed]

\* Seeded bug: a deferred message that is opened at last stays to be retried.
AfterRetryAgain(progress, c, i) ==
    IF i.out = "PeelFailed" THEN Retried(i.n, progress, FALSE)
    ELSE Retried(SetRaw(i.n, c, "Retryable"), TRUE, FALSE)

\* One record of retry_deferred_peels, whose ingest returned i.  The update
\* of a row that a rollback has removed is an error.
AfterRetry(progress, c, i) ==
    CASE i.out = "PeelFailed" -> Retried(i.n, progress, FALSE)
      [] i.out \in {"Buffered", "Processed", "Stale"} ->
             Retried(SetRaw(i.n, c, "Processed"), TRUE, ~HasRaw(i.n.raw, c))
      [] i.out = "Forked" -> Retried(SetRaw(i.n, c, "EpochInvalidated"), progress, TRUE)
      [] i.out = "Error" -> Retried(SetRaw(i.n, c, "Retryable"), progress, TRUE)

RetryOne(acc, r) ==
    IF acc.failed \/ r.st # "PeelDeferred" THEN acc
    ELSE AfterRetry(acc.progress, r.c, Ingest(acc.n, r.c))

\* retry_deferred_peels works on the list it has read at the start.
RetryDeferred(n) ==
    LET acc[k \in 0 .. Len(n.raw)] ==
            IF k = 0 THEN Retried(n, FALSE, FALSE) ELSE RetryOne(acc[k - 1], n.raw[k])
    IN  acc[Len(n.raw)]

\* One record of replay_buffered_messages, whose ingest returned i.
AfterReplay(c, i) ==
    CASE i.out = "Buffered" ->
             [n |-> SetRaw(i.n, c, "Retryable"), failed |-> ~HasRaw(i.n.raw, c)]
      [] i.out \in {"PeelFailed", "Processed", "Stale"} -> [n |-> i.n, failed |-> FALSE]
      [] i.out = "Forked" -> [n |-> SetRaw(i.n, c, "EpochInvalidated"), failed |-> TRUE]
      [] i.out = "Error" -> [n |-> SetRaw(i.n, c, "Retryable"), failed |-> TRUE]

ReplayOne(acc, r) ==
    IF acc.failed \/ r.st \notin {"Retryable", "PeelDeferred"} THEN acc
    ELSE AfterReplay(r.c, Ingest(acc.n, r.c))

\* replay_buffered_messages.
Replay(n) ==
    LET acc[k \in 0 .. Len(n.raw)] ==
            IF k = 0 THEN [n |-> n, failed |-> FALSE] ELSE ReplayOne(acc[k - 1], n.raw[k])
    IN  acc[Len(n.raw)].n

\* One pass of advance_convergence_inputs_until_settled: a convergence pass
\* if there is input for it, then the deferred messages.
Passed(n, more, settled) == [n |-> n, more |-> more, settled |-> settled]

AfterRetries(r) ==
    Passed(r.n, r.progress /\ ~r.failed, ~r.progress /\ ~r.failed /\ ~HasUnresolved(r.n))

AfterConverge(c) ==
    IF c.out # "Settled" \/ HasUnresolved(c.n) THEN Passed(c.n, FALSE, FALSE)
    ELSE AfterRetries(RetryDeferred(c.n))

Pass(me, a) ==
    IF ~a.more THEN a
    ELSE AfterConverge(IF HasUnresolved(a.n) THEN Converge(me, a.n) ELSE Result(a.n, "Settled"))

\* advance_convergence_inputs_until_settled.
AdvanceNode(me, n) ==
    LET passes[k \in 0 .. MaxPasses] ==
            IF k = 0 THEN Passed(n, TRUE, FALSE) ELSE Pass(me, passes[k - 1])
    IN  passes[MaxPasses]

-----------------------------------------------------------------------------
(* Actions.                                                                *)

\* Nothing of an older epoch is still to be published or delivered.
RoundOver(e) ==
    \A c \in Made : Source(c) < e =>
        /\ \A cl \in Clients : node[cl].pending.commit # c
        /\ c \in wire => \A cl \in Clients \ {Author[c]} : c \in got[cl]

\* The commit is staged in the engine n.
Staged(n, c) ==
    [PutRow(n, c, "Sent", Len(n.path)) EXCEPT
        !.mode = "Pending", !.from = @ \union {Len(n.path)},
        !.pending = [commit |-> c, snap |-> Save(n)]]

StageIn(cl, c, a) ==
    /\ a.settled
    /\ Rounds => RoundOver(Len(a.n.path))
    /\ node' = [node EXCEPT ![cl] = Staged(a.n, c)]
    /\ base' = [d \in Made \union {c} |-> IF d = c THEN a.n.path ELSE base[d]]
    /\ UNCHANGED << wire, got, budget >>

\* do_send of a commit: it settles convergence first, and stages only then.
Stage(c) ==
    /\ c \notin Made
    /\ node[Author[c]].mode = "Stable"
    /\ StageIn(Author[c], c, AdvanceNode(Author[c], node[Author[c]]))

\* A relay takes the commit.
Publish(cl) ==
    /\ node[cl].mode = "Pending"
    /\ node[cl].pending.commit \notin wire
    /\ wire' = wire \union {node[cl].pending.commit}
    /\ UNCHANGED << node, base, got, budget >>

\* Seeded bug: the handle of the pending commit is not cleared.
UnpendKept(n) == [n EXCEPT !.mode = "Stable"]

\* EpochManager::confirm and rollback.
Unpend(n) == [n EXCEPT !.mode = "Stable", !.pending = [commit |-> None]]

\* Seeded bug: the outcome of the publish is not asked for.
ConfirmAnyway(cl) ==
    LET n == node[cl]
        c == n.pending.commit
    IN  /\ n.mode = "Pending"
        /\ node' = [node EXCEPT ![cl] =
                       Retain(SetRow([Unpend(Retain(n)) EXCEPT !.path = Branch(c)], c, "Processed"))]
        /\ UNCHANGED << base, wire, got, budget >>

\* do_confirm_published.
Confirm(cl) ==
    LET n == node[cl]
        c == n.pending.commit
        merged == Retain(SetRow([Retain(n) EXCEPT !.path = Branch(c)], c, "Processed"))
    IN  /\ n.mode = "Pending"
        /\ c \in wire
        /\ node' = [node EXCEPT ![cl] =
                       Replay(Prune(Incumbent(Unpend(merged), Source(c), c, n.pending.snap)))]
        /\ UNCHANGED << base, wire, got, budget >>

\* do_publish_failed, after a publish no relay took or one that only looks so.
Fail(cl) ==
    /\ node[cl].mode = "Pending"
    /\ node[cl].pending.commit \in wire => LostAcks
    /\ budget.failures < MaxFailures
    /\ budget' = [budget EXCEPT !.failures = @ + 1]
    /\ node' = [node EXCEPT ![cl] = Replay(Unpend(@))]
    /\ UNCHANGED << base, wire, got >>

\* do_ingest: a row under the transport id, unless deferred, ends it.
Deliver(cl, c) ==
    LET n == node[cl]
    IN  /\ c \in wire \ got[cl]
        /\ Author[c] # cl
        /\ n.mode = "Pending" => Interleaved
        /\ got' = [got EXCEPT ![cl] = @ \union {c}]
        /\ node' = IF \E i \in DOMAIN n.raw : n.raw[i].c = c /\ n.raw[i].st # "PeelDeferred"
                   THEN node
                   ELSE [node EXCEPT ![cl] = Ingest(n, c).n]
        /\ UNCHANGED << base, wire, budget >>

\* advance_convergence, from the application's timer.
Advance(cl) ==
    /\ node[cl].mode = "Stable"
    /\ node' = [node EXCEPT ![cl] = AdvanceNode(cl, @).n]
    /\ node' # node
    /\ UNCHANGED << base, wire, got, budget >>

\* The process restarts: EpochManager and ForkRecoveryManager start empty, a
\* staged commit is cleared, and relays deliver what they hold again.
Restart(cl) ==
    /\ budget.restarts < MaxRestarts
    /\ budget' = [budget EXCEPT !.restarts = @ + 1]
    /\ node' = [node EXCEPT ![cl] = [Unpend(@) EXCEPT !.wins = NoEntries, !.from = {}]]
    /\ got' = [got EXCEPT ![cl] = {}]
    /\ UNCHANGED << base, wire >>

Next ==
    \/ \E c \in Commits : Stage(c)
    \/ \E cl \in Clients : Publish(cl) \/ Confirm(cl) \/ Fail(cl) \/ Advance(cl) \/ Restart(cl)
    \/ \E cl \in Clients, c \in Commits : Deliver(cl, c)

Spec == Init /\ [][Next]_vars

-----------------------------------------------------------------------------
(* Properties.                                                             *)

RowStates == {"None", "Created", "Sent", "Processed", "Failed", "EpochInvalidated"}

RawStates == {"Retryable", "PeelDeferred", "Processed", "EpochInvalidated"}

RowType == [st : RowStates, at : Nat]

IsRaw(r) == r.c \in Commits /\ r.st \in RawStates /\ r.at \in Nat

IsSaved(s) ==
    /\ s.path \in Seq(Commits)
    /\ s.rows \in [Commits -> RowType]
    /\ \A i \in DOMAIN s.raw : IsRaw(s.raw[i])

\* The state of every engine is well formed, and nothing is published that
\* was not made.
TypeOK ==
    /\ \A cl \in Clients :
           LET n == node[cl]
           IN  /\ IsSaved(n)
               /\ n.mode \in {"Stable", "Pending", "Recovering", "Unrecoverable"}
               /\ n.pending.commit \in Commits \union {None}
               /\ n.mode = "Pending" <=> n.pending.commit # None
               /\ \A e \in DOMAIN n.anchors : IsSaved(n.anchors[e])
               /\ \A e \in DOMAIN n.wins : n.wins[e].commit \in Commits /\ IsSaved(n.wins[e].snap)
               /\ n.from \subseteq Nat
    /\ wire \subseteq Made
    /\ \A cl \in Clients : got[cl] \subseteq wire

\* Every published commit is delivered and every client has nothing left to
\* do.
Quiet ==
    /\ \A cl \in Clients :
           /\ node[cl].pending.commit = None
           /\ \A c \in wire : Author[c] = cl \/ c \in got[cl]
    /\ \A cl \in Clients : node[cl].mode = "Stable" => AdvanceNode(cl, node[cl]).n = node[cl]

\* Clients that have received the same commits are in the same group state,
\* whatever the order of arrival and whoever made the commits: fork recovery
\* at those who committed and convergence at the others choose alike.
Agreement == Quiet => \A a, b \in Clients : node[a].path = node[b].path

\* No client ends in a state only a human can repair (Recovering has no
\* repair but a better commit, Unrecoverable none).
NeverStuck == \A cl \in Clients : node[cl].mode \notin {"Recovering", "Unrecoverable"}

\* What the store says was applied is what the group state is made of, across
\* rollbacks that take the message rows back with the group.
PathProcessed ==
    \A cl \in Clients : node[cl].mode = "Stable" =>
        \A c \in Commits : node[cl].rows[c].st = "Processed" <=> c \in Range(node[cl].path)

\* A state kept for an older epoch, as an anchor or to undo the commit that
\* left it, is one the client's present state descends from.  Rolling back to
\* any other would put the client on a branch it has abandoned.
KeptStatesAreAncestors ==
    \A cl \in Clients :
        LET n == node[cl]
        IN  /\ \A e \in DOMAIN n.anchors : e < Len(n.path) =>
                   n.anchors[e].path = SubSeq(n.path, 1, e)
            /\ \A e \in DOMAIN n.wins :
                   /\ e < Len(n.path)
                   /\ Append(n.wins[e].snap.path, n.wins[e].commit) = SubSeq(n.path, 1, e + 1)

\* p is given up for q rightly: q has the lower commit where they part.
Preferred(q, p) ==
    LET part == Min({i \in 1 .. Len(p) : i > Len(q) \/ q[i] # p[i]})
    IN  part <= Len(q) /\ q[part] < p[part]

\* A client takes back a commit it has applied only for a branch whose first
\* commit is lower, its own confirmed commits included.
LeavesOnlyForLower ==
    \A cl \in Clients :
        LET p == node[cl].path
            q == node'[cl].path
        IN  IsPrefix(p, q) \/ Preferred(q, p)

\* A client that has received everything and has nothing left to retry can
\* send: its messages do not stay in the queue for good.
SendsUnblocked ==
    Quiet => \A cl \in Clients :
        node[cl].mode = "Stable" => AdvanceNode(cl, node[cl]).settled

\* A message that cannot be opened yet stays stored until it is opened.
DeferredKept ==
    \A cl \in Clients :
        \A i \in DOMAIN node[cl].raw :
            LET r == node[cl].raw[i]
            IN  r.st = "PeelDeferred" =>
                    HasRaw(node'[cl].raw, r.c) \/ node'[cl].rows[r.c].st # "None"

\* What a group state is made of is recorded as applied, through failed
\* publishes, rollbacks and restarts.
AppliedIsRecorded ==
    \A cl \in Clients : \A c \in Range(node[cl].path) : node[cl].rows[c].st = "Processed"

\* What a group state is made of has been published: no client applies what
\* the rest of the group cannot see, its own commits included.
AppliedIsPublished == \A cl \in Clients : Range(node[cl].path) \subseteq wire

\* A kept state is of the epoch it is kept under, whatever branch it is of:
\* what is rolled back to is the epoch the decision was made for.
KeptUnderTheirEpoch ==
    \A cl \in Clients :
        /\ \A e \in DOMAIN node[cl].anchors : Len(node[cl].anchors[e].path) = e
        /\ \A e \in DOMAIN node[cl].wins :
               node[cl].wins[e].snap.path = base[node[cl].wins[e].commit]
                   /\ Len(node[cl].wins[e].snap.path) = e

\* When nothing is in flight all clients are in one group state, and none of
\* them still holds its sends back.
QuietAgreed == Agreement /\ SendsUnblocked

\* A client is never stuck in recovery; its rows are those of its path, and
\* the states it keeps are ancestors of it.
NodesSound == NeverStuck /\ PathProcessed /\ KeptStatesAreAncestors

\* A step leaves a path only for a preferred one and forgets no deferred
\* message.
StepsSound == [][LeavesOnlyForLower /\ DeferredKept]_node

\* Under faults too: what is applied is published, and the states kept for
\* recovery are of the epoch they are kept under.
AppliedSound == AppliedIsPublished /\ KeptUnderTheirEpoch
=============================================================================
