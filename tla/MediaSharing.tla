---------------------------- MODULE MediaSharing ----------------------------
(***************************************************************************)
(* Encrypted media in a group (crates/marmot-app: media/, client/mod.rs,   *)
(* client/sync.rs; crates/traits: app_components/encrypted_media.rs).  A   *)
(* file is encrypted with a secret of the group's epoch, put on one of the *)
(* blob servers the group's policy names, and a message carries the        *)
(* reference.  The reference does not name the epoch: a receiver takes the *)
(* epoch of the message, needs the secret of that epoch, which it only has *)
(* if it cached it in time, and asks one server after the other.           *)
(*                                                                         *)
(* "s" sends and "r" receives.  A ciphertext is the number of its upload;  *)
(* it opens with the epoch, the name and the media type it was sealed with.*)
(***************************************************************************)
EXTENDS Integers, Sequences, FiniteSets, SequencesExt

CONSTANTS
  MdHosts,      \* host -> domain, and class: public, loopback, or hidden (resolves to a private address)
  MdPolicy,     \* the first policy
  MdPlans,      \* what may happen in a behaviour
  MdDefault,    \* DEFAULT_BLOSSOM_SERVER_URL
  MdLoopback,   \* may loopback endpoints be used (a test build)
  MdHops,       \* BLOSSOM_REDIRECT_LIMIT
  MdCommits, MdDownloads  \* bounds

VARIABLES
  mdPlan,     \* chosen at the start
  mdEpoch,    \* client -> epoch of its group
  mdPolicies, \* policy of each epoch
  mdSecrets,  \* client -> epochs whose media secret is stored
  mdFeed,     \* what was published, in order
  mdPos,      \* how much of it the receiver has processed
  mdLate,     \* messages the receiver has yet to get
  mdGot,      \* media messages the receiver took
  mdTook,     \* <<host, ciphertext>> pairs a server took
  mdSealed,   \* ciphertext -> what it was sealed with
  mdUp,       \* the upload in progress
  mdRefs,     \* references uploaded
  mdQueue,    \* media messages the engine holds back
  mdDown,     \* the download in progress
  mdImages,   \* image of each epoch, 0 for none
  mdAsked     \* hosts requests were made to

mdVars == <<mdEpoch, mdPolicies, mdSecrets, mdFeed, mdPos, mdLate, mdGot, mdTook, mdSealed,
            mdUp, mdRefs, mdQueue, mdDown, mdImages, mdAsked, mdPlan>>

MdReceiving == <<mdPos, mdLate, mdGot>>

(***************************************************************************)
(* The policy of a group.                                                  *)
(***************************************************************************)
\* normalize_locator_kind and the serialised form of a URL.
Normal(e) == [e EXCEPT !.form = "normal"]

\* validate_and_normalize_blob_endpoint_url
EndpointUrlValid(host, loopback) ==
  MdHosts[host].class # "loopback" \/ loopback

\* The first of equal entries is kept.
EachOfThem(es) == es
FirstOfEach(es) == FoldLeft(LAMBDA kept, e : IF e \in ToSet(kept) THEN kept ELSE Append(kept, e), <<>>, es)

\* EncryptedMediaPolicyV1::new, as replace_encrypted_media_blob_endpoints calls it.
NewPolicy(endpoints) ==
  LET es == FirstOfEach([i \in DOMAIN endpoints |-> Normal(endpoints[i])])
  IN [kinds |-> {es[i].kind : i \in DOMAIN es}, endpoints |-> es]

PolicyRefused(endpoints) ==
  \/ endpoints = <<>>
  \/ \E i \in DOMAIN endpoints : ~EndpointUrlValid(endpoints[i].host, TRUE)

\* decode_encrypted_media_policy_v1 repairs nothing.
DecodesPolicy(p) ==
  /\ p.kinds # {} /\ p.endpoints # <<>>
  /\ \A i \in DOMAIN p.endpoints :
       /\ p.endpoints[i].kind \in p.kinds
       /\ EndpointUrlValid(p.endpoints[i].host, TRUE) /\ p.endpoints[i].form = "normal"
       /\ \A j \in DOMAIN p.endpoints : p.endpoints[i] = p.endpoints[j] => i = j

PolicyOf(c) == mdPolicies[mdEpoch[c]]

\* locator_kind_allowed
KindAllowed(kind, policy) == kind \in policy.kinds

(***************************************************************************)
(* References, and the imeta tags that carry them.                         *)
(***************************************************************************)
\* validate_blossom_fetch_url
FetchUrlValid(host) == EndpointUrlValid(host, MdLoopback)

\* media_http_client_for_url: the host must also resolve to addresses that may be used.
ConnectsByName(host) == FetchUrlValid(host)
Connects(host) == FetchUrlValid(host) /\ MdHosts[host].class # "hidden"

\* MediaAttachmentReference::validate
ReferenceValid(ref) ==
  /\ ref.locators # <<>> /\ ref.name # ""
  /\ \A i \in DOMAIN ref.locators :
       ref.locators[i].kind = "blossom" =>
         FetchUrlValid(ref.locators[i].host) /\ ref.locators[i].hash = ref.cipher

\* validate_outbound
OutboundStructural(ref, policy) == ReferenceValid(ref)
OutboundValid(ref, policy) ==
  ReferenceValid(ref) /\ \A i \in DOMAIN ref.locators : KindAllowed(ref.locators[i].kind, policy)

\* imeta_tag: a tag holds any number of each field.
ImetaTag(ref) == [locators |-> ref.locators, cipher |-> <<ref.cipher>>, plain |-> <<ref.plain>>,
                  name |-> <<ref.name>>, type |-> <<ref.type>>]

\* media_attachment_from_imeta_tag: each single field exactly once, and a valid result.
Once(tag) == \A f \in {"cipher", "plain", "name", "type"} : Len(tag[f]) = 1
FromImetaTag(tag, epoch) ==
  [locators |-> tag.locators, cipher |-> tag.cipher[1], plain |-> tag.plain[1],
   name |-> tag.name[1], type |-> tag.type[1], epoch |-> epoch]

\* media_imeta_tags_are_valid
TagsInPolicy(tags) ==
  tags # <<>> /\ \A i \in DOMAIN tags : Once(tags[i]) /\ OutboundValid(FromImetaTag(tags[i], 0), PolicyOf("r"))
TagsValid(tags) ==
  tags # <<>> /\ \A i \in DOMAIN tags : Once(tags[i]) /\ ReferenceValid(FromImetaTag(tags[i], 0))

\* canonical_media_type
CanonicalType(t) == IF t = "image/jpg" THEN "image/jpeg" ELSE t
Trimmed(name) == IF name = " a " THEN "a" ELSE name

\* derive_media_file_key and media_aad: everything the ciphertext is bound to.
FileKey(epoch, plain, type, name) == <<epoch, plain, type, name>>

(***************************************************************************)
(* Secrets of epochs.                                                      *)
(***************************************************************************)
\* remember_encrypted_media_epoch_secret
RememberSecret(c, epochs) == mdSecrets' = [mdSecrets EXCEPT ![c] = @ \cup epochs]

\* sync_runtime_groups stores the secret of the epoch every group is in.
SyncGroups(c) ==
  /\ mdEpoch[c] \notin mdSecrets[c]
  /\ RememberSecret(c, {mdEpoch[c]})
  /\ UNCHANGED <<mdEpoch, mdPolicies, mdFeed, MdReceiving, mdTook, mdSealed, mdUp, mdRefs, mdQueue,
                 mdDown, mdImages, mdAsked, mdPlan>>

(***************************************************************************)
(* Sending.  The client is busy with an upload until it has ended.         *)
(***************************************************************************)
NoUpload == [st |-> "idle", epoch |-> 0, servers |-> <<>>, policy |-> MdPolicy, name |-> "", type |-> ""]

\* upload_media: the servers of the policy this build may use.
UploadServers(policy) ==
  LET usable == SelectSeq(policy.endpoints, LAMBDA e : e.kind = "blossom"
                                            /\ (MdLoopback \/ MdHosts[e.host].class # "loopback"))
  IN [i \in DOMAIN usable |-> usable[i].host]

\* The file is sealed under the name and type that the reference will carry.
SealedAsTyped(epoch, plain, type, name) == FileKey(epoch, plain, CanonicalType(type), name)
Sealed(epoch, plain, type, name) == FileKey(epoch, plain, CanonicalType(type), Trimmed(name))

UploadMedia(name, type) ==
  /\ mdUp.st = "idle" /\ Len(mdSealed) < mdPlan.uploads /\ Trimmed(name) # ""
  /\ KindAllowed("blossom", PolicyOf("s")) /\ UploadServers(PolicyOf("s")) # <<>>
  /\ RememberSecret("s", {mdEpoch["s"]})
  /\ mdUp' = [st |-> "put", epoch |-> mdEpoch["s"], servers |-> UploadServers(PolicyOf("s")),
              policy |-> PolicyOf("s"), name |-> Trimmed(name), type |-> CanonicalType(type)]
  /\ mdSealed' = Append(mdSealed, Sealed(mdEpoch["s"], Len(mdSealed) + 1, type, name))
  /\ UNCHANGED <<mdEpoch, mdPolicies, mdFeed, MdReceiving, mdTook, mdRefs, mdQueue, mdDown, mdImages,
                 mdAsked, mdPlan>>

\* The reference to the newest ciphertext, at the place a server named.
NewReference(host) ==
  [locators |-> <<[kind |-> "blossom", host |-> host, hash |-> Len(mdSealed)]>>,
   cipher |-> Len(mdSealed), plain |-> Len(mdSealed), name |-> mdUp.name, type |-> mdUp.type,
   epoch |-> mdUp.epoch]

\* upload_blossom_blob: what counts as stored.  The answer may name another host.
AnyStatus(answer) == answer \in {"stored", "refused"}
Stored(answer) == answer = "stored"

Asks(host) == mdAsked' = IF Connects(host) THEN mdAsked \cup {host} ELSE mdAsked
TakesBlob(host, answer, named) ==
  mdTook' = IF Connects(host) /\ answer = "stored"
            THEN mdTook \cup {<<host, Len(mdSealed)>>, <<named, Len(mdSealed)>>} ELSE mdTook

\* upload_blossom_blob_with_fallback: one server.
PutBlob(answer, named) ==
  LET host == Head(mdUp.servers) IN
  /\ mdUp.st = "put"
  /\ Asks(host) /\ TakesBlob(host, answer, named)
  /\ \/ /\ Connects(host) /\ Stored(answer)
        /\ mdUp' = NoUpload
        /\ mdRefs' = mdRefs \cup {ref \in {NewReference(named)} : OutboundValid(ref, mdUp.policy)}
     \/ /\ ~(Connects(host) /\ Stored(answer))
        /\ mdUp' = IF Len(mdUp.servers) = 1 THEN NoUpload ELSE [mdUp EXCEPT !.servers = Tail(@)]
        /\ UNCHANGED mdRefs
  /\ UNCHANGED <<mdEpoch, mdPolicies, mdSecrets, mdFeed, MdReceiving, mdSealed, mdQueue, mdDown, mdImages, mdPlan>>

\* The cross-attachment check of build_inner_event.
AnyEpochs(refs) == TRUE
ShareEpoch(refs) == \A a, b \in refs : a.epoch = b.epoch

MediaMessage(refs, epoch) ==
  [type |-> "media", tags |-> [i \in DOMAIN SetToSeq(refs) |-> ImetaTag(SetToSeq(refs)[i])],
   epoch |-> epoch, of |-> {r.epoch : r \in refs}, policy |-> PolicyOf("s")]

\* send_media_attachments: published at once, or held back by the engine.
SendMediaAttachments(refs, held) ==
  /\ refs # {} /\ refs \subseteq mdRefs /\ mdUp.st = "idle"
  /\ \A r \in refs : OutboundValid(r, PolicyOf("s"))
  /\ ShareEpoch(refs)
  /\ mdRefs' = mdRefs \ refs
  /\ IF held THEN mdQueue' = Append(mdQueue, MediaMessage(refs, 0)) /\ UNCHANGED mdFeed
             ELSE mdFeed' = Append(mdFeed, MediaMessage(refs, mdEpoch["s"])) /\ UNCHANGED mdQueue
  /\ RememberSecret("s", {mdEpoch["s"]})
  /\ UNCHANGED <<mdEpoch, mdPolicies, MdReceiving, mdTook, mdSealed, mdUp, mdDown, mdImages, mdAsked, mdPlan>>

\* The engine publishes a message it held back, in the epoch the group is in by then.
PublishHeld ==
  /\ mdQueue # <<>> /\ mdUp.st = "idle"
  /\ mdFeed' = Append(mdFeed, [Head(mdQueue) EXCEPT !.epoch = mdEpoch["s"]])
  /\ mdQueue' = Tail(mdQueue)
  /\ UNCHANGED <<mdEpoch, mdPolicies, mdSecrets, MdReceiving, mdTook, mdSealed, mdUp, mdRefs, mdDown,
                 mdImages, mdAsked, mdPlan>>

\* A commit of the sender's group.
Commits(policy, image) ==
  /\ Len(mdPolicies) <= MdCommits
  /\ mdPolicies' = Append(mdPolicies, policy) /\ mdImages' = Append(mdImages, image)
  /\ mdFeed' = Append(mdFeed, [type |-> "commit"])
  /\ mdEpoch' = [mdEpoch EXCEPT !["s"] = @ + 1]

\* Any other commit.
OtherCommit ==
  /\ mdUp.st = "idle" /\ Commits(PolicyOf("s"), mdImages[mdEpoch["s"]])
  /\ UNCHANGED <<mdSecrets, MdReceiving, mdTook, mdSealed, mdUp, mdRefs, mdQueue, mdDown, mdAsked, mdPlan>>

ReplaceBlobEndpoints(endpoints) ==
  /\ mdUp.st = "idle" /\ ~PolicyRefused(endpoints)
  /\ RememberSecret("s", {mdEpoch["s"]})
  /\ Commits(NewPolicy(endpoints), mdImages[mdEpoch["s"]])
  /\ UNCHANGED <<MdReceiving, mdTook, mdSealed, mdUp, mdRefs, mdQueue, mdDown, mdAsked, mdPlan>>

\* update_group_image: the blob first, to the default server only.
UpdateGroupImage ==
  /\ mdPlan.image /\ mdUp.st = "idle" /\ Len(mdSealed) < mdPlan.uploads
  /\ RememberSecret("s", {mdEpoch["s"]})
  /\ mdUp' = [NoUpload EXCEPT !.st = "image", !.servers = <<MdDefault>>]
  /\ mdSealed' = Append(mdSealed, <<"image">>)
  /\ UNCHANGED <<mdEpoch, mdPolicies, mdFeed, MdReceiving, mdTook, mdRefs, mdQueue, mdDown, mdImages,
                 mdAsked, mdPlan>>

\* Then the commit, which may fail and leave the blob behind.
PutImage(answer, committed) ==
  /\ mdUp.st = "image" /\ mdUp' = NoUpload
  /\ Asks(MdDefault) /\ TakesBlob(MdDefault, answer, MdDefault)
  /\ IF Connects(MdDefault) /\ Stored(answer) /\ committed
     THEN Commits(PolicyOf("s"), Len(mdSealed))
     ELSE UNCHANGED <<mdPolicies, mdImages, mdFeed, mdEpoch>>
  /\ UNCHANGED <<mdSecrets, MdReceiving, mdSealed, mdRefs, mdQueue, mdDown, mdPlan>>

ClearGroupImage ==
  /\ mdPlan.image /\ mdUp.st = "idle" /\ mdImages[mdEpoch["s"]] # 0
  /\ RememberSecret("s", {mdEpoch["s"]})
  /\ Commits(PolicyOf("s"), 0)
  /\ UNCHANGED <<MdReceiving, mdTook, mdSealed, mdUp, mdRefs, mdQueue, mdDown, mdAsked, mdPlan>>

\* Another build sends a media message.
ForeignMessage(tag) ==
  /\ \A i \in DOMAIN mdFeed : mdFeed[i].type = "media" => mdFeed[i].of # {0}
  /\ mdFeed' = Append(mdFeed, [type |-> "media", tags |-> <<tag>>, epoch |-> mdEpoch["s"], of |-> {0},
                               policy |-> PolicyOf("s")])
  /\ UNCHANGED <<mdEpoch, mdPolicies, mdSecrets, MdReceiving, mdTook, mdSealed, mdUp, mdRefs, mdQueue,
                 mdDown, mdImages, mdAsked, mdPlan>>

(***************************************************************************)
(* Receiving.                                                              *)
(***************************************************************************)
\* ingest_delivery of a media message, in the epoch the receiver is in.
RememberLater(msg) == {}
RememberAtIngest(msg) == IF TagsValid(msg.tags) THEN {mdEpoch["r"]} ELSE {}

TakeMessage(msg) ==
  /\ RememberSecret("r", RememberAtIngest(msg))
  /\ mdGot' = IF TagsValid(msg.tags) THEN mdGot \cup {[msg |-> msg, at |-> mdEpoch["r"]]} ELSE mdGot

IngestNext ==
  /\ mdPos < Len(mdFeed) /\ mdDown.st = "idle"
  /\ mdPos' = mdPos + 1
  /\ LET msg == mdFeed[mdPos + 1] IN
     \/ /\ msg.type = "commit" /\ mdEpoch' = [mdEpoch EXCEPT !["r"] = @ + 1]
        /\ UNCHANGED <<mdSecrets, mdGot, mdLate>>
     \/ msg.type = "media" /\ TakeMessage(msg) /\ UNCHANGED <<mdEpoch, mdLate>>
     \/ msg.type = "media" /\ mdLate' = mdLate \cup {msg} /\ UNCHANGED <<mdEpoch, mdSecrets, mdGot>>
  /\ UNCHANGED <<mdPolicies, mdFeed, mdTook, mdSealed, mdUp, mdRefs, mdQueue, mdDown, mdImages, mdAsked, mdPlan>>

\* A relay delivers a message after the commits that followed it.
IngestLate(msg) ==
  /\ msg \in mdLate /\ mdDown.st = "idle"
  /\ mdLate' = mdLate \ {msg} /\ TakeMessage(msg)
  /\ UNCHANGED <<mdEpoch, mdPolicies, mdFeed, mdPos, mdTook, mdSealed, mdUp, mdRefs, mdQueue, mdDown,
                 mdImages, mdAsked, mdPlan>>

\* encrypted_media_secret_for_epoch
SecretFor(c, epoch) == epoch \in mdSecrets[c] \cup {mdEpoch[c]}

\* fetch_encrypted_media_blob: the places to ask, in order.
Candidates(ref, policy) ==
  LET named == SelectSeq(ref.locators, LAMBDA l : l.kind = "blossom")
      fallback == SelectSeq(policy.endpoints, LAMBDA e : e.kind = "blossom")
      all == [i \in DOMAIN named |-> named[i].host] \o [i \in DOMAIN fallback |-> fallback[i].host]
      apart == [i \in DOMAIN all |-> IF i > 1 /\ all[i] = all[i - 1] THEN "" ELSE all[i]]
  IN SelectSeq(apart, LAMBDA h : h # "" /\ (MdLoopback \/ MdHosts[h].class # "loopback"))

NoDownload == [st |-> "idle", msg |-> [of |-> {}], ref |-> <<>>, hosts |-> <<>>, host |-> "", hops |-> 0, n |-> 0]

Starts(msg, ref, hosts) ==
  /\ mdDown.st = "idle" /\ mdDown.n < MdDownloads /\ hosts # <<>>
  /\ mdDown' = [st |-> "get", msg |-> msg, ref |-> ref, hosts |-> Tail(hosts), host |-> Head(hosts),
                hops |-> 0, n |-> mdDown.n + 1]
  /\ RememberSecret("r", {mdEpoch["r"]})
  /\ UNCHANGED <<mdEpoch, mdPolicies, mdFeed, MdReceiving, mdTook, mdSealed, mdUp, mdRefs, mdQueue,
                 mdImages, mdAsked, mdPlan>>

\* download_media, until the first request.
DownloadMedia(got, tag) ==
  LET ref == FromImetaTag(tag, got.msg.epoch) IN
  /\ SecretFor("r", ref.epoch) /\ KindAllowed("blossom", PolicyOf("r"))
  /\ Starts(got.msg, ref, Candidates(ref, PolicyOf("r")))

\* download_group_image: everything needed is in the group's state.
DownloadGroupImage ==
  LET image == mdImages[mdEpoch["r"]] IN
  image # 0 /\ Starts([of |-> {}, epoch |-> 0], [cipher |-> image], <<MdDefault>>)

\* The hash, the nonce and everything the key is made of come from the reference.
Opens(ref) ==
  \/ "epoch" \notin DOMAIN ref
  \/ mdSealed[ref.cipher] = FileKey(ref.epoch, ref.plain, CanonicalType(ref.type), ref.name)

\* The next candidate, or the end.
NextHost == IF mdDown.hosts = <<>> THEN [mdDown EXCEPT !.st = "failed"]
            ELSE [mdDown EXCEPT !.host = Head(mdDown.hosts), !.hosts = Tail(@), !.hops = 0]

\* validate_blossom_redirect_target: a target that may be fetched, on the same domain.
RedirectAllowed(target) == FetchUrlValid(target) /\ MdHosts[target].domain = MdHosts[mdDown.host].domain

\* fetch_blossom_blob, and what download_encrypted_media makes of the bytes.
GetBlob(answer, target) ==
  /\ mdDown.st = "get" /\ Asks(mdDown.host)
  /\ \/ /\ ~Connects(mdDown.host) \/ answer = "refused"
        /\ mdDown' = NextHost
     \/ /\ Connects(mdDown.host) /\ answer = "redirect"
        /\ mdDown' = IF mdDown.hops < MdHops /\ RedirectAllowed(target)
                     THEN [mdDown EXCEPT !.host = target, !.hops = @ + 1] ELSE NextHost
     \/ /\ Connects(mdDown.host) /\ answer = "junk"
        /\ mdDown' = [mdDown EXCEPT !.st = "mismatch"]
     \/ /\ Connects(mdDown.host) /\ answer = "blob" /\ <<mdDown.host, mdDown.ref.cipher>> \in mdTook
        /\ mdDown' = [mdDown EXCEPT !.st = IF Opens(mdDown.ref) THEN "opened" ELSE "sealed"]
  /\ UNCHANGED <<mdEpoch, mdPolicies, mdSecrets, mdFeed, MdReceiving, mdTook, mdSealed, mdUp, mdRefs,
                 mdQueue, mdImages, mdPlan>>

DownloadEnds ==
  /\ mdDown.st \in {"opened", "sealed", "mismatch", "failed"} /\ mdDown' = [NoDownload EXCEPT !.n = mdDown.n]
  /\ UNCHANGED <<mdEpoch, mdPolicies, mdSecrets, mdFeed, MdReceiving, mdTook, mdSealed, mdUp, mdRefs,
                 mdQueue, mdImages, mdAsked, mdPlan>>

(***************************************************************************)
MdInit ==
  /\ mdPlan \in MdPlans
  /\ mdEpoch = [c \in {"s", "r"} |-> 1] /\ mdPolicies = <<MdPolicy>> /\ mdImages = <<0>>
  /\ mdSecrets = [c \in {"s", "r"} |-> {}]
  /\ mdFeed = <<>> /\ mdPos = 0 /\ mdLate = {} /\ mdGot = {} /\ mdTook = {} /\ mdSealed = <<>>
  /\ mdUp = NoUpload /\ mdRefs = {} /\ mdQueue = <<>> /\ mdDown = NoDownload /\ mdAsked = {}

\* The host and its answer matter only where they are looked at.
MdNext ==
  \/ \E c \in mdPlan.syncs : SyncGroups(c)
  \/ \E name \in mdPlan.names : UploadMedia(name, "image/jpg")
  \/ \E answer \in {"stored", "refused"}, named \in mdPlan.named : PutBlob(answer, named)
  \/ \E refs \in SUBSET mdRefs, held \in mdPlan.held : SendMediaAttachments(refs, held)
  \/ PublishHeld
  \/ mdPlan.others /\ OtherCommit
  \/ \E endpoints \in mdPlan.endpoints : ReplaceBlobEndpoints(endpoints)
  \/ UpdateGroupImage \/ ClearGroupImage
  \/ \E answer \in {"stored", "refused"}, committed \in BOOLEAN : PutImage(answer, committed)
  \/ \E tag \in mdPlan.foreign : ForeignMessage(tag)
  \/ IngestNext
  \/ \E msg \in mdLate : IngestLate(msg)
  \/ \E got \in mdGot : \E i \in DOMAIN got.msg.tags : DownloadMedia(got, got.msg.tags[i])
  \/ DownloadGroupImage
  \/ \E answer \in {"blob", "junk", "refused"} : GetBlob(answer, mdDown.host)
  \/ \E target \in DOMAIN MdHosts : GetBlob("redirect", target)
  \/ DownloadEnds

MdSpec == MdInit /\ [][MdNext]_mdVars

MdTypeOK ==
  /\ mdEpoch["r"] <= mdEpoch["s"] /\ mdEpoch["s"] <= MdCommits + 1
  /\ mdSecrets \in [{"s", "r"} -> SUBSET (1..(MdCommits + 1))]
  /\ mdPos <= Len(mdFeed) /\ Len(mdImages) = Len(mdPolicies)
  /\ mdUp.st \in {"idle", "put", "image"}
  /\ mdDown.st \in {"idle", "get", "opened", "sealed", "mismatch", "failed"}

(***************************************************************************)
(* A media message taken in the epoch it was sent in stays readable: its   *)
(* secret was stored before the group moved on, however many commits and   *)
(* messages arrive in one go (remember_current_encrypted_media_secret).    *)
(***************************************************************************)
MediaStaysReadable == \A g \in mdGot : g.at = g.msg.epoch => SecretFor("r", g.msg.epoch)

(***************************************************************************)
(* When the bytes of a reference arrive, they open, whatever name and      *)
(* media type the sender typed, unless the message went out in a later     *)
(* epoch than the file was sealed in, or another build made it.            *)
(***************************************************************************)
DownloadsOpen == mdDown.st = "sealed" => mdDown.msg.of # {mdDown.msg.epoch}

(***************************************************************************)
(* What a client sends, a client accepts, whatever became of the policy    *)
(* since (media_imeta_tags_are_valid), and all its files are of one epoch, *)
(* since a receiver has only the message's epoch to go by.                 *)
(***************************************************************************)
SentIsAccepted ==
  \A i \in 1..Len(mdFeed) : mdFeed[i].type = "media" /\ mdFeed[i].of # {0} =>
    TagsValid(mdFeed[i].tags) /\ Cardinality(mdFeed[i].of) = 1

(***************************************************************************)
(* A message goes out only with references the policy allows, and each of  *)
(* them names a place where a server took that very ciphertext.            *)
(***************************************************************************)
SentIsStored ==
  \A i \in 1..Len(mdFeed) : mdFeed[i].type = "media" /\ mdFeed[i].of # {0} =>
    \A j \in DOMAIN mdFeed[i].tags : \A k \in DOMAIN mdFeed[i].tags[j].locators :
      LET l == mdFeed[i].tags[j].locators[k] IN
        KindAllowed(l.kind, mdFeed[i].policy) /\ <<l.host, mdFeed[i].tags[j].cipher[1]>> \in mdTook

(***************************************************************************)
(* No commit carries a policy that the members would refuse to decode.     *)
(***************************************************************************)
PoliciesDecode == \A e \in DOMAIN mdPolicies : DecodesPolicy(mdPolicies[e])

(***************************************************************************)
(* Requests are made only to hosts this build may use, whatever the policy *)
(* and the references of other members name, and wherever a server sends   *)
(* the client on to (validate_blossom_fetch_url).                          *)
(***************************************************************************)
OnlyUsableHosts ==
  \A h \in mdAsked : MdHosts[h].class = "public" \/ (MdLoopback /\ MdHosts[h].class = "loopback")

(***************************************************************************)
(* The image a group's state names was taken by the default server, the    *)
(* only place where members look for it (update_group_image).              *)
(***************************************************************************)
ImageStored == \A e \in DOMAIN mdImages : mdImages[e] # 0 => <<MdDefault, mdImages[e]>> \in mdTook

=============================================================================
