---------------------------- MODULE PackExchange ----------------------------
(***************************************************************************)
(* The resource-pack exchange of one upstream dial: connectUpstream with   *)
(* its urlResourcePackCache, RecordResourcePacks, and RunPacksOnly.        *)
(*                                                                         *)
(* Three kinds of goroutine share the cache.  The reader of gophertunnel's *)
(* connection observes ResourcePacksInfo and fetches the URL packs before  *)
(* it handles the packet; a goroutine per chunk pack appends the archive   *)
(* to the connection's list and only afterwards stores it in the cache;    *)
(* the main goroutine waits in the dial, merges the list with the cache    *)
(* and records what it got.                                                *)
(***************************************************************************)
EXTENDS Integers, FiniteSets, SequencesExt

CONSTANTS
    Keys,       \* what a server can advertise: records with uuid and version
    Other,      \* the key of an archive that is not what was advertised
    Encrypted,  \* the keys that come with a content key
    Offers,     \* the ResourcePacksInfo lists a server may send
    Later,      \* bound: the ones of them it may send after the first
    Workers,    \* urlResourcePackDownloadConcurrency
    MaxInfos,   \* bound: ResourcePacksInfo packets on one connection
    Modes       \* configurations: records with decrypt and packsOnly

ASSUME PackAssumption ==
    /\ Encrypted \subseteq Keys
    /\ Other \notin Keys
    /\ Workers \in Nat \ {0}
    /\ MaxInfos \in Nat
    /\ Later \subseteq Offers
    /\ Offers \subseteq Seq([key : Keys, url : BOOLEAN])

(***************************************************************************)
(* A pack is its key and how it came: with the URL it was fetched from, or *)
(* as chunks.  The key stands for UUID, version and size.                  *)
(***************************************************************************)
Packs == [key : Keys \cup {Other}, http : BOOLEAN]

VARIABLES
    mode,       \* the configuration of this run
    \* urlResourcePackCache
    packs,      \* per key: "none", "http" or "chunk"
    packOrder, offerOrder, errors, observed,
    \* the connection's reader
    rpc,        \* "idle", "fetching", "handling"
    info,       \* the list it works on
    infos,      \* how many it has seen
    jobs,       \* the keys to fetch, in the order of the list
    results,    \* per job: "todo", "got", "failed"
    \* the connection
    conn,       \* "none", "dialing", "ready" (the stack was handled), "closed"
    handled,    \* a ResourcePacksInfo was handled
    existing,   \* Conn.resourcePacks
    chunks,     \* per key: "none", "asked", "arrived", "settled", "broken"
    \* the main goroutine
    mpc, merged, next, parent, delivery,
    dialDone,   \* dialCtx is done
    limited,    \* the keys a limitation was added for
    held,       \* history: the keys in the cache when Merge read it
    log         \* the capture's events, in sequence

cacheVars  == <<packs, packOrder, offerOrder, errors, observed>>
readerVars == <<rpc, info, infos, jobs, results>>
connVars   == <<handled, existing, chunks>>
mainVars   == <<mpc, merged, next, parent, delivery, dialDone, limited, held>>
vars == <<mode, cacheVars, readerVars, conn, connVars, mainVars, log>>

Event(kind, key, of) == [kind |-> kind, key |-> key, parent |-> of]
Plain(kind) == Event(kind, Other, 0)

Events == [kind : {"dial_start", "dial_error", "packet.raw", "archive", "contents_manifest",
                   "decrypted_archive", "decrypt_error", "connected", "fetch_complete",
                   "session.close"},
           key : Keys \cup {Other}, parent : Nat]

TypeOK ==
    /\ mode \in Modes
    /\ packs \in [Keys -> {"none", "http", "chunk"}]
    /\ packOrder \in Seq(Keys) /\ offerOrder \in Seq(Keys)
    /\ errors \subseteq Keys /\ observed \subseteq Keys
    /\ rpc \in {"idle", "fetching", "handling"}
    /\ info \in Offers \cup {<<>>} /\ infos \in 0..MaxInfos
    /\ jobs \in Seq(Keys) /\ results \in Seq({"todo", "got", "failed"})
    /\ conn \in {"none", "dialing", "ready", "closed"}
    /\ handled \in BOOLEAN /\ existing \in Seq(Packs)
    /\ chunks \in [Keys -> {"none", "asked", "arrived", "settled", "broken"}]
    /\ mpc \in {"dial", "merge", "archive", "derive", "manifest", "limitation",
                "prepare", "connect", "complete", "close", "returned", "failed"}
    /\ merged \in Seq(Packs) /\ delivery \in Seq(Packs)
    /\ next \in Nat \ {0} /\ parent \in 0..Len(log)
    /\ dialDone \in BOOLEAN /\ limited \subseteq Keys /\ held \subseteq Keys
    /\ log \in Seq(Events)

Init ==
    /\ mode \in Modes
    /\ packs = [k \in Keys |-> "none"]
    /\ packOrder = <<>> /\ offerOrder = <<>> /\ errors = {} /\ observed = {}
    /\ rpc = "idle" /\ info = <<>> /\ infos = 0 /\ jobs = <<>> /\ results = <<>>
    /\ conn = "none" /\ handled = FALSE /\ existing = <<>>
    /\ chunks = [k \in Keys |-> "none"]
    /\ mpc = "dial" /\ merged = <<>> /\ next = 1 /\ parent = 0 /\ delivery = <<>>
    /\ dialDone = FALSE /\ limited = {} /\ held = {}
    /\ log = <<Plain("dial_start")>>

-----------------------------------------------------------------------------
(***************************************************************************)
(* The connection.  The dialer opens it and starts its reader; the server  *)
(* or the network may end it at any time.                                  *)
(***************************************************************************)

OpenConnection ==
    /\ mpc = "dial" /\ conn = "none"
    /\ conn' = "dialing"
    /\ UNCHANGED <<mode, cacheVars, readerVars, connVars, mainVars, log>>

ConnectionEnds ==
    /\ conn \in {"dialing", "ready"}
    /\ conn' = "closed"
    /\ UNCHANGED <<mode, cacheVars, readerVars, connVars, mainVars, log>>

(***************************************************************************)
(* The reader: PacketFunc records the packet, then calls Observe; when it  *)
(* returns, gophertunnel handles the packet.  After the stack it waits for *)
(* the caller of connectUpstream, which resumes it in a session only.      *)
(***************************************************************************)

Reading ==
    /\ rpc = "idle"
    /\ conn = "dialing" \/ (conn = "ready" /\ mpc = "returned" /\ ~mode.packsOnly)

KeysOf(offer) == [i \in DOMAIN offer |-> offer[i].key]

(* The URL keys of a list that were not observed before, each once. *)
NewJob(acc, e) ==
    IF e.url /\ e.key \notin observed \cup Range(acc) THEN Append(acc, e.key) ELSE acc

NewJobs(offer) == FoldLeft(NewJob, <<>>, offer)

Observe(offer) ==
    /\ Reading /\ infos < MaxInfos
    /\ infos > 0 => offer \in Later
    /\ infos' = infos + 1
    /\ log' = Append(log, Plain("packet.raw"))
    /\ offerOrder' = IF offerOrder = <<>> THEN KeysOf(offer) ELSE offerOrder
    /\ observed' = observed \cup {e.key : e \in {d \in Range(offer) : d.url}}
    /\ info' = offer
    /\ jobs' = NewJobs(offer)
    /\ results' = [i \in DOMAIN jobs' |-> "todo"]
    /\ rpc' = IF jobs' = <<>> THEN "handling" ELSE "fetching"
    /\ UNCHANGED <<mode, packs, packOrder, errors, conn, connVars, mainVars>>

(* A payload that does not decode is recorded and otherwise ignored. *)
ObserveMalformed ==
    /\ Reading /\ infos < MaxInfos
    /\ infos' = infos + 1
    /\ log' = Append(log, Plain("packet.raw"))
    /\ UNCHANGED <<mode, cacheVars, rpc, info, jobs, results, conn, connVars, mainVars>>

(* The jobs that workers hold: they take them in order, Workers at a time. *)
Running ==
    {i \in DOMAIN results :
        /\ results[i] = "todo"
        /\ Cardinality({j \in 1..(i - 1) : results[j] = "todo"}) < Workers}

(* The archive is there and matches the advertised key. *)
download(i) ==
    /\ rpc = "fetching" /\ i \in Running /\ ~dialDone
    /\ results' = [results EXCEPT ![i] = "got"]
    /\ UNCHANGED <<mode, cacheVars, rpc, info, infos, jobs, conn, connVars, mainVars, log>>

(* A bad URL, a size over the limit, a failed request, another archive, or
   the end of dialCtx. *)
downloadFails(i) ==
    /\ rpc = "fetching" /\ i \in Running
    /\ results' = [results EXCEPT ![i] = "failed"]
    /\ UNCHANGED <<mode, cacheVars, rpc, info, infos, jobs, conn, connVars, mainVars, log>>

(* The results enter the cache in the order of the jobs. *)
Got == {jobs[i] : i \in {j \in DOMAIN jobs : results[j] = "got"}}

AppendGot(order, k) == IF k \in Got THEN Append(order, k) ELSE order

CommitDownloads ==
    /\ rpc = "fetching" /\ \A i \in DOMAIN results : results[i] # "todo"
    /\ packs' = [k \in Keys |-> IF k \in Got THEN "http" ELSE packs[k]]
    /\ packOrder' = FoldLeft(AppendGot, packOrder, jobs)
    /\ errors' = errors \cup (Range(jobs) \ Got)
    /\ rpc' = "handling"
    /\ jobs' = <<>> /\ results' = <<>>
    /\ UNCHANGED <<mode, offerOrder, observed, info, infos, conn, connVars, mainVars, log>>

(* Load: an error is a miss, and so is a key the cache does not hold or a
   connection that has ended. *)
Load(key) == conn # "closed" /\ key \notin errors /\ packs[key] # "none"

Cached(key) == [key |-> key, http |-> packs[key] = "http"]

(***************************************************************************)
(* handleResourcePacksInfo of gophertunnel.  Per entry: a UUID that is     *)
(* already being downloaded is skipped, a cache hit joins the list, and    *)
(* everything else is asked for in chunks.                                 *)
(***************************************************************************)
Handle(acc, e) ==
    IF \E k \in acc.asked : k.uuid = e.key.uuid
      THEN acc
    ELSE IF Load(e.key)
      THEN [acc EXCEPT !.hits = Append(@, Cached(e.key))]
    ELSE [acc EXCEPT !.asked = @ \cup {e.key}]

Handled == FoldLeft(Handle, [hits |-> <<>>, asked |-> {}], info)

HandleInfo ==
    /\ rpc = "handling" /\ ~handled
    /\ existing' = Handled.hits
    /\ chunks' = [k \in Keys |-> IF k \in Handled.asked THEN "asked" ELSE "none"]
    /\ handled' = TRUE
    /\ rpc' = "idle" /\ info' = <<>>
    /\ UNCHANGED <<mode, cacheVars, infos, jobs, results, conn, mainVars, log>>

(* A later ResourcePacksInfo is not what the connection expects. *)
IgnoreInfo ==
    /\ rpc = "handling" /\ handled
    /\ rpc' = "idle" /\ info' = <<>>
    /\ UNCHANGED <<mode, cacheVars, infos, jobs, results, conn, connVars, mainVars, log>>

(* The last chunk of a pack arrived: the archive joins the list first. *)
ChunkArrives(k) ==
    /\ chunks[k] = "asked" /\ conn # "closed"
    /\ \/ /\ existing' = Append(existing, [key |-> k, http |-> FALSE])
          /\ chunks' = [chunks EXCEPT ![k] = "arrived"]
       \/ \* another UUID or version in its manifest: never stored
          /\ existing' = Append(existing, [key |-> Other, http |-> FALSE])
          /\ chunks' = [chunks EXCEPT ![k] = "settled"]
       \/ \* a wrong size or no archive: logged, and the dial waits on
          /\ chunks' = [chunks EXCEPT ![k] = "broken"]
          /\ UNCHANGED existing
    /\ UNCHANGED <<mode, cacheVars, readerVars, conn, handled, mainVars, log>>

(* Store supersedes an earlier URL failure of the key. *)
Store(k) ==
    /\ chunks[k] = "arrived" /\ conn # "closed"
    /\ chunks' = [chunks EXCEPT ![k] = "settled"]
    /\ packs' = [packs EXCEPT ![k] = "chunk"]
    /\ errors' = errors \ {k}
    /\ packOrder' = IF packs[k] = "none" THEN Append(packOrder, k) ELSE packOrder
    /\ UNCHANGED <<mode, offerOrder, observed, readerVars, conn, handled, existing, mainVars, log>>

(* Store refuses once the connection's context is done. *)
StoreRefused(k) ==
    /\ chunks[k] = "arrived" /\ conn = "closed"
    /\ chunks' = [chunks EXCEPT ![k] = "settled"]
    /\ UNCHANGED <<mode, cacheVars, readerVars, conn, handled, existing, mainVars, log>>

(* All packs are there and the reader handles the stack packet. *)
HandleStack ==
    /\ rpc = "idle" /\ conn = "dialing" /\ handled
    /\ \A k \in Keys : chunks[k] \notin {"asked", "broken"}
    /\ conn' = "ready"
    /\ UNCHANGED <<mode, cacheVars, readerVars, connVars, mainVars, log>>

-----------------------------------------------------------------------------
(***************************************************************************)
(* The main goroutine: connectUpstream.                                    *)
(***************************************************************************)

DialReturns ==
    /\ mpc = "dial" /\ conn = "ready"
    /\ mpc' = "merge"
    /\ UNCHANGED <<mode, cacheVars, readerVars, conn, connVars, merged, next, parent,
                   delivery, dialDone, limited, log, held>>

\* Faulty variant: the error is returned and the connection left open.
returnUpstreamError ==
    /\ mpc' = "failed"
    /\ dialDone' = TRUE
    /\ UNCHANGED <<mode, cacheVars, readerVars, conn, connVars, merged, next, parent,
                   delivery, held>>

(* An error return after the dial closes the connection; every return ends
   dialCtx. *)
closeAfterUpstreamError ==
    /\ mpc' = "failed"
    /\ conn' = "closed"
    /\ dialDone' = TRUE
    /\ UNCHANGED <<mode, cacheVars, readerVars, connVars, merged, next, parent, delivery, held>>

(* The dial fails, is cancelled or reaches upstreamDialTimeout; recording the
   error may fail as well.  Neither the dialer nor connectUpstream closes a
   connection that is open at that moment, and its reader goes on. *)
DialFails ==
    /\ mpc = "dial"
    /\ mpc' = "failed"
    /\ dialDone' = TRUE
    /\ log' \in {log, Append(log, Plain("dial_error"))}
    /\ UNCHANGED <<mode, cacheVars, readerVars, conn, connVars, merged, next, parent, delivery,
                   limited, held>>

(* Merge keeps the order of the offer.  For an offered key the cached pack is
   taken once, in place of one entry of the list. *)
Unused(acc, key) ==
    {i \in DOMAIN existing : i \notin acc.used /\ existing[i].key = key}

FirstUnused(acc, key) ==
    {i \in Unused(acc, key) : \A j \in Unused(acc, key) : i <= j}

\* Faulty variant: the list's own entry stays and is appended again.
MergeOfferedTwice(acc, key) ==
    IF packs[key] # "none" /\ key \notin acc.taken
      THEN [acc EXCEPT !.out = Append(@, Cached(key)), !.taken = @ \cup {key}]
    ELSE IF Unused(acc, key) # {}
      THEN [acc EXCEPT !.out  = Append(@, existing[CHOOSE i \in FirstUnused(acc, key) : TRUE]),
                       !.used = @ \cup FirstUnused(acc, key)]
    ELSE acc

MergeOffered(acc, key) ==
    IF packs[key] # "none" /\ key \notin acc.taken
      THEN [out   |-> Append(acc.out, Cached(key)),
            used  |-> acc.used \cup FirstUnused(acc, key),
            taken |-> acc.taken \cup {key}]
    ELSE IF Unused(acc, key) # {}
      THEN [acc EXCEPT !.out  = Append(@, existing[CHOOSE i \in FirstUnused(acc, key) : TRUE]),
                       !.used = @ \cup FirstUnused(acc, key)]
    ELSE acc

MergeCached(acc, key) ==
    IF packs[key] # "none" /\ key \notin acc.taken
      THEN [acc EXCEPT !.out = Append(@, Cached(key)), !.taken = @ \cup {key}]
      ELSE acc

MergeExisting(acc, i) ==
    IF i \in acc.used THEN acc ELSE [acc EXCEPT !.out = Append(@, existing[i])]

Offered ==
    FoldLeft(MergeOffered, [out |-> <<>>, used |-> {}, taken |-> {}], offerOrder)

Rest == FoldLeft(MergeExisting, Offered, [i \in DOMAIN existing |-> i])

MergedPacks == FoldLeft(MergeCached, Rest, packOrder).out

Merge ==
    /\ mpc = "merge"
    /\ merged' = MergedPacks
    /\ held' = {k \in Keys : packs[k] # "none"}
    /\ mpc' = "archive"
    /\ UNCHANGED <<mode, cacheVars, readerVars, conn, connVars, next, parent, delivery,
                   dialDone, limited, log>>

-----------------------------------------------------------------------------
(***************************************************************************)
(* RecordResourcePacks: pack after pack, its archive and then, if it is    *)
(* encrypted and decryption is on, what was derived from it.               *)
(***************************************************************************)

Pack == merged[next]

NextPack == next' = next + 1 /\ mpc' = "archive"

\* Faulty variant: the parent is the pack's index.
RecordArchiveIndex ==
    /\ mpc = "archive" /\ next <= Len(merged)
    /\ log' = Append(log, Event("archive", Pack.key, 0))
    /\ parent' = next
    /\ IF Pack.key \in Encrypted /\ mode.decrypt
         THEN mpc' = "derive" /\ UNCHANGED next
         ELSE NextPack
    /\ UNCHANGED <<mode, cacheVars, readerVars, conn, connVars, merged, delivery, dialDone,
                   limited, held>>

RecordArchive ==
    /\ mpc = "archive" /\ next <= Len(merged)
    /\ log' = Append(log, Event("archive", Pack.key, 0))
    /\ parent' = Len(log')
    /\ IF Pack.key \in Encrypted /\ mode.decrypt
         THEN mpc' = "derive" /\ UNCHANGED next
         ELSE NextPack
    /\ UNCHANGED <<mode, cacheVars, readerVars, conn, connVars, merged, delivery, dialDone,
                   limited, held>>

(* The archive is not recorded, or its recorded checksum differs. *)
RecordArchiveFails ==
    /\ mpc = "archive" /\ next <= Len(merged)
    /\ closeAfterUpstreamError
    /\ log' \in {log, Append(log, Event("archive", Pack.key, 0))}
    /\ UNCHANGED limited

(* DecryptArchive succeeded: the contents manifests come first. *)
RecordManifests ==
    /\ mpc = "derive"
    /\ mpc' = "manifest"
    /\ log' = Append(log, Event("contents_manifest", Pack.key, parent))
    /\ UNCHANGED <<mode, cacheVars, readerVars, conn, connVars, merged, next, parent,
                   delivery, dialDone, limited, held>>

RecordDecrypted ==
    /\ mpc = "manifest"
    /\ log' = Append(log, Event("decrypted_archive", Pack.key, parent))
    /\ NextPack
    /\ UNCHANGED <<mode, cacheVars, readerVars, conn, connVars, merged, parent, delivery,
                   dialDone, limited, held>>

(* DecryptArchive failed: a limitation, then the event. *)
AddLimitation ==
    /\ mpc = "derive"
    /\ mpc' = "limitation"
    /\ limited' = limited \cup {Pack.key}
    /\ UNCHANGED <<mode, cacheVars, readerVars, conn, connVars, merged, next, parent,
                   delivery, dialDone, log, held>>

RecordDecryptFailure ==
    /\ mpc = "limitation"
    /\ log' = Append(log, Event("decrypt_error", Pack.key, parent))
    /\ NextPack
    /\ UNCHANGED <<mode, cacheVars, readerVars, conn, connVars, merged, parent, delivery,
                   dialDone, limited, held>>

(* Cancelled, or one of the records above failed. *)
DeriveFails ==
    /\ mpc \in {"derive", "manifest", "limitation"}
    /\ closeAfterUpstreamError
    /\ UNCHANGED <<limited, log>>

-----------------------------------------------------------------------------
(***************************************************************************)
(* resourcePacksForDownstream: a pack with a URL is cloned from its bytes. *)
(***************************************************************************)
Clones == [i \in DOMAIN merged |-> [merged[i] EXCEPT !.http = FALSE]]

AllRecorded ==
    /\ mpc = "archive" /\ next > Len(merged)
    /\ mpc' = IF mode.packsOnly THEN "connect" ELSE "prepare"
    /\ delivery' = merged
    /\ UNCHANGED <<mode, cacheVars, readerVars, conn, connVars, merged, next, parent,
                   dialDone, limited, log, held>>

Prepare ==
    /\ mpc = "prepare"
    /\ delivery' = Clones
    /\ mpc' = "connect"
    /\ UNCHANGED <<mode, cacheVars, readerVars, conn, connVars, merged, next, parent,
                   dialDone, limited, log, held>>

PrepareFails ==
    /\ mpc = "prepare" /\ \E p \in Range(merged) : p.http
    /\ closeAfterUpstreamError
    /\ UNCHANGED <<limited, log>>

(* connectUpstream returns the connection; its defer ends dialCtx. *)
Connected ==
    /\ mpc = "connect"
    /\ log' = Append(log, Plain("connected"))
    /\ mpc' = IF mode.packsOnly THEN "complete" ELSE "returned"
    /\ dialDone' = TRUE
    /\ UNCHANGED <<mode, cacheVars, readerVars, conn, connVars, merged, next, parent,
                   delivery, limited, held>>

ConnectedFails ==
    /\ mpc = "connect"
    /\ closeAfterUpstreamError
    /\ UNCHANGED <<limited, log>>

(* RunPacksOnly: the metadata views and fetch_complete, any of which may fail;
   then its defer closes the connection and records that. *)
FetchComplete ==
    /\ mpc = "complete"
    /\ log' \in {log, Append(log, Plain("fetch_complete"))}
    /\ mpc' = "close"
    /\ UNCHANGED <<mode, cacheVars, readerVars, conn, connVars, merged, next, parent,
                   delivery, dialDone, limited, held>>

CloseExchange ==
    /\ mpc = "close"
    /\ conn' = "closed"
    /\ log' \in {log, Append(log, Plain("session.close"))}
    /\ mpc' = "returned"
    /\ UNCHANGED <<mode, cacheVars, readerVars, connVars, merged, next, parent, delivery,
                   dialDone, limited, held>>

-----------------------------------------------------------------------------

Reader ==
    \/ \E offer \in Offers : Observe(offer)
    \/ ObserveMalformed
    \/ CommitDownloads \/ HandleInfo \/ IgnoreInfo \/ HandleStack

Download == \E i \in DOMAIN results : download(i) \/ downloadFails(i)

Chunk == \E k \in Keys : ChunkArrives(k) \/ Store(k) \/ StoreRefused(k)

Main ==
    \/ DialReturns \/ DialFails \/ Merge
    \/ RecordArchive \/ RecordArchiveFails
    \/ RecordManifests \/ RecordDecrypted
    \/ AddLimitation \/ RecordDecryptFailure \/ DeriveFails
    \/ AllRecorded \/ Prepare \/ PrepareFails \/ Connected \/ ConnectedFails
    \/ FetchComplete \/ CloseExchange

Transport == OpenConnection \/ ConnectionEnds

Next == Transport \/ Reader \/ Download \/ Chunk \/ Main

Spec == Init /\ [][Next]_vars

(***************************************************************************)
(* The main goroutine never rests: its dial ends by upstreamDialTimeout at *)
(* the latest.  The reader goes on with what it has begun.  A download may *)
(* take for ever until dialCtx is done, which ends the request.            *)
(***************************************************************************)
Fairness ==
    /\ WF_mainVars(Main)
    /\ WF_vars(CommitDownloads \/ HandleInfo \/ IgnoreInfo)
    /\ WF_vars(dialDone /\ \E i \in DOMAIN results : downloadFails(i))

FairSpec == Spec /\ Fairness

-----------------------------------------------------------------------------
(***************************************************************************)
(* Properties.                                                             *)
(***************************************************************************)

Count(seq, key) == Cardinality({i \in DOMAIN seq : seq[i].key = key})

AppendArchive(acc, e) == IF e.kind = "archive" THEN Append(acc, e) ELSE acc

Archives == FoldLeft(AppendArchive, <<>>, log)
ArchiveKeys == [i \in DOMAIN Archives |-> Archives[i].key]
IsConnected == \E e \in Range(log) : e.kind = "connected"

(* A subsequence of the offer, the archives of no offered key after it. *)
InOfferOrder(keys) ==
    \E n \in 0..Len(keys) :
        /\ \E f \in [1..n -> DOMAIN offerOrder] :
              /\ \A i, j \in 1..n : i < j => f[i] < f[j]
              /\ \A i \in 1..n : keys[i] = offerOrder[f[i]]
        /\ \A i \in (n + 1)..Len(keys) : keys[i] \notin Range(offerOrder)

(***************************************************************************)
(* Once upstream.connected is recorded, every archive of the exchange is   *)
(* in the capture, as often as it was received and never once more, in the *)
(* order of the offer whatever finished first; and the list for the client *)
(* has the same packs in that order and no URL (Merge, Observe, Store,     *)
(* RecordResourcePacks, resourcePacksForDownstream).                       *)
(***************************************************************************)
ArchivesExact ==
    IsConnected =>
        /\ \A k \in Keys \cup {Other} :
              Count(Archives, k) = IF k \in held /\ Count(existing, k) = 0
                                      THEN 1 ELSE Count(existing, k)
        /\ InOfferOrder(ArchiveKeys)
        /\ Len(delivery) = Len(Archives)
        /\ \A i \in DOMAIN delivery :
              /\ delivery[i].key = ArchiveKeys[i]
              /\ delivery[i].http => mode.packsOnly

(***************************************************************************)
(* What is derived from an archive: at most one outcome, and once the      *)
(* upstream is connected exactly one for every encrypted archive if        *)
(* decryption is on and none otherwise.  It names the archive's own event  *)
(* as its parent, whatever the reader recorded in between, its manifests   *)
(* come before it, and a failure is a limitation of the capture            *)
(* (RecordResourcePacks, recordDecryptedResourcePack).                     *)
(***************************************************************************)
Outcomes(n) ==
    {i \in DOMAIN log : /\ log[i].kind \in {"decrypted_archive", "decrypt_error"}
                        /\ log[i].parent = n}

DerivedExact ==
    /\ \A i \in DOMAIN log : log[i].parent # 0 =>
          LET of == log[log[i].parent] IN
          /\ log[i].parent < i /\ of.kind = "archive" /\ of.key = log[i].key
          /\ of.key \in Encrypted /\ mode.decrypt
          /\ log[i].kind = "decrypt_error" => of.key \in limited
          /\ log[i].kind = "decrypted_archive" =>
                \E j \in 1..(i - 1) : /\ log[j].kind = "contents_manifest"
                                      /\ log[j].parent = log[i].parent
    /\ \A n \in DOMAIN log :
          /\ Cardinality(Outcomes(n)) <= 1
          /\ (IsConnected /\ log[n].kind = "archive" /\ log[n].key \in Encrypted /\ mode.decrypt)
                => Outcomes(n) # {}

(***************************************************************************)
(* The exchange ends: connectUpstream and RunPacksOnly return; a           *)
(* connection that the dial has returned is handed to the caller or closed *)
(* in the end, whatever fails after the dial; and a reader that fetches    *)
(* goes on, since the end of dialCtx ends its downloads                    *)
(* (upstreamDialTimeout, cancelDial, closeAfterUpstreamError).  Nothing is *)
(* promised of the connection that a failed dial leaves.                   *)
(***************************************************************************)
Handed == mpc = "returned" /\ ~mode.packsOnly

ExchangeEnds ==
    /\ <>(mpc \in {"returned", "failed"})
    /\ mpc = "merge" ~> Handed \/ conn = "closed"
    /\ rpc # "idle" ~> rpc = "idle"
=============================================================================
