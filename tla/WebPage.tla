------------------------------- MODULE WebPage -------------------------------
(***************************************************************************)
(* The engine backends composed: native views and navigations (WebViews),  *)
(* the scripts of one document and the host's side of them (PageScripts),  *)
(* and synthesized input (WebInput).  Only the platform and the engine     *)
(* thread are shared between the parts, so a behaviour exercises one       *)
(* family of operations, with documents replaced under it.                 *)
(***************************************************************************)
EXTENDS WebViews, PageScripts, WebInput

CONSTANT Families   \* the families of operations to check

ASSUME FamilyAssumption ==
    Families \subseteq {"views", "tree", "download", "auth", "net", "input"}

VARIABLE family

vars == <<platform, family, viewVars, scriptVars, inputVars>>

(* The scripts run alike on every platform: their families need only one.   *)
Init ==
    /\ platform \in Platforms /\ family \in Families
    /\ family \in {"tree", "download", "net"} => platform = CHOOSE p \in Platforms : TRUE
    /\ InitViews /\ InitScripts /\ InitInput

Scripted ==
    \/ /\ family = "tree" /\ NextTree
       /\ UNCHANGED <<dlVars, idbVars, netVars, cookieVars>>
    \/ /\ family = "download" /\ NextDownload
       /\ UNCHANGED <<treeVars, idbVars, netVars, cookieVars>>
    \/ /\ family = "auth" /\ NextAuth
       /\ UNCHANGED <<treeVars, dlVars, netVars>>
    \/ /\ family = "net" /\ NextNet
       /\ UNCHANGED <<treeVars, dlVars, idbVars, cookieVars>>
    \/ family \in {"tree", "download", "auth", "net"} /\ NewDocument

Next ==
    /\ UNCHANGED <<platform, family>>
    /\ \/ family = "views" /\ NextViews /\ UNCHANGED <<scriptVars, inputVars>>
       \/ Scripted /\ UNCHANGED <<viewVars, inputVars>>
       \/ family = "input" /\ NextInput /\ UNCHANGED <<viewVars, scriptVars>>

Spec == Init /\ [][Next]_vars

-----------------------------------------------------------------------------
TypeOK ==
    /\ platform \in Platforms /\ family \in Families
    /\ views \in [Views -> {"none", "live", "torn", "lost"}]
    /\ pages \in [Views -> 0..MaxViews] /\ nextHandle \in 1..(MaxViews + 1)
    /\ \A v \in Views : shown[v] <= load[v].n /\ load[v].n <= nloads
    /\ scripted \subseteq Views /\ shimmed \subseteq Views
    /\ doc \in 1..MaxDocs /\ nchanges \in 0..MaxChanges /\ njobs \in 0..MaxJobs
    /\ Cardinality(dl) <= MAX_ENTRIES /\ \A e \in dl : e.id \in 1..dlSeq
    /\ Len(ring) <= Capacity /\ Len(pending) <= Capacity
    /\ dump.left \subseteq Dbs /\ restore.left \subseteq Dbs
    /\ btn \in BOOLEAN /\ ptr \in Points /\ ninputs \in 0..MaxInputs

(* Every live web view belongs to exactly one handle or to the open that is *)
(* waiting for it, and on macOS a failed navigation tears its view down: a  *)
(* view is forgotten only when its URL was refused (webkit/mod.rs, open).   *)
ViewsOwned ==
    /\ \A v \in Views : Live(v) =>
         IF op.pc # "idle" /\ op.v = v /\ op.h = 0 THEN \A h \in Views : pages[h] # v
         ELSE Cardinality({h \in Views : pages[h] = v}) = 1
    /\ platform = "webkit" => \A v \in Views : views[v] = "lost" => load[v].n = 0

(* An open or navigate that answers Ok shows what was asked for, or what    *)
(* the page went on to, provided no earlier navigation had yet to report    *)
(* when it began.  On Linux (wpe.rs:196-206, 259-268) and Windows, where    *)
(* the backend does not learn of it, its own load may also have failed.     *)
OkShowsPage ==
    verdict.ok /\ verdict.clean =>
        \/ shown[verdict.v] >= verdict.n
        \/ platform # "webkit" /\ verdict.failed

(* An open or navigate that answers Ok loaded the page.                     *)
OkMeansLoaded == verdict.ok /\ verdict.clean => shown[verdict.v] >= verdict.n

(* A snapshot is the tree as it is at that moment, whether walked or from   *)
(* the cache, in all that the observer and the listeners hear of: shadow    *)
(* roots and values a script sets are not (snapshot_dom_walker.js).         *)
SnapshotFresh ==
    seen # <<>> => seen.tree.seen = seen.dom.seen /\ seen.tree.typed = seen.dom.typed

(* A wait for a token change that installed its own watcher succeeds only   *)
(* after the document changed while it waited.                              *)
FirstWaitSawChange ==
    waited # <<>> /\ waited.cond = "token" /\ waited.base >= 0 => waited.now > waited.base

(* A download that answers Ok has all of one entry's bytes, as long as the  *)
(* document was not replaced while they were read (run_download).           *)
DownloadWhole ==
    got # <<>> /\ got.ok /\ ~got.moved =>
        got.bytes = [i \in 1..got.size |-> got.key]

(* The entry is let go only after its bytes were read: within a document a  *)
(* download fails for want of bytes only if MAX_ENTRIES newer ones came.    *)
ShortMeansEvicted ==
    got # <<>> /\ ~got.ok /\ ~got.moved => got.newer >= MAX_ENTRIES

(* A saved blob that is not marked incomplete has every database, no older  *)
(* than the save, but for the records of a getAll that failed, unless a     *)
(* database would not open, the origin denied it, the answer could not be   *)
(* read or an earlier save's dump was found (run_save_indexed_db,           *)
(* idb_save.js).                                                            *)
BlobComplete ==
    blob # <<>> /\ blob.kind = "save" /\ ~blob.incomplete /\ blob.sure =>
        \A d \in Dbs : \E e \in blob.dbs :
            e[1] = d /\ (e[2] >= blob.from[d] \/ d \in blob.part)

(* A load that answers Ok went through the whole blob: every database was   *)
(* written without an error told, and every cookie that has a domain was    *)
(* given to the store, on Windows with success.  What is dropped on the way *)
(* is told nobody: records put refuses (idb_load.js:117-128) and, on Linux  *)
(* and macOS, cookies the store refuses (wpe.rs:1074, cookie_store.rs:84).  *)
LoadRestores ==
    blob # <<>> /\ blob.kind = "load" /\ blob.ok =>
        /\ blob.dbs = blob.asked
        /\ blob.tried = blob.want
        /\ platform = "webview2" => blob.set = blob.want

(* A load that answers Ok restored all there was to restore.                *)
LoadRestoresAll ==
    blob # <<>> /\ blob.kind = "load" /\ blob.ok => blob.set = blob.want /\ blob.part = {}

(* What a save reads of the cookies is what the site set, but for SameSite  *)
(* on macOS; only on macOS is it sure to be all of them: on Linux a store   *)
(* that fails reads as empty, on Windows the list may skip some             *)
(* (get_all_cookies).                                                       *)
CookiesKeepFlags ==
    /\ \A c \in saved.blob : \E k \in saved.jar :
        /\ c.id = k.id /\ c.http = k.http
        /\ platform # "webkit" => c.site = k.site
    /\ platform = "webkit" => {c.id : c \in saved.blob} = {k.id : k \in saved.jar}

(* cookie_events reported so far add up to the cookies of the last call.    *)
CookieEventsAddUp == replayed = {c.id : c \in baseline}

(* While one frame of one document makes requests, every listed request has *)
(* its own detail, with the headers it was sent with unless its start was   *)
(* evicted, and no detail outlives its entry (ingest_network).              *)
DetailsMatch ==
    doc = 1 /\ (\E f \in Frames : \A g \in Frames \ {f} : frameSeq[g] = 0) =>
        /\ Len(details) = Len(ring)
        /\ \A i \in DOMAIN ring : details[i].seq = ring[i].seq /\ details[i].req = ring[i].req
        /\ \A i \in DOMAIN details : details[i].sent \in {0, details[i].req}

(* A click that answers Ok reached the element its ref names.  On macOS,    *)
(* which clicks where the element's centre was (webkit/mod.rs:533-567),     *)
(* that holds if at no time of the click anything else lay there.           *)
ClickReaches ==
    clicked # <<>> /\ clicked.ok =>
        \/ clicked.on = clicked.want
        \/ platform = "webkit" /\ clicked.veiled

(* A click that answers Ok reached the element its ref names.               *)
ClickHits == clicked # <<>> /\ clicked.ok => clicked.on = clicked.want

(* Between input jobs that did not fail the button is up and the next path  *)
(* starts where the pointer is.                                             *)
ButtonReleased == act = Resting /\ "mouse" \notin broken => ~btn /\ last = ptr

(* The keycode borrowed from the X server's keymap is handed back after     *)
(* every type_text, failed ones too, unless the server refused (end_typing).*)
KeymapRestored == act = Resting /\ "keymap" \notin broken => keymap = 0

(* The page gets the characters asked for, in order.                        *)
TypesWhatWasAsked == act.kind = "type" => typed = SubSeq(act.want, 1, Len(typed))

(* What the agent is told of the document is about the document as it is:   *)
(* snapshots, and the token change a wait reports.                          *)
ReadsCurrent == SnapshotFresh /\ FirstWaitSawChange

(* A download that succeeds is whole, and one that does not was evicted.    *)
DownloadsHonest == DownloadWhole /\ ShortMeansEvicted

(* What vs_auth save and load carry over is complete but for what is named  *)
(* above: databases, cookies, and the changes of the cookies reported in    *)
(* between.                                                                 *)
AuthRoundTrip == BlobComplete /\ LoadRestores /\ CookiesKeepFlags /\ CookieEventsAddUp

(* The buffers of the inspector and of the page stay within their limits    *)
(* and the details stay with the requests they describe.                    *)
BuffersSound == TypeOK /\ DetailsMatch

(* Input does what was asked and leaves pointer, button and keymap as the   *)
(* next input expects them.                                                 *)
InputSettles == ClickReaches /\ ButtonReleased /\ KeymapRestored /\ TypesWhatWasAsked

-----------------------------------------------------------------------------
(* The inductive invariant: each family's parts, of the others nothing but  *)
(* what they start with.                                                    *)
ViewsInv == TypeViews /\ HandleInv /\ LostInv /\ LoadInv /\ OkShowsPage

InputInv == TypeInput /\ PointerInv /\ HitInv /\ RefInv /\ KeycodeInv /\ TypedInv /\ ClickReaches

TreeInv == IF family = "tree" THEN TypeTree /\ CacheInv /\ WatchInv /\ ReadsCurrent
           ELSE seen = <<>> /\ waited = <<>>

AuthInv == IF family = "auth" THEN TypeAuth /\ DumpInv /\ RestoreInv /\ AuthRoundTrip
           ELSE /\ blob = <<>> /\ replayed = {} /\ baseline = {}
                /\ saved = [blob |-> {}, jar |-> {}]
                /\ dump = NoScript /\ restore = NoScript

DownloadInv == IF family = "download"
               THEN TypeDownload /\ TableInv /\ ReadInv /\ DownloadsHonest
               ELSE dl = {} /\ dlSeq = 0 /\ got = <<>>

NetInv == IF family = "net" THEN TypeNet /\ MatchInv
          ELSE ring = <<>> /\ details = <<>> /\ pending = <<>>

LimitInv == ViewLimits /\ ScriptLimits /\ InputLimits

=============================================================================
