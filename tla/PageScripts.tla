----------------------------- MODULE PageScripts -----------------------------
(***************************************************************************)
(* One document and the scripts the engine keeps in it: the snapshot cache *)
(* and wait watchers, the download buffer, the IndexedDB dump and restore, *)
(* and the host's inspector buffers and cookie baseline.  The host runs    *)
(* one engine job at a time and reaches the document by short evals; while *)
(* a job polls, the page goes on and may even be replaced, which takes     *)
(* every script's state with it (doc).                                     *)
(***************************************************************************)
EXTENDS Integers, Sequences, FiniteSets, SequencesExt, FiniteSetsExt, Backend

CONSTANTS
    MaxDocs,      \* bound: documents the page shows
    MaxChanges,   \* bound: changes a document makes to itself
    MaxJobs,      \* bound: engine jobs
    MAX_ENTRIES,  \* the download buffer's length
    Capacity,     \* the inspector buffers' length
    Frames,       \* frames with their own inspector script
    Dbs,          \* the origin's databases
    Cookies,      \* the cookies a site sets: id, http (HttpOnly), site (SameSite)
    Legacy        \* cookies of a version 1 blob, which have no domain

ASSUME PageScriptsAssumption ==
    /\ MaxDocs \in Nat \ {0} /\ MaxChanges \in Nat /\ MaxJobs \in Nat
    /\ MAX_ENTRIES \in Nat \ {0} /\ Capacity \in Nat \ {0}
    /\ IsFiniteSet(Frames) /\ IsFiniteSet(Dbs) /\ Dbs # {}
    /\ \A c, d \in Cookies \cup Legacy : c.id = d.id => c = d
    /\ \A c \in Cookies, d \in Legacy : c.id # d.id
    /\ Cookies \subseteq [id : {c.id : c \in Cookies}, http : BOOLEAN,
                          site : {c.site : c \in Cookies}]

VARIABLES
    doc,       \* which document is loaded
    nchanges,  \* what the documents did so far
    job,       \* the engine job
    njobs,
    dom,       \* tree contents: seen by the observer, typed by the user, quiet
    walker,    \* the snapshot walker's state, and whether nodes lack a ref
    watch,     \* __vsTokWatch and __vsNetWatch
    seen,      \* the last snapshot and the tree it was taken of
    waited,    \* the last wait that succeeded
    dl,        \* __vsDl.list: ids grow, so they are its order
    dlSeq,     \* __vsDl.seq
    grabs,     \* reads in flight: the entry to fill (0: none), their content
    got,       \* how the last download ended
    idb,       \* database -> version of its contents
    dump,      \* window.__vsIdbSave
    restore,   \* window.__vsIdbLoad
    blob,      \* how the last save or load ended; <<>>: under way, or none
    ring, details, pending,   \* the page's InspectorSlots
    frameSeq,  \* each frame's seqCounter
    open,      \* requests started and not ended
    jar,       \* the data store's cookies
    baseline,  \* the cookies of the last cookie_events
    replayed,  \* what the events returned so far add up to
    saved      \* a blob's cookies, and the store's when it was saved

docVars == <<doc, nchanges>>
treeVars == <<dom, walker, watch, seen, waited>>
dlVars == <<dl, dlSeq, grabs, got>>
idbVars == <<idb, dump, restore, blob>>
netVars == <<ring, details, pending, frameSeq, open>>
cookieVars == <<jar, baseline, replayed, saved>>
scriptVars == <<docVars, job, njobs, treeVars, dlVars, idbVars, netVars, cookieVars>>

Idle == [pc |-> "idle"]
NoWalker == [on |-> FALSE, dirty |-> TRUE, cache |-> <<>>, bare |-> TRUE]
NoWatch == [tok |-> FALSE, changed |-> FALSE, net |-> FALSE, quiet |-> FALSE]
NoScript == [st |-> "none", left |-> {}, dbs |-> {}, failed |-> {}, part |-> {}]

InitScripts ==
    /\ doc = 1 /\ nchanges = 0 /\ job = Idle /\ njobs = 0
    /\ dom = [seen |-> 0, typed |-> 0, quiet |-> 0]
    /\ walker = NoWalker /\ watch = NoWatch /\ seen = <<>> /\ waited = <<>>
    /\ dl = {} /\ dlSeq = 0 /\ grabs = {} /\ got = <<>>
    /\ idb = [d \in Dbs |-> 0] /\ dump = NoScript /\ restore = NoScript /\ blob = <<>>
    /\ ring = <<>> /\ details = <<>> /\ pending = <<>>
    /\ frameSeq = [f \in Frames |-> 0] /\ open = {}
    /\ jar = {} /\ baseline = {} /\ replayed = {} /\ saved = [blob |-> {}, jar |-> {}]

(* The page does something: one of a bounded number of changes.             *)
Changes == nchanges < MaxChanges /\ nchanges' = nchanges + 1

StartJob(j) ==
    /\ job = Idle /\ njobs < MaxJobs
    /\ njobs' = njobs + 1
    /\ job' = j

EndJob == job' = Idle /\ UNCHANGED njobs

(* A new document: what the scripts kept on `window' is gone.  The host's   *)
(* buffers and the origin's databases stay.                                 *)
NewDocument ==
    /\ doc < MaxDocs
    /\ doc' = doc + 1
    /\ walker' = NoWalker /\ watch' = NoWatch
    /\ dom' = [dom EXCEPT !.seen = @ + 1]
    /\ dl' = {} /\ dlSeq' = 0 /\ grabs' = {}
    /\ dump' = NoScript /\ restore' = NoScript
    /\ frameSeq' = [f \in Frames |-> 0] /\ open' = {}
    /\ UNCHANGED <<nchanges, job, njobs, seen, waited, got, idb, blob, ring, details, pending,
                   cookieVars>>

-----------------------------------------------------------------------------
(* The tree.  A mutation of the document marks it dirty; so do input and    *)
(* change events.  Inside a shadow root, or where a script sets a value, no *)
(* observer hears of it.                                                    *)
Mutated == [walker EXCEPT !.dirty = TRUE]
Noticed == [watch EXCEPT !.changed = watch.tok]

Mutate ==
    /\ Changes
    /\ dom' = [dom EXCEPT !.seen = @ + 1]
    /\ \E bare \in BOOLEAN : walker' = [Mutated EXCEPT !.bare = @ \/ bare]
    /\ watch' = Noticed
    /\ UNCHANGED <<doc, job, njobs, seen, waited>>

(* Mutant: no listener for input and change.                                *)
TypeValueUnheard ==
    /\ Changes
    /\ dom' = [dom EXCEPT !.typed = @ + 1]
    /\ UNCHANGED <<doc, job, njobs, walker, watch, seen, waited>>

TypeValue ==
    /\ Changes
    /\ dom' = [dom EXCEPT !.typed = @ + 1]
    /\ walker' = IF walker.on THEN Mutated ELSE walker
    /\ UNCHANGED <<doc, job, njobs, watch, seen, waited>>

QuietChange ==
    /\ Changes
    /\ dom' = [dom EXCEPT !.quiet = @ + 1]
    /\ UNCHANGED <<doc, job, njobs, walker, watch, seen, waited>>

(* The walk numbers the nodes it has not met, and those attributes are      *)
(* mutations too: the cache is good from the second walk on.                *)
Snapshot ==
    /\ job = Idle
    /\ LET cached == walker.on /\ ~walker.dirty
           tree == IF cached THEN walker.cache ELSE dom
           marks == ~cached /\ walker.bare
       IN  /\ seen' = [tree |-> tree, dom |-> dom]
           /\ walker' = IF cached THEN walker
                        ELSE [on |-> TRUE, dirty |-> marks, cache |-> dom, bare |-> FALSE]
           /\ watch' = IF marks THEN Noticed ELSE watch
    /\ UNCHANGED <<docVars, job, njobs, dom, waited>>

(* wait: one poll is one eval of the predicate, which installs its watcher. *)
StartWait(cond) == StartJob([pc |-> "wait", cond |-> cond, base |-> -1, doc |-> doc])
                   /\ UNCHANGED <<docVars, treeVars>>

Installed ==
    [watch EXCEPT !.tok = @ \/ job.cond = "token", !.net = @ \/ job.cond = "net"]

Satisfied ==
    \/ job.cond = "token" /\ watch.tok /\ watch.changed
    \/ job.cond = "net" /\ watch.net /\ watch.quiet
    \/ job.cond = "now"   \* Stable, Text, a ref: the page as it is

(* Mutant: the watcher starts out as if a change had been seen.             *)
PollWaitEager ==
    /\ job.pc = "wait"
    /\ watch' = [Installed EXCEPT !.changed = @ \/ job.cond = "token"]
    /\ \/ /\ Satisfied
          /\ waited' = [cond |-> job.cond, base |-> job.base, doc |-> job.doc, now |-> dom.seen,
                        at |-> doc]
          /\ EndJob
       \/ /\ job.cond = "now" \/ ~Satisfied
          /\ job' = IF Installed # watch THEN [job EXCEPT !.base = dom.seen, !.doc = doc] ELSE job
          /\ UNCHANGED <<njobs, waited>>
    /\ UNCHANGED <<docVars, dom, walker, seen>>

PollWait ==
    /\ job.pc = "wait"
    /\ watch' = Installed
    /\ \/ /\ Satisfied
          /\ waited' = [cond |-> job.cond, base |-> job.base, doc |-> job.doc, now |-> dom.seen,
                        at |-> doc]
          /\ EndJob
       \/ /\ job.cond = "now" \/ ~Satisfied
          /\ job' = IF Installed # watch THEN [job EXCEPT !.base = dom.seen, !.doc = doc] ELSE job
          /\ UNCHANGED <<njobs, waited>>
    /\ UNCHANGED <<docVars, dom, walker, seen>>

(* The deadline, or an eval that fails for another reason than time.        *)
FailWait == job.pc = "wait" /\ EndJob /\ UNCHANGED <<docVars, treeVars>>

(* 500 ms without a resource, or one more request.                          *)
NetTick ==
    /\ watch.net
    /\ \E q \in BOOLEAN : q # watch.quiet /\ watch' = [watch EXCEPT !.quiet = q]
    /\ UNCHANGED <<docVars, job, njobs, dom, walker, seen, waited>>

NextTree ==
    \/ Mutate \/ TypeValue \/ QuietChange \/ Snapshot \/ PollWait \/ FailWait \/ NetTick
    \/ \E cond \in {"token", "net", "now"} : StartWait(cond)

-----------------------------------------------------------------------------
(* Downloads.  An entry: its id, the content read (the change that began    *)
(* it), its size in chunks, and how far it is.                              *)
Entry(id) == {e \in dl : e.id = id}
Oldest == {e \in dl : \A d \in dl : e.id <= d.id}
Newest == {e \in dl : \A d \in dl : d.id <= e.id}

(* push: an entry with a new id, and the oldest goes.                       *)
Pushed(e) == (IF Cardinality(dl) = MAX_ENTRIES THEN dl \ Oldest ELSE dl) \cup {e}

(* A click, an a.click() or a window.open the page makes: read, then kept.  *)
intercept ==
    /\ Changes
    /\ grabs' = grabs \cup {[id |-> 0, key |-> nchanges + 1]}
    /\ UNCHANGED <<doc, job, njobs, dl, dlSeq, got>>

(* A read ends: it fills its entry if that is still there, else it becomes  *)
(* an entry of its own.                                                     *)
grab(g) ==
    /\ g \in grabs
    /\ grabs' = grabs \ {g}
    /\ \E st \in {"ok", "err"}, size \in 0..2 :
         LET e == [id |-> g.id, key |-> g.key, st |-> st,
                   size |-> IF st = "ok" THEN size ELSE 0]
         IN  IF g.id # 0 /\ Entry(g.id) # {}
             THEN dl' = (dl \ Entry(g.id)) \cup {e} /\ UNCHANGED dlSeq
             ELSE dl' = Pushed([e EXCEPT !.id = dlSeq + 1]) /\ dlSeq' = dlSeq + 1
    /\ UNCHANGED <<docVars, job, njobs, got>>

DownloadJob(id) == [pc |-> "poll", id |-> id, doc |-> doc, key |-> 0, size |-> 0, bytes |-> <<>>]

(* vs_download with a URL: an entry to fill and a read to fill it.          *)
DownloadUrl ==
    /\ StartJob(DownloadJob(dlSeq + 1))
    /\ dl' = Pushed([id |-> dlSeq + 1, key |-> 0, st |-> "run", size |-> 0])
    /\ dlSeq' = dlSeq + 1
    /\ Changes
    /\ grabs' = grabs \cup {[id |-> dlSeq + 1, key |-> nchanges + 1]}
    /\ UNCHANGED <<doc, got>>

(* ... or a captured entry: 0 is whichever is newest.                       *)
DownloadCaptured ==
    /\ \E id \in 0..dlSeq : StartJob(DownloadJob(id))
    /\ UNCHANGED <<docVars, dlVars>>

(* The entry meta speaks of.                                                *)
Wanted == IF job.id = 0 THEN Newest ELSE Entry(job.id)

Reading(e) == [job EXCEPT !.pc = "read", !.id = e.id, !.doc = doc, !.key = e.key, !.size = e.size]

(* Mutant: the page's copy is released before it is read.                   *)
PollMetaDrops ==
    /\ job.pc = "poll"
    /\ \E e \in Wanted : e.st = "ok" /\ job' = Reading(e) /\ dl' = dl \ {e}
    /\ UNCHANGED <<docVars, njobs, dlSeq, grabs, got>>

(* run_download polls meta until the entry is done.                         *)
PollMeta ==
    /\ job.pc = "poll"
    /\ \E e \in Wanted : \/ e.st = "err" /\ EndJob
                         \/ e.st = "ok" /\ job' = Reading(e) /\ UNCHANGED njobs
    /\ UNCHANGED <<docVars, dlVars>>

DownloadTimeout == job.pc = "poll" /\ EndJob /\ UNCHANGED <<docVars, dlVars>>

(* One chunk by id; nothing comes back when the entry is gone.              *)
ReadChunk ==
    LET more == {e \in Entry(job.id) : Len(job.bytes) < job.size /\ Len(job.bytes) < e.size} IN
    /\ job.pc = "read"
    /\ \/ \E e \in more : job' = [job EXCEPT !.bytes = Append(@, e.key)]
       \/ more = {} /\ job' = [job EXCEPT !.pc = "drop"]
    /\ UNCHANGED <<docVars, njobs, dlVars>>

DropEntry ==
    /\ job.pc = "drop"
    /\ dl' = dl \ Entry(job.id)
    /\ job' = [job EXCEPT !.pc = "verdict"]
    /\ UNCHANGED <<docVars, njobs, dlSeq, grabs, got>>

(* Mutant: a short read is returned as it is.                               *)
DownloadVerdictShort ==
    /\ job.pc = "verdict"
    /\ got' = [ok |-> TRUE, key |-> job.key, size |-> job.size,
               bytes |-> job.bytes, moved |-> doc # job.doc,
               newer |-> dlSeq - job.id]
    /\ EndJob
    /\ UNCHANGED <<docVars, dl, dlSeq, grabs>>

(* Ok only when as many bytes came as meta promised.                        *)
DownloadVerdict ==
    /\ job.pc = "verdict"
    /\ got' = [ok |-> Len(job.bytes) = job.size, key |-> job.key, size |-> job.size,
               bytes |-> job.bytes, moved |-> doc # job.doc,
               newer |-> dlSeq - job.id]
    /\ EndJob
    /\ UNCHANGED <<docVars, dl, dlSeq, grabs>>

NextDownload ==
    \/ intercept \/ (\E g \in grabs : grab(g)) \/ DownloadUrl \/ DownloadCaptured
    \/ PollMeta \/ DownloadTimeout \/ ReadChunk \/ DropEntry \/ DownloadVerdict

-----------------------------------------------------------------------------
(* Authentication state: cookies on the host's side, and IndexedDB through  *)
(* two scripts that the first eval kicks off and the next ones poll; the    *)
(* databases answer in between.                                             *)
WriteDb ==
    /\ Changes
    /\ \E d \in Dbs : idb' = [idb EXCEPT ![d] = @ + 1]
    /\ UNCHANGED <<doc, job, njobs, dump, restore, blob, cookieVars>>

(* Set-Cookie, or its expiry.                                               *)
SiteCookie ==
    /\ Changes
    /\ \E c \in Cookies : jar' = IF c \in jar THEN jar \ {c} ELSE {k \in jar : k.id # c.id} \cup {c}
    /\ UNCHANGED <<doc, job, njobs, idbVars, baseline, replayed, saved>>

(* Mutant: cookies read through document.cookie, which hides HttpOnly ones. *)
SerializeScript(c) == [c EXCEPT !.http = FALSE]

(* What a backend reads of a cookie: macOS never reads SameSite.            *)
SerializeWk(c) == [c EXCEPT !.site = "none"]
SerializeWpe(c) == c
SerializeW2(c) == c

(* Asking the store: a timeout or an error, except on Linux, where an error *)
(* is an empty store, and on Windows, where a count that fails is an empty  *)
(* list and a cookie the list does not give is passed over.                 *)
GetWk == IF platform = "webkit" THEN {{SerializeWk(c) : c \in jar}} ELSE {}
GetWpe == IF platform = "wpe" THEN {{SerializeWpe(c) : c \in jar}, {}} ELSE {}
GetW2 == IF platform = "webview2" THEN {{SerializeW2(c) : c \in C} : C \in SUBSET jar} ELSE {}

get_all_cookies == GetWk \cup GetWpe \cup GetW2

(* diff_cookies: first what was added, then what was removed, by identity.  *)
Diffed(previous, current) ==
    LET key(C) == {c.id : c \in C} IN
    (replayed \cup (key(current) \ key(previous))) \ (key(previous) \ key(current))

(* Mutant: the baseline is kept as it was first taken.                      *)
cookie_eventsOnce ==
    /\ job = Idle /\ njobs < MaxJobs /\ njobs' = njobs + 1
    /\ \E current \in get_all_cookies :
         /\ replayed' = Diffed(baseline, current)
         /\ baseline' = IF baseline = {} THEN current ELSE baseline
    /\ UNCHANGED <<docVars, job, idbVars, jar, saved>>

cookie_events ==
    /\ job = Idle /\ njobs < MaxJobs /\ njobs' = njobs + 1
    /\ \E current \in get_all_cookies :
         /\ replayed' = Diffed(baseline, current)
         /\ baseline' = current
    /\ UNCHANGED <<docVars, job, idbVars, jar, saved>>

Kickoff(dbs) == [NoScript EXCEPT !.st = "pending", !.left = dbs]

(* save_auth: the cookies, then the storage script, then the dump, unless   *)
(* an earlier save of this document left one behind.                        *)
SaveCookies ==
    /\ StartJob([pc |-> "storage", from |-> idb, again |-> dump.st # "none"])
    /\ \E cookies \in get_all_cookies : saved' = [blob |-> cookies, jar |-> jar]
    /\ blob' = <<>>
    /\ UNCHANGED <<docVars, idb, dump, restore, jar, baseline, replayed>>

run_save_storage_only ==
    /\ job.pc = "storage"
    /\ \/ /\ job' = [job EXCEPT !.pc = "save"] /\ UNCHANGED njobs
          /\ dump' = IF dump.st = "none" THEN Kickoff(Dbs) ELSE dump
       \/ EndJob /\ UNCHANGED dump
    /\ UNCHANGED <<docVars, idb, restore, blob, cookieVars>>

(* dumpDb: one database read, left out because it would not open, or read   *)
(* without the records of a getAll that failed (part): it counts as read.   *)
DumpDb(d) ==
    /\ dump.st = "pending" /\ d \in dump.left
    /\ LET rest == [dump EXCEPT !.left = @ \ {d},
                                !.st = IF dump.left = {d} THEN "done" ELSE "pending"]
       IN  \/ dump' = [rest EXCEPT !.dbs = @ \cup {<<d, idb[d]>>}]
           \/ dump' = [rest EXCEPT !.dbs = @ \cup {<<d, 0>>}, !.part = @ \cup {d}]
           \/ dump' = [rest EXCEPT !.failed = @ \cup {d}]
    /\ UNCHANGED <<docVars, job, njobs, idb, restore, blob, cookieVars>>

(* An origin that denies IndexedDB, or an engine that cannot list it.       *)
DumpDenied ==
    /\ dump.st = "pending" /\ dump.left = Dbs
    /\ \E st \in {"done", "error"} : dump' = [dump EXCEPT !.st = st, !.left = {}, !.failed = Dbs]
    /\ UNCHANGED <<docVars, job, njobs, idb, restore, blob, cookieVars>>

Saved(dbs, incomplete) ==
    [kind |-> "save", dbs |-> dbs, incomplete |-> incomplete, from |-> job.from,
     part |-> dump.part, sure |-> ~job.again /\ dump.failed = {}]

(* Mutant: a dump that ran out of time is saved as it is, unmarked.         *)
SaveUnmarked ==
    /\ job.pc = "save"
    /\ \/ dump.st # "none" /\ blob' = Saved(dump.dbs, FALSE) /\ EndJob /\ UNCHANGED dump
       \/ dump.st = "none" /\ dump' = Kickoff(Dbs) /\ UNCHANGED <<job, njobs, blob>>
    /\ UNCHANGED <<docVars, idb, restore, cookieVars>>

(* A dump whose document went away starts over in the new one; an eval that *)
(* fails ends the save, and an answer that cannot be read is no databases.  *)
run_save_indexed_db ==
    /\ job.pc = "save"
    /\ \/ dump.st = "done" /\ blob' = Saved(dump.dbs, FALSE) /\ EndJob /\ UNCHANGED dump
       \/ dump.st = "error" /\ blob' = Saved({}, FALSE) /\ EndJob /\ UNCHANGED dump
       \/ dump.st = "pending" /\ blob' = Saved({}, TRUE) /\ EndJob /\ UNCHANGED dump
       \/ dump.st = "none" /\ dump' = Kickoff(Dbs) /\ UNCHANGED <<job, njobs, blob>>
       \/ blob' = [Saved({}, FALSE) EXCEPT !.sure = FALSE] /\ EndJob /\ UNCHANGED dump
       \/ EndJob /\ UNCHANGED <<dump, blob>>
    /\ UNCHANGED <<docVars, idb, restore, cookieVars>>

(* load_auth: the blob's cookies, one at a time, then its databases.        *)
StartRestore ==
    /\ \E dbs \in {{}, Dbs} :
         StartJob([pc |-> "cookies", left |-> saved.blob \cup Legacy, dbs |-> dbs,
                   want |-> saved.blob, tried |-> {}, set |-> {}])
    /\ blob' = <<>>
    /\ UNCHANGED <<docVars, idb, dump, restore, cookieVars>>

Loaded(ok, dbs, part) ==
    [kind |-> "load", ok |-> ok, asked |-> job.dbs, dbs |-> dbs, part |-> part,
     want |-> job.want, tried |-> job.tried, set |-> job.set]

(* What the load's script leaves in the document no later load reads.       *)
EndLoad(result) == blob' = result /\ restore' = NoScript /\ EndJob

FailLoad == EndLoad(Loaded(FALSE, {}, {}))

(* A cookie in the store takes the place of the one of its identity.        *)
Stores(c) == jar' = {k \in jar : k.id # c.id} \cup {c}

(* Mutant: the first unusable cookie ends the loop.                         *)
SetCookieWkStops(c) ==
    /\ platform = "webkit" /\ job.pc = "cookies" /\ c \in job.left
    /\ IF c \in Legacy THEN job' = [job EXCEPT !.left = {}] /\ UNCHANGED jar
       ELSE /\ Stores(c)
            /\ job' = [job EXCEPT !.left = @ \ {c}, !.tried = @ \cup {c}, !.set = @ \cup {c}]
    /\ UNCHANGED <<docVars, njobs, idbVars, baseline, replayed, saved>>

(* A cookie without a name or a domain is passed over.  The store takes one *)
(* or does not: on Linux and macOS, where add_cookie's result is dropped    *)
(* and a cookie that cannot be built skipped, the load goes on all the same *)
(* and only a timeout ends it, perhaps with the cookie stored; on Windows   *)
(* any error ends it.                                                       *)
SetCookie(c, p) ==
    /\ platform = p /\ job.pc = "cookies" /\ c \in job.left
    /\ \/ /\ c \in Legacy
          /\ job' = [job EXCEPT !.left = @ \ {c}]
          /\ UNCHANGED <<jar, njobs, blob, restore>>
       \/ /\ c \notin Legacy /\ Stores(c)
          /\ job' = [job EXCEPT !.left = @ \ {c}, !.tried = @ \cup {c}, !.set = @ \cup {c}]
          /\ UNCHANGED <<njobs, blob, restore>>
       \/ /\ c \notin Legacy /\ p # "webview2"
          /\ job' = [job EXCEPT !.left = @ \ {c}, !.tried = @ \cup {c}]
          /\ UNCHANGED <<jar, njobs, blob, restore>>
       \/ c \notin Legacy /\ FailLoad /\ (UNCHANGED jar \/ (p # "webview2" /\ Stores(c)))
    /\ UNCHANGED <<docVars, idb, dump, baseline, replayed, saved>>

SetCookieWk(c) == SetCookie(c, "webkit")
SetCookieWpe(c) == SetCookie(c, "wpe")
SetCookieW2(c) == SetCookie(c, "webview2")

(* Web storage in one eval, which may fail, then the databases, if there    *)
(* are any, under a new token: a load never meets an earlier load's state.  *)
(* A document without IndexedDB says at once that it is done.               *)
run_load_storage_only ==
    /\ job.pc = "cookies" /\ job.left = {}
    /\ \/ /\ job.dbs # {} /\ job' = [job EXCEPT !.pc = "load"]
          /\ \/ restore' = Kickoff(job.dbs)
             \/ restore' = [NoScript EXCEPT !.st = "done", !.dbs = job.dbs, !.part = job.dbs]
          /\ UNCHANGED <<njobs, blob>>
       \/ job.dbs = {} /\ EndLoad(Loaded(TRUE, {}, {}))
       \/ FailLoad
    /\ UNCHANGED <<docVars, idb, dump, cookieVars>>

(* Mutant: the last database's success erases another's failure.            *)
RestoreDbForgets(d) ==
    /\ restore.st = "pending" /\ d \in restore.left
    /\ \E ok \in BOOLEAN :
         restore' = [st |-> IF restore.left # {d} THEN "pending"
                            ELSE IF ok THEN "done" ELSE "error",
                     left |-> restore.left \ {d}, part |-> restore.part,
                     dbs |-> IF ok THEN restore.dbs \cup {d} ELSE restore.dbs,
                     failed |-> IF ok THEN restore.failed ELSE restore.failed \cup {d}]
    /\ UNCHANGED <<docVars, job, njobs, idb, dump, blob, cookieVars>>

(* One database written, or not.  A store that could not be made next to    *)
(* one that could, and a record put refuses, are passed over: the database  *)
(* counts as written all the same (part).                                   *)
RestoreDb(d) ==
    /\ restore.st = "pending" /\ d \in restore.left
    /\ \E ok \in BOOLEAN, part \in SUBSET {d} :
         LET failed == IF ok THEN restore.failed ELSE restore.failed \cup {d} IN
         restore' = [st |-> IF restore.left # {d} THEN "pending"
                            ELSE IF failed = {} THEN "done" ELSE "error",
                     left |-> restore.left \ {d},
                     dbs |-> IF ok THEN restore.dbs \cup {d} ELSE restore.dbs,
                     part |-> IF ok THEN restore.part \cup part ELSE restore.part,
                     failed |-> failed]
    /\ UNCHANGED <<docVars, job, njobs, idb, dump, blob, cookieVars>>

(* A restore whose document went away starts over in the new one; one that  *)
(* is not done by the deadline, or an eval that fails, fails the load.      *)
run_load_indexed_db ==
    /\ job.pc = "load"
    /\ \/ restore.st = "none" /\ restore' = Kickoff(job.dbs) /\ UNCHANGED <<job, njobs, blob>>
       \/ restore.st = "done" /\ EndLoad(Loaded(TRUE, restore.dbs, restore.part))
       \/ FailLoad
    /\ UNCHANGED <<docVars, idb, dump, cookieVars>>

NextAuth ==
    \/ WriteDb \/ SiteCookie \/ cookie_events \/ SaveCookies \/ run_save_storage_only
    \/ DumpDenied \/ run_save_indexed_db \/ StartRestore \/ run_load_storage_only
    \/ run_load_indexed_db
    \/ \E c \in Cookies \cup Legacy \cup saved.blob : SetCookieWk(c) \/ SetCookieWpe(c) \/ SetCookieW2(c)
    \/ \E d \in Dbs : DumpDb(d) \/ RestoreDb(d)

-----------------------------------------------------------------------------
(* The inspector.  Each frame's script numbers its requests from 1; the     *)
(* host folds a start and an end into one entry and one detail.             *)
(* Mutant: the detail store keeps one more than the ring.                   *)
PutOneMore(store, e) ==
    IF \E i \in DOMAIN store : store[i].seq = e.seq
    THEN [i \in DOMAIN store |-> IF store[i].seq = e.seq THEN e ELSE store[i]]
    ELSE Append(IF Len(store) > Capacity THEN Tail(store) ELSE store, e)

Put(store, e) ==
    IF \E i \in DOMAIN store : store[i].seq = e.seq
    THEN [i \in DOMAIN store |-> IF store[i].seq = e.seq THEN e ELSE store[i]]
    ELSE Append(IF Len(store) = Capacity THEN Tail(store) ELSE store, e)

Push(store, e) == Append(IF Len(store) = Capacity THEN Tail(store) ELSE store, e)

RequestStarts(f) ==
    /\ Changes
    /\ frameSeq' = [frameSeq EXCEPT ![f] = @ + 1]
    /\ LET r == [seq |-> frameSeq[f] + 1, req |-> nchanges + 1]
       IN  open' = open \cup {r} /\ pending' = Put(pending, r)
    /\ UNCHANGED <<doc, job, njobs, ring, details>>

(* Mutant: an end is matched with the oldest start, not with its own.       *)
RequestEndsOldest(r) ==
    /\ r \in open
    /\ open' = open \ {r}
    /\ pending' = IF pending = <<>> THEN <<>> ELSE Tail(pending)
    /\ ring' = Push(ring, r)
    /\ details' = Put(details, [seq |-> r.seq, req |-> r.req,
                                sent |-> IF pending = <<>> THEN 0 ELSE pending[1].req])
    /\ UNCHANGED <<docVars, job, njobs, frameSeq>>

(* The detail's request side is what was pending under the number, which is *)
(* nothing if the start was evicted.                                        *)
RequestEnds(r) ==
    LET Detail(sent) == [seq |-> r.seq, req |-> r.req, sent |-> sent] IN
    /\ r \in open
    /\ open' = open \ {r}
    /\ ring' = Push(ring, r)
    /\ \/ \E i \in DOMAIN pending :
            /\ pending[i].seq = r.seq
            /\ pending' = RemoveAt(pending, i)
            /\ details' = Put(details, Detail(pending[i].req))
       \/ /\ \A i \in DOMAIN pending : pending[i].seq # r.seq
          /\ details' = Put(details, Detail(0))
          /\ UNCHANGED pending
    /\ UNCHANGED <<docVars, job, njobs, frameSeq>>

NextNet ==
    \/ \E f \in Frames : RequestStarts(f)
    \/ \E r \in open : RequestEnds(r)

-----------------------------------------------------------------------------
(* Inductive invariants of the tree's scripts.                              *)
Trees == [seen : Nat, typed : Nat, quiet : Nat]

WalkerRecords == [on : BOOLEAN, dirty : BOOLEAN, cache : {<<>>} \cup Trees, bare : BOOLEAN]
WatchRecords == [tok : BOOLEAN, changed : BOOLEAN, net : BOOLEAN, quiet : BOOLEAN]
WaitJobs == [pc : {"wait"}, cond : {"token", "net", "now"}, base : Int, doc : Nat]

TypeTree ==
    /\ dom \in Trees /\ doc \in Nat
    /\ walker \in WalkerRecords /\ watch \in WatchRecords
    /\ job = Idle \/ job \in WaitJobs

(* A clean walker's cache is the tree, but for what nobody hears of.        *)
CacheInv == walker.on /\ ~walker.dirty =>
    walker.cache.seen = dom.seen /\ walker.cache.typed = dom.typed

(* The watcher has heard of a change only if there was one since the wait   *)
(* installed it.                                                            *)
WatchInv ==
    /\ watch.changed => watch.tok
    /\ job # Idle /\ job.cond = "token" /\ job.base >= 0 =>
         job.base <= dom.seen /\ (watch.changed => job.base < dom.seen)

(* Inductive invariants of save and load.  A cookie in the store is one the *)
(* site set, perhaps without what macOS does not read.                      *)
CookieIds == {c.id : c \in Cookies}
Stored == [id : CookieIds, http : BOOLEAN, site : {c.site : c \in Cookies} \cup {"none"}]

ScriptStates == {"none", "pending", "done", "error"}
DumpRecords == [st : ScriptStates, left : SUBSET Dbs, dbs : SUBSET (Dbs \X Nat),
                failed : SUBSET Dbs, part : SUBSET Dbs]
RestoreRecords == [st : ScriptStates, left : SUBSET Dbs, dbs : SUBSET Dbs, failed : SUBSET Dbs,
                   part : SUBSET Dbs]
SaveJobs == [pc : {"storage", "save"}, from : [Dbs -> Nat], again : BOOLEAN]
LoadJobs == [pc : {"cookies", "load"}, left : SUBSET (Stored \cup Legacy),
             dbs : SUBSET Dbs, want : SUBSET Stored, tried : SUBSET Stored,
             set : SUBSET Stored]

TypeAuth ==
    /\ idb \in [Dbs -> Nat]
    /\ jar \subseteq Stored /\ saved.blob \subseteq Stored
    /\ dump \in DumpRecords /\ restore \in RestoreRecords
    /\ job = Idle \/ job \in SaveJobs \/ job \in LoadJobs

(* Every database is still to come, read or failed.                         *)
DumpInv ==
    /\ dump.st \in {"pending", "done"} =>
         \A d \in Dbs : d \in dump.left \cup dump.failed \/ \E e \in dump.dbs : e[1] = d
    /\ dump.st = "done" => dump.left = {}
    /\ dump.st = "error" => dump.failed = Dbs
    /\ dump.st = "none" => dump.dbs = {}
    /\ job.pc \in {"storage", "save"} => \A d \in Dbs : job.from[d] <= idb[d]
    /\ job.pc = "storage" /\ ~job.again => dump.st = "none"
    /\ job.pc \in {"storage", "save"} /\ ~job.again =>
         \A e \in dump.dbs : job.from[e[1]] <= e[2] \/ e[1] \in dump.part

(* ... written or failed; and every cookie of the blob is to come or tried. *)
RestoreInv ==
    /\ job.pc = "load" /\ restore.st \in {"pending", "done"} =>
         restore.left \cup restore.dbs \cup restore.failed = job.dbs
    /\ restore.st = "done" => restore.left = {} /\ restore.failed = {}
    /\ job.pc \in {"cookies", "load"} =>
         /\ job.tried \cup (job.left \ Legacy) = job.want
         /\ platform = "webview2" => job.set = job.tried
    /\ job.pc = "load" => job.left = {}

(* What is bounded in every family.                                         *)
ScriptLimits == doc \in 1..MaxDocs /\ nchanges \in 0..MaxChanges /\ njobs \in 0..MaxJobs

(* Inductive invariants of downloads.                                       *)
Entries == [id : Nat, key : Nat, st : {"run", "ok", "err"}, size : Nat]
DownloadJobs == [pc : {"poll", "read", "drop", "verdict"}, id : Nat, doc : Nat, key : Nat,
                 size : Nat, bytes : Seq(Nat)]

TypeDownload ==
    /\ doc \in Nat /\ nchanges \in Nat /\ dlSeq \in Nat
    /\ dl \subseteq Entries /\ IsFiniteSet(dl) /\ grabs \subseteq [id : Nat, key : Nat]
    /\ job = Idle \/ job \in DownloadJobs

(* Ids were handed out and are one entry's; what a read will fill is empty, *)
(* and no other read will.                                                  *)
TableInv ==
    /\ Cardinality(dl) <= MAX_ENTRIES
    /\ \A e \in dl : e.id \in 1..dlSeq /\ Entry(e.id) = {e}
    /\ \A g \in grabs : g.id # 0 =>
         /\ g.id <= dlSeq
         /\ \A e \in Entry(g.id) : e.st = "run"
         /\ \A h \in grabs : h.id = g.id => h = g

(* What was read so far is the beginning of the entry meta told of, which   *)
(* is still there as it was until it is dropped, or was evicted.            *)
ReadInv ==
    /\ job.pc = "poll" => job.bytes = <<>>
    /\ job.pc \in {"read", "drop", "verdict"} => job.doc <= doc
    /\ job.pc \in {"read", "drop", "verdict"} /\ job.doc = doc =>
         /\ job.id \in 1..dlSeq
         /\ Len(job.bytes) <= job.size /\ \A i \in 1..Len(job.bytes) : job.bytes[i] = job.key
         /\ \A e \in Entry(job.id) : e.st = "ok" /\ e.key = job.key /\ e.size = job.size
         /\ \/ job.pc = "read" /\ Entry(job.id) # {}
            \/ job.pc # "read" /\ Len(job.bytes) = job.size
            \/ dlSeq - job.id >= MAX_ENTRIES

(* Inductive invariants of the inspector's buffers.                         *)
Started == [seq : Nat, req : Nat]
Described == [seq : Nat, req : Nat, sent : Nat]

TypeNet ==
    /\ doc \in Nat \ {0} /\ nchanges \in Nat /\ frameSeq \in [Frames -> Nat]
    /\ open \subseteq Started
    /\ ring \in Seq(Started) /\ pending \in Seq(Started) /\ details \in Seq(Described)
    /\ Len(ring) <= Capacity /\ Len(pending) <= Capacity /\ Len(details) <= Capacity

(* No other frame than f has numbered a request of the first document.      *)
OnlyFrame(f) == doc = 1 /\ \A g \in Frames \ {f} : frameSeq[g] = 0

(* While one frame numbers them, every number was handed out by it, an open *)
(* request's is no other's, and what is pending under it is its start.      *)
InStep(f) ==
    /\ \A i \in DOMAIN ring : ring[i].seq <= frameSeq[f]
    /\ \A i \in DOMAIN pending : pending[i].seq <= frameSeq[f]
    /\ \A r \in open :
         /\ r.seq <= frameSeq[f] /\ \A q \in open : q.seq = r.seq => q = r
         /\ \A i \in DOMAIN ring : ring[i].seq # r.seq
         /\ \A i \in DOMAIN pending : pending[i].seq = r.seq => pending[i].req = r.req
    /\ Len(details) = Len(ring)
    /\ \A i \in DOMAIN ring : /\ details[i].seq = ring[i].seq /\ details[i].req = ring[i].req
                             /\ details[i].sent \in {0, details[i].req}

MatchInv == \A f \in Frames : OnlyFrame(f) => InStep(f)

=============================================================================
