------------------------------ MODULE Includes ------------------------------
(***************************************************************************)
(* Remote includes (s_conf.c, url.c, support.c): configuration files that  *)
(* the server fetches from the web when it boots and when it is told to    *)
(* REHASH.  A REHASH first downloads again, in the background, what runs;  *)
(* when the last download has ended the configuration is read, and each    *)
(* include of it is downloaded once more, this time waiting for it.  Every *)
(* download may fail; copies are kept in cache/ for that case.             *)
(***************************************************************************)
EXTENDS Naturals, Sequences, FiniteSets

CONSTANTS Url, Local,   \* includes: addresses on the web, files of the server
          Wanted,       \* what the configuration file may include, in order
          MaxVersion,   \* bound on what is published at an address
          Long          \* versions longer than the others

IncludesAssumption ==
  /\ Url \cap Local = {} /\ Wanted \subseteq Seq(Url \cup Local)
  /\ MaxVersion \in Nat \ {0} /\ Long \subseteq 1..MaxVersion

VARIABLES
  web,         \* version published at each address
  wanted,      \* the include directives of the configuration file
  conf_include,\* entries: url, its file (a download in tmp/, the cache's own copy,
               \*   or a file of the server), the file's version, and flags
  cache,       \* copy of each address in cache/, or NoCopy
  transfers,   \* downloads in the background: url and modification time asked with
  ircd_rehashing,
  running,     \* version of each include that the server runs with
  up,          \* the server runs
  outcome,     \* how the last reading ended: "loaded", "refused", or at an include
               \*   that could not be had; "none" while a REHASH is under way
  got,         \* newest version the last REHASH fetched in the background
  kept         \* addresses a copy of which was once put in cache/

includesVars == <<web, wanted, conf_include, cache, transfers, ircd_rehashing,
          running, up, outcome, got, kept>>

(* tail: an older, longer version shows behind the end of this one.        *)
Copies == [v : 1..MaxVersion, tail : BOOLEAN]
NoCopy == [v |-> 0, tail |-> FALSE]
Entries == [url : Url \cup Local, file : {"tmp", "cache", "own"},
            text : Copies \cup {NoCopy}, loaded : BOOLEAN, queued : BOOLEAN]

IncludesTypeOK ==
  /\ web \in [Url -> 1..MaxVersion] /\ wanted \in Wanted
  /\ conf_include \subseteq Entries
  /\ cache \in [Url -> Copies \cup {NoCopy}]
  /\ transfers \subseteq [url : Url, since : 0..MaxVersion]
  /\ ircd_rehashing \in BOOLEAN /\ up \in BOOLEAN
  /\ DOMAIN running \subseteq Url \cup Local
  /\ \A u \in DOMAIN running \cap Url : running[u] \in Copies
  /\ outcome \in {"none", "loaded", "refused"} \cup Url
  /\ got \in [Url -> 0..MaxVersion] /\ kept \subseteq Url

Queued(entries) == {e \in entries : e.queued}
EntryOf(u) == {e \in conf_include : e.url = u /\ e.loaded}

(* unreal_copyfile writes over what is there, without cutting it off.      *)
unreal_copyfile(text, old) ==
  [text EXCEPT !.tail = text.tail
     \/ (old # NoCopy /\ text.v \notin Long /\ (old.tail \/ old.v \in Long))]

(* Modification time of an entry's file, 0 for a file that is gone.        *)
unreal_getfilemodtime(e) ==
  IF e.file = "tmp" THEN e.text.v ELSE cache[e.url].v

download_file_async(e) == [url |-> e.url, since |-> unreal_getfilemodtime(e)]

unload_includes(entries, copies) ==
  [u \in Url |-> IF \E e \in entries : e.url = u /\ e.file = "cache" THEN NoCopy ELSE copies[u]]

(* The entry of an include that is read now: a remote one's download, or   *)
(* else its copy in cache/.                                                *)
add_include(file) ==
  [url |-> file, loaded |-> FALSE, queued |-> FALSE, file |-> "own", text |-> NoCopy]
remote_include(u, reached, copies) ==
  [add_include(u) EXCEPT
     !.file = IF u \in reached THEN "tmp" ELSE "cache",
     !.text = IF u \in reached THEN [v |-> web[u], tail |-> FALSE] ELSE copies[u]]
conf_include_of(i, reached, copies) ==
  IF i \in Local THEN add_include(i) ELSE remote_include(i, reached, copies)

Gets(i, reached, copies) == i \in reached \cup Local \/ copies[i] # NoCopy
Again(i) == \E j \in 1..(i - 1) : wanted[j] = wanted[i]

(* load_conf reads the includes one after the other.                       *)
Readable(reached, copies) ==
  {n \in 0..Len(wanted) :
     \A i \in 1..n : Gets(wanted[i], reached, copies) /\ ~Again(i)}

(* Where reading stops: at an include that cannot be had, or that was read *)
(* before, or at an error, or (n = all) after the tests.                   *)
Ending(n, reached, copies) ==
  CASE n = Len(wanted) -> {"loaded", "refused"}
    [] n + 1 \in Readable(reached, copies) -> {"refused"}
    [] Gets(wanted[n + 1], reached, copies) -> {"refused"}
    [] OTHER -> {wanted[n + 1]}

(* A refused configuration takes its entries and their files with it, one  *)
(* that is taken over the entries and files of the one before.             *)
init_conf(entries, copies) ==
  \E reached \in SUBSET Url :
  \E n \in Readable(reached, copies) :
  \E end \in Ending(n, reached, copies) :
    LET new == {conf_include_of(wanted[i], reached, copies) : i \in 1..n}
    IN /\ outcome' = end
       /\ IF end = "loaded"
          THEN /\ cache' = unload_includes({e \in entries : e.loaded}, copies)
               /\ conf_include' = {[e EXCEPT !.loaded = TRUE] : e \in new}
               /\ running' = [u \in {e.url : e \in new} |->
                                (CHOOSE e \in new : e.url = u).text]
               /\ up' = TRUE
          ELSE /\ cache' = unload_includes(new, copies)
               /\ conf_include' = entries
               /\ UNCHANGED <<running, up>>

-----------------------------------------------------------------------------
IncludesInitWith(w) ==
  /\ web = [u \in Url |-> 1] /\ wanted = w
  /\ conf_include = {} /\ cache = [u \in Url |-> NoCopy] /\ transfers = {}
  /\ ircd_rehashing = FALSE /\ running = <<>> /\ up = FALSE /\ outcome = "none"
  /\ got = [u \in Url |-> 0] /\ kept = {}
IncludesInit == \E w \in Wanted : IncludesInitWith(w)

Publish(u) ==
  /\ web[u] < MaxVersion
  /\ web' = [web EXCEPT ![u] = @ + 1]
  /\ UNCHANGED <<wanted, conf_include, cache, transfers, ircd_rehashing,
                 running, up, outcome, got, kept>>

EditConf(w) ==
  /\ w # wanted
  /\ wanted' = w
  /\ UNCHANGED <<web, conf_include, cache, transfers, ircd_rehashing,
                 running, up, outcome, got, kept>>

(* The server starts: tmp/ is emptied, nothing is known.                   *)
Boot ==
  /\ ~up
  /\ init_conf({}, cache)
  /\ got' = [u \in Url |-> 0]
  /\ UNCHANGED <<web, wanted, transfers, ircd_rehashing, kept>>

Crash ==
  /\ up
  /\ up' = FALSE /\ conf_include' = {} /\ transfers' = {} /\ ircd_rehashing' = FALSE
  /\ running' = <<>> /\ outcome' = "none"
  /\ UNCHANGED <<web, wanted, cache, got, kept>>

(* REHASH of an operator or a signal; while one is under way it is refused.*)
rehash ==
  /\ up /\ ~ircd_rehashing
  /\ got' = [u \in Url |-> 0]
  /\ LET old == {e \in conf_include : e.loaded /\ e.file # "own"}
     IN IF old = {}
        THEN init_conf(conf_include, cache) /\ UNCHANGED <<transfers, ircd_rehashing>>
        ELSE /\ ircd_rehashing' = TRUE
             /\ conf_include' = {[e EXCEPT !.queued = @ \/ e \in old] : e \in conf_include}
             /\ transfers' = transfers \cup {download_file_async(e) : e \in old}
             /\ outcome' = "none"
             /\ UNCHANGED <<cache, running, up>>
  /\ UNCHANGED <<web, wanted, kept>>

(* The copy and its modification time that a download in the background    *)
(* leaves at entry e: none when it failed, e's own when nothing is newer.  *)
Downloaded(e, since) ==
  IF web[e.url] <= since
  THEN [e EXCEPT !.file = "tmp", !.text = IF e.file = "cache" THEN cache[e.url] ELSE @]
  ELSE [e EXCEPT !.file = "tmp", !.text = [v |-> web[e.url], tail |-> FALSE]]

InCache(e, since) ==
  IF web[e.url] <= since /\ e.file = "cache" THEN cache[e.url]
  ELSE unreal_copyfile(Downloaded(e, since).text, cache[e.url])

(* Wrong: the first download that ends starts the reading.                 *)
InternalIfDone_First(entries, copies) ==
  init_conf(entries, copies) /\ ircd_rehashing' = FALSE
InternalIfDone(entries, copies) ==
  IF Queued(entries) # {}
  THEN /\ conf_include' = entries /\ cache' = copies
       /\ UNCHANGED <<ircd_rehashing, running, up, outcome>>
  ELSE init_conf(entries, copies) /\ ircd_rehashing' = FALSE

(* url_do_transfers_async finds a download at its end.                     *)
conf_download_complete(t, reached) ==
  /\ transfers' = transfers \ {t}
  /\ IF EntryOf(t.url) = {}
     THEN UNCHANGED <<conf_include, cache, ircd_rehashing, running, up, outcome, got, kept>>
     ELSE LET e == CHOOSE e \in EntryOf(t.url) : TRUE
              new == [(IF reached THEN Downloaded(e, t.since) ELSE e) EXCEPT !.queued = FALSE]
          IN /\ InternalIfDone(
                  (conf_include \ {e}) \cup {new},
                  IF reached THEN [cache EXCEPT ![t.url] = InCache(e, t.since)] ELSE cache)
             /\ got' = IF reached THEN [got EXCEPT ![t.url] = web[t.url]] ELSE got
             /\ kept' = IF reached THEN kept \cup {t.url} ELSE kept
  /\ UNCHANGED <<web, wanted>>

IncludesNext ==
  \/ \E u \in Url : Publish(u)
  \/ \E w \in Wanted : EditConf(w)
  \/ Boot
  \/ Crash
  \/ rehash
  \/ \E t \in transfers, reached \in BOOLEAN : conf_download_complete(t, reached)

IncludesSpec == IncludesInit /\ [][IncludesNext]_includesVars
-----------------------------------------------------------------------------
(* A REHASH under way waits for a download that is under way, each download*)
(* belongs to an entry that is still there (it carries its address), and   *)
(* no entry waits for a download when no REHASH is under way: a REHASH can *)
(* neither stay for ever nor be given up by the end of another one.        *)
WaitsForDownloads ==
  /\ ircd_rehashing <=> Queued(conf_include) # {}
  /\ {t.url : t \in transfers} = {e.url : e \in Queued(conf_include)}
  /\ Cardinality(transfers) = Cardinality(Queued(conf_include))

(* The list holds the includes the server runs with, each once; nothing of *)
(* a configuration that was refused stays.                                 *)
ListIsWhatRuns ==
  /\ \A e \in conf_include : e.loaded
  /\ {e.url : e \in conf_include} = DOMAIN running
  /\ Cardinality(conf_include) = Cardinality(DOMAIN running)

(* What a REHASH has fetched in the background is not lost when the        *)
(* download it waits for then fails: the server runs with it or with       *)
(* something newer.                                                        *)
FetchedIsUsed ==
  outcome = "loaded" => \A u \in DOMAIN running \cap Url : running[u].v >= got[u]

(* Whatever happens to downloads and to the server, the three hold.        *)
IncludesSound == WaitsForDownloads /\ ListIsWhatRuns /\ FetchedIsUsed

(* config.h: when an include cannot be fetched its most recent version is  *)
(* used, and the server will still be able to REHASH.  So the include that *)
(* makes the REHASH of a running server fail is one no copy of which was   *)
(* ever kept.                                                              *)
StillRehashes == up /\ outcome \in Url => outcome \notin kept
=============================================================================
