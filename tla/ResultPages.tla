----------------------------- MODULE ResultPages -----------------------------
(***************************************************************************)
(* The pages behind AnalysisQueue: the pooled buffers the analyses render  *)
(* into, the cache of finished pages, and the page each browser gets.      *)
(*                                                                         *)
(* A page is the sequence of pieces written to its buffer: the key of the  *)
(* request whose analysis rendered it, or Torn for the leading bytes of a  *)
(* broken cache file.                                                      *)
(***************************************************************************)
EXTENDS AnalysisQueue

CONSTANTS
    Buffers,      \* the bytes.Buffers of bufPool
    Keys,         \* values of RequestData.Hash
    KeyOf,        \* the key of the request each connection sends
    Cached,       \* keys whose page an earlier process may have left on disk
    DiskFaults,   \* keys whose cache file an I/O error or a crash may break
    NoBuf, Torn

ASSUME PagesAssumption ==
    /\ NoBuf \notin Buffers
    /\ Torn \notin Keys
    /\ KeyOf \in [Conns -> Keys]
    /\ Cached \subseteq Keys
    /\ DiskFaults \subseteq Keys

VARIABLES
    bufOf, free,  \* the buffer each request points to, the buffers in the pool
    content,      \* the pieces written to each buffer
    saved, torn,  \* the cache file of each key (<<>>: none), the broken ones
    page,         \* the page each browser got
    mixed,        \* history: <<d, k>> if the analysis of d rendered into the buffer
                  \* of a request with key k
    partly        \* history: keys of which a load left a part in a buffer

bufVars   == <<bufOf, free, content>>
cacheVars == <<saved, torn>>
blame     == <<mixed, partly>>
pageVars  == <<bufVars, cacheVars, page, blame>>
allVars   == <<vars, pageVars>>

PInit ==
    /\ Init
    /\ bufOf = [c \in Conns |-> NoBuf]
    /\ free = Buffers
    /\ content = [b \in Buffers |-> <<>>]
    /\ saved = [k \in Keys |-> IF k \in Cached THEN <<k>> ELSE <<>>]
    /\ torn \in SUBSET (Cached \cap DiskFaults)
    /\ page = [c \in Conns |-> <<>>]
    /\ mixed = {} /\ partly = {}

Live(c) == hpc[c] \notin {"idle", "done"}

Writes(c, pieces) == content' = [content EXCEPT ![bufOf[c]] = @ \o pieces]

-----------------------------------------------------------------------------
(* The steps of AnalysisQueue that touch a page. *)

\* What a buffer holds when it has been taken and reset.
NotReset(b) == content[b]                                        \* fault
Reset(b) == <<>>

\* bufPool.Get and Reset; any pooled buffer may be the one.
TakeBuffer(c) ==
    /\ Admit(c)
    /\ \E b \in free :
         /\ bufOf' = [bufOf EXCEPT ![c] = b]
         /\ free' = free \ {b}
         /\ content' = [content EXCEPT ![b] = Reset(b)]
    /\ UNCHANGED <<cacheVars, page, blame>>

\* LoadRaw copies an intact file into the buffer.
LoadPage(c) ==
    LET k == KeyOf[c] IN
    /\ LookupHit(c)
    /\ saved[k] # <<>> /\ k \notin torn
    /\ Writes(c, saved[k])
    /\ UNCHANGED <<bufOf, free, cacheVars, page, blame>>

BeingSaved(k, c) == \E d \in Conns \ {c} : hpc[d] = "save" /\ KeyOf[d] = k

\* LoadRaw returns false.  Nothing was read (no file, a failed open, a key that
\* is being saved) or, from a broken file or one that a saver truncated after
\* the check, a part that stays in the buffer.
LoadNothing(c) ==
    /\ LookupMiss(c)
    /\ \/ UNCHANGED <<content, partly>>
       \/ /\ KeyOf[c] \in torn \/ BeingSaved(KeyOf[c], c)
          /\ Writes(c, <<Torn>>)
          /\ partly' = partly \cup {KeyOf[c]}
    /\ UNCHANGED <<bufOf, free, cacheVars, page, mixed>>

\* The broken files after a page that could not be written was removed.
WithoutFile(k) == torn \ {k}

\* SaveRaw stores the page or, when another saver has the key, leaves the file
\* alone; an I/O error leaves it alone (os.Create), removes it (io.Copy, Flush)
\* or breaks it (gz.Close, whose error nobody looks at).
StorePage(c) ==
    LET k == KeyOf[c] IN
    /\ SavePage(c)
    /\ \/ /\ saved' = [saved EXCEPT ![k] = content[bufOf[c]]]
          /\ torn' \in {torn \ {k}, torn \cup ({k} \cap DiskFaults)}
       \/ (BeingSaved(k, c) \/ k \in DiskFaults) /\ UNCHANGED cacheVars
       \/ k \in DiskFaults /\ saved' = [saved EXCEPT ![k] = <<>>] /\ torn' = WithoutFile(k)
    /\ UNCHANGED <<bufVars, page, blame>>

\* Fault: the buffer goes back to the pool as soon as the page is sent, and again
\* when the handler returns.
SendPageAndPut(c) ==
    /\ Succ(c)
    /\ page' = [page EXCEPT ![c] = IF link[c] = "up" THEN content[bufOf[c]] ELSE @]
    /\ free' = free \cup {bufOf[c]}
    /\ UNCHANGED <<bufOf, content, cacheVars, blame>>

SendPage(c) ==
    /\ Succ(c)
    /\ page' = [page EXCEPT ![c] = IF link[c] = "up" THEN content[bufOf[c]] ELSE @]
    /\ UNCHANGED <<bufVars, cacheVars, blame>>

\* The deferred bufPool.Put.  The request keeps pointing to the buffer.
PutBuffer(c) ==
    /\ Finish(c)
    /\ free' = free \cup {bufOf[c]}
    /\ UNCHANGED <<bufOf, content, cacheVars, page, blame>>

\* tmplResult.Execute(buf, ...) at the end of perfection.Do and hps.Do, into the
\* buffer of the request, whoever has it now.
RenderPage ==
    /\ Render
    /\ Writes(wq, <<KeyOf[wq]>>)
    /\ LET met == {c \in Conns \ {wq} : Live(c) /\ bufOf[c] = bufOf[wq]}
       IN  mixed' = mixed \cup {<<wq, KeyOf[c]>> : c \in met}
    /\ UNCHANGED <<bufOf, free, cacheVars, page, partly>>

\* The cleaner removes a page that is older than an hour.
Expire(k) ==
    /\ saved[k] # <<>>
    /\ saved' = [saved EXCEPT ![k] = <<>>]
    /\ torn' = torn \ {k}
    /\ UNCHANGED <<vars, bufVars, page, blame>>

Untouched(c) ==
    /\ \/ Refuse(c) \/ Enqueue(c) \/ SendPosition(c) \/ AwaitCancelled(c)
       \/ AwaitResult(c) \/ Error(c) \/ PingFails(c)
       \/ SendReorder(c) \/ Straggle(c) \/ LinkFails(c)
    /\ UNCHANGED pageVars

WorkerUntouched ==
    /\ \/ WorkerTake \/ WorkerSleep \/ WorkerWake \/ WorkerStart \/ WorkerRun
       \/ WorkerSkip \/ Progress \/ AnalysisFails \/ Report \/ Rest
    /\ UNCHANGED pageVars

PNext ==
    \/ \E c \in Conns :
         \/ TakeBuffer(c) \/ LoadPage(c) \/ LoadNothing(c) \/ StorePage(c)
         \/ SendPage(c) \/ PutBuffer(c) \/ Untouched(c)
    \/ RenderPage
    \/ WorkerUntouched
    \/ \E k \in Keys : Expire(k)

PSpec == PInit /\ [][PNext]_allVars

-----------------------------------------------------------------------------
(* Properties. *)

PagesTypeOK ==
    /\ bufOf \in [Conns -> Buffers \cup {NoBuf}]
    /\ free \subseteq Buffers
    /\ content \in [Buffers -> Seq(Keys \cup {Torn})]
    /\ saved \in [Keys -> Seq(Keys \cup {Torn})]
    /\ torn \subseteq {k \in Keys : saved[k] # <<>>}
    /\ page \in [Conns -> Seq(Keys \cup {Torn})]
    /\ mixed \subseteq Conns \X Keys /\ partly \subseteq Keys

PiecesOf(p) == {p[i] : i \in DOMAIN p}

Unmixed(k) == \A m \in mixed : m[2] # k

\* What there may be in a page of k besides: the pages of late analyses that met it,
\* and a part of a broken file.
Strays(k) ==
    {KeyOf[m[1]] : m \in {n \in mixed : n[2] = k}} \cup (IF k \in partly THEN {Torn} ELSE {})

Explained(k, p) ==
    /\ k \in PiecesOf(p)
    /\ PiecesOf(p) \ {k} \subseteq Strays(k)
    /\ Unmixed(k) => p \in {<<k>>, <<Torn, k>>}

\* Every page that a browser gets or the cache keeps has the page of its own key in
\* it, whatever went through the pooled buffer before.  Nothing is with it but the
\* start of that key's cache file, if a load broke off in it, and the page of an
\* analysis that outlived its handler and rendered into the buffer of a request for
\* this key, which only happens when the connection of the other one failed
\* (http.go:71-77, 118-119, queue.go:91-93, cache.go:261).
PagesExplained ==
    /\ \A k \in Keys : saved[k] # <<>> => Explained(k, saved[k])
    /\ \A c \in Conns : page[c] # <<>> => Explained(KeyOf[c], page[c])
    /\ \A m \in mixed : m[1] \in Fragile

\* Each request that is being served has its buffer to itself, and the only one that
\* may still write to it is an analysis whose own connection failed: the pointer that
\* outlives the deferred Put (http.go:73, queue.go:91-93) is never used for a client
\* that is there.
BuffersApart ==
    \A c \in Conns : Live(c) =>
      /\ bufOf[c] \notin free
      /\ \A d \in Conns : Live(d) /\ bufOf[c] = bufOf[d] => c = d
      /\ wpc = "run" /\ wq # c /\ bufOf[wq] = bufOf[c] => wq \in Fragile

\* A request leaves its analysis behind only if its connection failed.
OnlyFragileLeave ==
    /\ \A c \in Conns \ Fragile : hpc[c] # "done" => link[c] = "up"
    /\ \A c \in Held : hpc[c] \in {"linger", "done"} => c \in Fragile

\* The page of c is in its buffer: the worker rendered it and reports, or
\* reported it, or the handler has it.
Rendered(c) ==
    \/ hpc[c] \in {"save", "succ"}
    \/ chanResult[c] = "true"
    \/ c = wq /\ wpc = "report" /\ res

\* A buffer is private while its request is served.
BuffersPrivate ==
    /\ \A c \in Conns : Live(c) =>
         /\ bufOf[c] \in Buffers \ free
         /\ \A d \in Conns : Live(d) /\ bufOf[c] = bufOf[d] => c = d
    /\ \A c \in Held : bufOf[c] \in Buffers

\* A request that waits for its page, in the queue or on its way there.
Unrendered(c) == hpc[c] = "enqueue" \/ (c \in Held /\ ~Rendered(c))

\* What the buffer of a request for k holds: the page once it was rendered, nothing
\* else that is not explained, and before that nothing but the start of a broken file.
Holds(c, k, p) ==
    /\ PiecesOf(p) \ {k} \subseteq Strays(k)
    /\ Rendered(c) => k \in PiecesOf(p)
    /\ Unmixed(k) =>
         /\ hpc[c] = "lookup" => p = <<>>
         /\ Unrendered(c) => p \in {<<>>, <<Torn>>}
         /\ Rendered(c) => p \in {<<k>>, <<Torn, k>>}
ContentInv == \A c \in Conns : Live(c) => Holds(c, KeyOf[c], content[bufOf[c]])

\* What PagesExplained rests on.
PagesInv == BuffersPrivate /\ ContentInv /\ PagesExplained
=============================================================================
