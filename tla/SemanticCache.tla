--------------------------- MODULE SemanticCache ----------------------------
(* Chats that are answered from a cache of earlier answers, while documents  *)
(* are ingested and deleted: SearchIndex with the semantic cache collection  *)
(* and the chat handlers of the API. Two questions are the same when their   *)
(* embeddings are closer than the threshold; a scope is the set of facets a  *)
(* request may see. Of an answer the model keeps what it was drawn from.     *)
EXTENDS SearchIndex

CONSTANTS
    Chats,         \* slots for /chat requests being handled at once
    Questions,     \* questions that are not similar to each other
    Scopes,        \* sets of facets (the tenant is one more of them)
    ChatsOverlap,  \* TRUE: chats run while documents change
    MaxChats, MaxExpired

VARIABLES
    cache,     \* the cached answers
    chats,     \* chats[c]: the chat in slot c, or Idle
    chatBudget \* how many chats may still be asked, how many answers may expire

cacheVars == <<cache, chats, chatBudget>>
vars == <<indexVars, cacheVars>>

\* A citation names the document and the generation whose text it quotes.
Citation == Docs \X Generation
Entry == [question : Questions, scope : Scopes, citations : SUBSET Citation,
          expired : BOOLEAN]
Chat == [at : {"hit", "missed", "streaming"}, question : Questions, scope : Scopes,
         citations : SUBSET Citation]

ASSUME CacheAssumption ==
    /\ ChatsOverlap \in BOOLEAN /\ MaxChats \in Nat /\ MaxExpired \in Nat
    /\ Scopes \subseteq SUBSET Facets
    /\ Idle \notin Chat

CacheTypeOK ==
    /\ cache \in SUBSET Entry
    /\ chats \in [Chats -> Chat \union {Idle}]
    /\ chatBudget \in [asked : 0 .. MaxChats, expired : 0 .. MaxExpired]

TypeOK == IndexTypeOK /\ CacheTypeOK

Init ==
    /\ IndexInit
    /\ cache = {}
    /\ chats = [c \in Chats |-> Idle]
    /\ chatBudget = [asked |-> MaxChats, expired |-> MaxExpired]

-----------------------------------------------------------------------------
(* invalidate_for_document, as the last call of a purge                      *)

\* Mutant of Without: only the answers that cite nothing else are dropped.
WithoutSole(d) ==
    {e \in cache : e.citations = {} \/ \E x \in e.citations : x[1] # d}

Without(d) == {e \in cache : \A x \in e.citations : x[1] # d}

InvalidateByWorker ==
    /\ WorkerInvalidate
    /\ cache' = Without(worker.doc)
    /\ UNCHANGED <<chats, chatBudget>>

\* Mutant of InvalidateByDelete: a delete leaves the answers to their TTL.
InvalidateByDeleteSkipped(r) ==
    /\ DeleteInvalidate(r)
    /\ UNCHANGED cacheVars

InvalidateByDelete(r) ==
    /\ DeleteInvalidate(r)
    /\ cache' = Without(requests[r].doc)
    /\ UNCHANGED <<chats, chatBudget>>

-----------------------------------------------------------------------------
(* stream_chat_response                                                      *)

ChatAt(c, stage) ==
    chats[c] # Idle /\ chats[c].at = stage /\ \A r \in Requests : ~Blocking(r)

NoChats == \A c \in Chats : chats[c] = Idle

\* Mutant of Matches: the scope is left out of the query.
MatchesQuestion(q, s) == {e \in cache : e.question = q}

Matches(q, s) == {e \in cache : e.question = q /\ e.scope = s}

NewChat(stage, q, s, citations) ==
    [at |-> stage, question |-> q, scope |-> s, citations |-> citations]

\* lookup: the best match, which any of the matches may be, unless it expired.
Ask(c, q, s) ==
    /\ chats[c] = Idle /\ \A r \in Requests : ~Blocking(r)
    /\ ChatsOverlap \/ Quiet
    /\ chatBudget.asked > 0
    /\ chatBudget' = [chatBudget EXCEPT !.asked = @ - 1]
    /\ \/ \E e \in Matches(q, s) :
            /\ ~e.expired
            /\ chats' = [chats EXCEPT ![c] = NewChat("hit", q, s, e.citations)]
       \/ /\ Matches(q, s) = {} \/ \E e \in Matches(q, s) : e.expired
          /\ chats' = [chats EXCEPT ![c] = NewChat("missed", q, s, {})]
    /\ UNCHANGED <<indexVars, cache>>

\* Mutant of Leaves: a document without leaves is cited all the same.
LeavesOfAll(s) == {<<d, points[d]>> : d \in Docs}

\* What both retrievers return: Qdrant filters, BM25 is filtered after the fact.
Leaves(s) == {x \in Citation : x[2] \in Searchable(x[1]) /\ x[2].facet \in s}

WithParents(s) == {x \in Leaves(s) : docstore[x[1]] = x[2]}

IndexOpens == collection /\ bm25 # EmptyDir

\* The top k, reranking and compression keep some of it.
Retrieve(c) ==
    /\ ChatAt(c, "missed")
    /\ IndexOpens
    /\ \E kept \in SUBSET WithParents(chats[c].scope) :
         chats' = [chats EXCEPT ![c].at = "streaming", ![c].citations = kept]
    /\ UNCHANGED <<indexVars, cache, chatBudget>>

\* No collection, a directory without an index, or a leaf whose parents are gone
\* among the top k.
RetrieveRaises(c) ==
    /\ ChatAt(c, "missed")
    /\ IndexOpens => WithParents(chats[c].scope) # Leaves(chats[c].scope)
    /\ chats' = [chats EXCEPT ![c] = Idle]
    /\ UNCHANGED <<indexVars, cache, chatBudget>>

\* The answer has been streamed and the messages appended.
Store(c) ==
    /\ ChatAt(c, "streaming")
    /\ cache' = cache \union {[question |-> chats[c].question, scope |-> chats[c].scope,
                               citations |-> chats[c].citations, expired |-> FALSE]}
    /\ chats' = [chats EXCEPT ![c] = Idle]
    /\ UNCHANGED <<indexVars, chatBudget>>

\* A hit is delivered, or the client has gone or the model failed.
Leave(c) ==
    /\ chats[c] # Idle /\ \A r \in Requests : ~Blocking(r)
    /\ chats' = [chats EXCEPT ![c] = Idle]
    /\ UNCHANGED <<indexVars, cache, chatBudget>>

\* Time passes the entry's expires_at; nothing removes it.
Expire(e) ==
    /\ ~e.expired
    /\ chatBudget.expired > 0
    /\ chatBudget' = [chatBudget EXCEPT !.expired = @ - 1]
    /\ cache' = (cache \ {e}) \union {[e EXCEPT !.expired = TRUE]}
    /\ UNCHANGED <<indexVars, chats>>

-----------------------------------------------------------------------------
Next ==
    \/ (ChatsOverlap \/ NoChats) /\ StoreNext /\ UNCHANGED cacheVars
    \/ InvalidateByWorker
    \/ \E r \in Requests : InvalidateByDelete(r)
    \/ \E c \in Chats :
         \/ \E q \in Questions, s \in Scopes : Ask(c, q, s)
         \/ Retrieve(c) \/ RetrieveRaises(c) \/ Store(c) \/ Leave(c)
    \/ \E e \in cache : Expire(e)

Spec == Init /\ [][Next]_vars
-----------------------------------------------------------------------------
(* Properties                                                                *)

\* What a chat shows, from the cache or from retrieval, quotes only text its
\* request may see, whichever request the answer was made for and whatever the
\* documents' facets have become since (_filter_scope_key: a cached answer must
\* not "leak into a request scoped differently").
AnswersInScope == \A c \in Chats : chats[c] # Idle =>
    \A x \in chats[c].citations : x[2].facet \in chats[c].scope

\* A change of a document that ends without an exception leaves no cached answer
\* that quotes another generation of it (invalidate_for_document: "more correct
\* than relying on the TTL alone").
ChangeRefreshesCache ==
    [][ \A d \in Docs : Ends(d) =>
          \A e \in cache' : \A x \in e.citations : x[1] = d => x[2] = points'[d] ]_vars

\* As long as no change failed, a cached answer quotes only what is in the vector
\* store, except for documents whose purge is between its delete of the leaves and
\* its delete of the answers.
Invalidating(d) ==
    \/ WorkerAt("invalidate") /\ worker.doc = d
    \/ \E r \in Requests : requests[r] # Idle /\ requests[r].at = "invalidate"
                           /\ requests[r].doc = d

CachedIsCurrent == \A e \in cache : \A x \in e.citations :
    NothingFailed => Invalidating(x[1]) \/ x[2] = points[x[1]]
=============================================================================
