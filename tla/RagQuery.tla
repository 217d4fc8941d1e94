------------------------------- MODULE RagQuery -------------------------------
(***************************************************************************)
(* What the index of KnowledgeIngest is for: rag queries of a tenant's API *)
(* key, and the embeddings that make chunks and queries comparable.        *)
(*                                                                         *)
(* A text is embedded by the model that the embedding route leads to when  *)
(* it is asked for, and by localEmbed if there is none or it does not      *)
(* answer; vectors of two embeddings have the same length, and comparing   *)
(* them is no error and means nothing.  Every step here is a step of       *)
(* KnowledgeIngest, or leaves what that module speaks of alone.            *)
(***************************************************************************)
EXTENDS KnowledgeIngest

CONSTANTS
  Queries,       \* rag queries that may be asked
  Models,        \* models with an embeddings endpoint that can be reached
  Local,         \* localEmbed
  NoRoute,       \* there is no active route
  NoEmbedding,
  MaxChanges,    \* bound: changes of routes
  MaxFallbacks   \* bound: embeddings the provider fails to make

Embeddings == Models \cup {Local}
Scopes     == 1..3   \* a route of the tenant, of its app, of the platform

ASSUME RagAssumption ==
  /\ Local \notin Models /\ NoRoute \notin Embeddings /\ NoEmbedding \notin Embeddings
  /\ Workers \cap Files = {}
  /\ MaxChanges \in Nat /\ MaxFallbacks \in Nat

VARIABLES
  route,      \* what the embedding route of a scope leads to
  key,        \* api_keys.status of the key, or that it has expired
  space,      \* the embedding that made the vector of a row
  held,       \* the embedding a worker, or addFile, is about to store
  query,      \* how far a query is, and what its search saw
  reading,    \* history: a rebuild when it read the chunks
  changes, fallbacks

ragVars == <<route, key, space, held, query, reading, changes, fallbacks>>

-----------------------------------------------------------------------------
(* resolveEmbeddingRoute takes the route of the narrowest scope; if its    *)
(* model or provider is not active the text is embedded here, and no wider *)
(* route is tried.                                                         *)
Embedding ==
  IF \E s \in Scopes : route[s] # NoRoute
  THEN route[CHOOSE s \in Scopes : route[s] # NoRoute /\ \A t \in 1..(s - 1) : route[t] = NoRoute]
  ELSE Local

(* embedForScope, which never fails.                                       *)
Embed(e) ==
  \/ e = Embedding /\ UNCHANGED fallbacks
  \/ /\ e = Local /\ Embedding # Local
     /\ fallbacks < MaxFallbacks
     /\ fallbacks' = fallbacks + 1

(* A route is created, changed, or switched off, or a model or provider    *)
(* is; changes that no text is embedded otherwise for are left out.        *)
ChangeRoute(s, e) ==
  /\ changes < MaxChanges
  /\ changes' = changes + 1
  /\ route' = [route EXCEPT ![s] = e]
  /\ Embedding' # Embedding
  /\ UNCHANGED <<vars, key, space, held, query, reading, fallbacks>>

-----------------------------------------------------------------------------
SlipKeptSpace == space

(* Rows that are deleted take their vectors with them.                     *)
KeptSpace == [r \in vectors' |-> space[r]]

(* addFile with content embeds all chunks first ...                        *)
EmbedInline(f, e) ==
  /\ parse[f] = "absent" /\ held[f] = NoEmbedding
  /\ Embed(e)
  /\ held' = [held EXCEPT ![f] = e]
  /\ UNCHANGED <<vars, route, key, space, query, reading, changes>>

(* ... and stores them with the file.                                      *)
StoreInline(f) ==
  /\ held[f] # NoEmbedding
  /\ AddInline(f)
  /\ space' = [r \in vectors' |-> IF r.file = f THEN held[f] ELSE space[r]]
  /\ held' = [held EXCEPT ![f] = NoEmbedding]
  /\ UNCHANGED <<route, key, query, reading, changes, fallbacks>>

(* A worker embeds the next chunk before it stores anything of it.         *)
EmbedChunk(w, e) ==
  /\ pc[w] \in {"create", "update"} /\ held[w] = NoEmbedding
  /\ Embed(e)
  /\ held' = [held EXCEPT ![w] = e]
  /\ UNCHANGED <<vars, route, key, space, query, reading, changes>>

(* The row of a parsed chunk, whose embedding is in the worker's hands.    *)
StoreChunk(w) ==
  /\ held[w] # NoEmbedding
  /\ CreateChunk(w)
  /\ UNCHANGED ragVars

(* The vector is stored, by a parse or by a rebuild.                       *)
StoreVector(w) ==
  /\ held[w] # NoEmbedding
  /\ \/ /\ SetVector(w)
        /\ space' = [r \in vectors' |-> IF r \in Present(Row(at[w], run[w], next[w]))
                                        THEN held[w] ELSE space[r]]
     \/ /\ UpdateChunk(w)
        /\ space' = [r \in vectors' |-> IF r \in todo[w] \ todo'[w]
                                        THEN held[w] ELSE space[r]]
  /\ held' = [held EXCEPT ![w] = NoEmbedding]
  /\ UNCHANGED <<route, key, query, reading, changes, fallbacks>>

(* Rows whose embedding is in the hands of anybody but w.                  *)
InHand(w) ==
  LET holders == {v \in Workers \ {w} : held[v] # NoEmbedding} IN
  (UNION {FullRun(f, 0) : f \in {g \in Files : held[g] # NoEmbedding}})
  \cup {Row(at[v], run[v], next[v]) : v \in {u \in holders : at[u] \in Files}}
  \cup (UNION {todo[v] : v \in {u \in holders : at[u] \in Rebuilds}})

(* A rebuild reads the chunks it will refresh.                             *)
BeginRebuild(w) ==
  /\ ReadChunks(w)
  /\ reading' = [reading EXCEPT ![at[w]] = [changes |-> changes, fallbacks |-> fallbacks,
                                            inHand |-> InHand(w)]]
  /\ UNCHANGED <<route, key, space, held, query, changes, fallbacks>>

(* Any other step of a worker: an embedding is lost with the loop it was   *)
(* made in.                                                                *)
Others(w) ==
  /\ \/ \E j \in Jobs : Take(w, j)
     \/ MarkRunning(w) \/ Load(w) \/ DeleteChunks(w)
     \/ MarkFileSucceeded(w) \/ MarkFileFailed(w)
     \/ MarkTaskSucceeded(w) \/ MarkTaskFailed(w)
     \/ Return(w) \/ Throw(w)
     \/ Fail(w) \/ FailUncaught(w) \/ Die(w) \/ LoseLock(w)
  /\ space' = KeptSpace
  /\ held' = [held EXCEPT ![w] = IF pc'[w] = pc[w] THEN @ ELSE NoEmbedding]
  /\ UNCHANGED <<route, key, query, reading, changes, fallbacks>>

(* The requests that make jobs, and the queue.                             *)
Queueing ==
  /\ \/ \E f \in Files : held[f] = NoEmbedding /\ AddQueued(f)
     \/ \E r \in Rebuilds : RequestRebuild(r)
     \/ \E j \in Jobs : EnqueueFails(j) \/ Enqueue(j) \/ Recover(j)
  /\ UNCHANGED ragVars

-----------------------------------------------------------------------------
CreateApiKey ==
  /\ key = "absent"
  /\ key' = "active"
  /\ UNCHANGED <<vars, route, space, held, query, reading, changes, fallbacks>>

DisableApiKey ==
  /\ key = "active"
  /\ key' = "disabled"
  /\ UNCHANGED <<vars, route, space, held, query, reading, changes, fallbacks>>

ExpireApiKey ==
  /\ key = "active"
  /\ key' = "expired"
  /\ UNCHANGED <<vars, route, space, held, query, reading, changes, fallbacks>>

(* authenticateApiKey finds the key among the active ones, and then only   *)
(* compares it: if it is disabled meanwhile the query goes on.             *)
ragQuery(q) ==
  /\ query[q].stage = "idle"
  /\ query' = [query EXCEPT ![q].stage = IF key = "active" THEN "vector" ELSE "refused"]
  /\ UNCHANGED <<vars, route, key, space, held, reading, changes, fallbacks>>

(* Files that are marked succeeded and lack a chunk among these rows.      *)
Lacking(found) ==
  {f \in Files : parse[f] = "succeeded" /\ ~ \E n \in 0..runs[f] : FullRun(f, n) \subseteq found}

(* The rows with a vector are ranked by their distance to the vector of    *)
(* the query.  Of what the search sees topK rows go into the answer ...    *)
VectorSearch(q) ==
  /\ query[q].stage = "vector"
  /\ IF vectors # {}
     THEN query' = [query EXCEPT ![q].stage = "answered", ![q].lacks = Lacking(vectors)]
     ELSE query' = [query EXCEPT ![q].stage = "text"]
  /\ UNCHANGED <<vars, route, key, space, held, reading, changes, fallbacks>>

(* ... any error of which is no row found.                                 *)
VectorSearchFails(q) ==
  /\ query[q].stage = "vector"
  /\ query' = [query EXCEPT ![q].stage = "text"]
  /\ UNCHANGED <<vars, route, key, space, held, reading, changes, fallbacks>>

(* If no row was found all rows are searched for the terms of the query.   *)
TextSearch(q) ==
  /\ query[q].stage = "text"
  /\ query' = [query EXCEPT ![q].stage = "answered", ![q].lacks = Lacking(rows)]
  /\ UNCHANGED <<vars, route, key, space, held, reading, changes, fallbacks>>

-----------------------------------------------------------------------------
Unread == [changes |-> 0, fallbacks |-> 0, inHand |-> {}]

RagInit ==
  /\ Init
  /\ route = [s \in Scopes |-> NoRoute]
  /\ key = "absent"
  /\ space = [r \in {} |-> Local]
  /\ held = [x \in Workers \cup Files |-> NoEmbedding]
  /\ query = [q \in Queries |-> [stage |-> "idle", lacks |-> {}]]
  /\ reading = [r \in Rebuilds |-> Unread]
  /\ changes = 0 /\ fallbacks = 0

Index ==
  \/ Queueing
  \/ \E f \in Files : StoreInline(f) \/ \E e \in Embeddings : EmbedInline(f, e)
  \/ \E w \in Workers :
       \/ \E e \in Embeddings : EmbedChunk(w, e)
       \/ StoreChunk(w) \/ StoreVector(w) \/ BeginRebuild(w) \/ Others(w)

Search(q) ==
  \/ ragQuery(q)
  \/ VectorSearch(q) \/ VectorSearchFails(q) \/ TextSearch(q)

RagNext ==
  \/ Index
  \/ CreateApiKey \/ DisableApiKey \/ ExpireApiKey
  \/ \E q \in Queries : Search(q)
  \/ \E s \in Scopes, e \in Embeddings \cup {NoRoute} : ChangeRoute(s, e)

RagSpec == RagInit /\ [][RagNext]_<<vars, ragVars>>

-----------------------------------------------------------------------------
RagTypeOK ==
  /\ route \in [Scopes -> Embeddings \cup {NoRoute}]
  /\ key \in {"absent", "active", "disabled", "expired"}
  /\ space \in [vectors -> Embeddings]
  /\ held \in [Workers \cup Files -> Embeddings \cup {NoEmbedding}]
  /\ query \in [Queries -> [stage : {"idle", "refused", "vector", "text", "answered"},
                            lacks : SUBSET Files]]
  /\ reading \in [Rebuilds -> [changes : 0..changes, fallbacks : 0..fallbacks,
                               inHand : SUBSET [file : Files, run : Nat, index : 1..Chunks]]]
  /\ changes \in Nat /\ fallbacks \in Nat

(* Once a rebuild has succeeded, and nothing changed since it read the     *)
(* chunks and every embedding was answered, all vectors are of the present *)
(* embedding, but for rows whose embedding was in other hands at that      *)
(* time, which may come to be stored after the rebuild has refreshed them. *)
RebuiltIsComparable ==
  lost = 0 =>
    \A j \in Rebuilds :
      (task[j] = "succeeded" /\ reading[j].changes = changes /\ reading[j].fallbacks = fallbacks)
        => \A r \in vectors \ reading[j].inHand : space[r] = Embedding

(* A search sees every chunk of a file that is marked as succeeded, though *)
(* its chunks are stored and deleted one statement at a time, unless a     *)
(* worker died or lost its lock, or two calls failed.                      *)
AnswersAreWhole ==
  \A q \in Queries : query[q].lacks # {} => crashes + lost > 0 \/ errors > 1
===============================================================================
