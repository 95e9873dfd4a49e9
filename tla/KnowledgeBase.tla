---------------------------- MODULE KnowledgeBase ----------------------------
(***************************************************************************)
(* The knowledge of a workspace: kag_retriever_node of several tasks of    *)
(* one process, which ingest their documents into the three stores of      *)
(* KnowledgeRepo (Postgres, Qdrant, Neo4j), record which documents are     *)
(* parsed in the execution and the knowledge section of the task's row,    *)
(* and answer from the stores or from the retrieval cache, while store     *)
(* calls fail and the process dies.                                        *)
(*                                                                         *)
(* A document is the sequence of text items docling finds in it; an item   *)
(* has a label, a level and a size.  A chunk is a piece of a document with *)
(* the number of the ingestion that made it (chunk ids are fresh uuids).   *)
(* What a query's words hit is the constant Relevance.                     *)
(*                                                                         *)
(* Left out: the limits of the vector and the graph search (what the text  *)
(* search finds does not depend on them), query filters, the token counts  *)
(* behind the classes and the budget, and installations without Postgres.  *)
(***************************************************************************)
EXTENDS Integers, FiniteSets, SequencesExt

CONSTANTS
  Task, Doc, Query, Fact, None,
  DocsOf,      \* inputs.business_documents of a task
  QueryOf,     \* the rewritten query of a task
  File,        \* format and size of a document's file
  SmallTokens, MediumTokens, SmallBytes, MediumBytes,
  Items,       \* what docling finds in it
  FactOf,      \* the fact the entities of a large document give
  Relevance,   \* how often the words of a query occur in a document
  Ask,         \* what analyze_query finds in a query
  MinChars, ChunkSize, ParentSize,
  TopK,        \* of the plan, the token budget included
  Window,      \* rows of the workspace that the text search reads, the newest
  TextLimit,   \* hits that it returns
  Rounds,      \* bound on the visits of the node, per task
  MaxTroubles  \* bound on crashes and failed calls together

Files == [format : {"text", "word", "table", "gone"}, tokens : Nat, bytes : Nat]
Asks == [terms : Nat, analytic : BOOLEAN, related : BOOLEAN]
ChunkIds == [doc : Doc, piece : Nat, type : {"leaf", "parent"}, copy : Nat]
Labels == {"title", "section_header", "text"}
Channels == {"vector", "graph"}

\* A document is added to a task once (_append_asset_once, evidence compiler).
ASSUME KnowledgeParameters ==
  /\ IsFiniteSet(Fact)
  /\ DocsOf \in [Task -> Seq(Doc)] /\ \A t \in Task : IsInjective(DocsOf[t])
  /\ QueryOf \in [Task -> Query]
  /\ File \in [Doc -> Files] /\ FactOf \in [Doc -> Fact]
  /\ Items \in [Doc -> Seq([label : Labels, level : Nat, size : Nat])]
  /\ Relevance \in [Query -> [Doc -> Nat]]
  /\ Ask \in [Query -> Asks]
  /\ {SmallTokens, MediumTokens, SmallBytes, MediumBytes} \subseteq Nat
  /\ MinChars \in Nat /\ ChunkSize \in Nat \ {0} /\ ParentSize \in Nat
  /\ TopK \in Nat \ {0} /\ Window \in Nat /\ TextLimit \in Nat /\ TopK <= TextLimit
  /\ Rounds \in [Task -> Nat]
  /\ MaxTroubles \in Nat

VARIABLES
  rows,      \* kag_doc_chunks, the newest first
  vectors,   \* chunks with a point in Qdrant
  facts,     \* supported_by_chunk of a relation in Neo4j
  copies,    \* ingestions of a document so far
  parsed,    \* DocumentCache
  cache,     \* RetrievalCache
  mem, know,            \* document states in the process, per section
  saved, knowSaved,     \* the same in the row
  at, todo, batch, failed, channels, found, hits, cached, round,
  crashes, faults

stores == <<rows, vectors, facts, copies>>
sections == <<mem, know, saved, knowSaved>>
flow == <<at, todo, batch, failed, channels, found, hits, cached, round>>
vars == <<stores, parsed, cache, sections, flow, crashes, faults>>

Documents(t) == ToSet(DocsOf[t])
Pending(t) == [d \in Documents(t) |-> "pending"]

-----------------------------------------------------------------------------
(* Comprehensions and sorting of lists *)

\* The elements of seq at the positions I, in their order.
Picked(seq, I) ==
  LET picked[n \in 0 .. Len(seq)] ==
        IF n = 0 THEN <<>>
        ELSE LET before == picked[n - 1]
             IN  IF n \in I THEN Append(before, seq[n]) ELSE before
  IN  picked[Len(seq)]

\* A list of chunks with the greatest keys first and ties in their order: from the
\* last one on, each goes behind those with a greater key.
Sorted(key) ==
  [chunks \in Seq(ChunkIds) |->
     LET place[n \in 0 .. Len(chunks)] ==
           [list \in Seq(ChunkIds) |->
              IF n = 0 THEN list
              ELSE LET greater == {k \in DOMAIN list : key[list[k]] > key[chunks[n]]}
                   IN  place[n - 1][InsertAt(list, Cardinality(greater) + 1, chunks[n])]]
     IN  place[Len(chunks)][<<>>]]

Distinct ==
  [list \in Seq(ChunkIds) |->
     Picked(list, {i \in DOMAIN list : \A j \in 1 .. i - 1 : list[j] # list[i]})]

-----------------------------------------------------------------------------
(* DocumentClassifier, DocumentParser: the class and the sections of a document *)

ClassBy(n, small, medium) ==
  CASE n <= small -> "small" [] n > medium -> "large" [] OTHER -> "medium"

\* Tables and files that are gone are refused; tokens decide where they can be
\* estimated, the size of the file where not.
Class(d) ==
  CASE File[d].format \in {"table", "gone"} -> "unknown"
    [] File[d].format = "text" -> ClassBy(File[d].tokens, SmallTokens, MediumTokens)
    [] File[d].format = "word" -> ClassBy(File[d].bytes + 1, SmallBytes, MediumBytes)

Section(level, kind, size) == [level |-> level, kind |-> kind, size |-> size]

Total(items) ==
  LET total[n \in 0 .. Len(items)] ==
        IF n = 0 THEN 0 ELSE total[n - 1] + items[n].size
  IN  total[Len(items)]

HeaderOf(item) ==
  IF item.label = "title" THEN Section(0, "document_title", item.size)
  ELSE Section(IF item.level = 0 THEN 1 ELSE item.level, "section_header", item.size)

\* A section is a heading and the text up to the next one, the first has no
\* heading; flush_section drops a section without text, its heading with it.
SectionsOf(items) ==
  LET some == Picked(items, {i \in DOMAIN items : items[i].size > 0})
      heads == <<0>> \o Picked([i \in DOMAIN some |-> i],
                               {i \in DOMAIN some : some[i].label # "text"})
      end(k) == IF k = Len(heads) THEN Len(some) ELSE heads[k + 1] - 1
      body(k) == Total(SubSeq(some, heads[k] + 1, end(k)))
      head(k) == IF k = 1 THEN Section(1, "synthetic_root", 0)
                 ELSE HeaderOf(some[heads[k]])
      read == Picked([k \in DOMAIN heads |-> [head(k) EXCEPT !.size = body(k)]],
                     {k \in DOMAIN heads : body(k) > 0})
  IN  IF read = <<>> /\ Total(some) > 0
      THEN <<Section(1, "fallback_fulltext", Total(some))>> ELSE read

\* _parse_as_text, when docling is not there or fails.
AsText(items) == <<Section(1, "", Total(items))>>

-----------------------------------------------------------------------------
(* DocumentChunker *)

Piece(type, size) == [type |-> type, size |-> size]

Split(size) ==
  LET n == (size + ChunkSize - 1) \div ChunkSize
  IN  [i \in 1 .. n |-> Piece("leaf",
         IF i < n THEN ChunkSize ELSE size - (n - 1) * ChunkSize)]

Layout(s) == IF s.level <= 2 /\ s.size > ParentSize THEN Split(s.size)
             ELSE <<Piece("leaf", s.size)>>

ParentChild(s) ==
  <<Piece("parent", IF s.size < ChunkSize THEN s.size ELSE ChunkSize)>>
    \o IF s.size > ChunkSize THEN Split(s.size) ELSE <<>>

Layered(secs) ==
  /\ Len(secs) > 1
  /\ \E i, j \in DOMAIN secs :
       \/ secs[i].level # secs[j].level \/ secs[i].level > 1
       \/ secs[i].kind \in {"document_title", "section_header"}

Chunked(secs, items) ==
  LET cut(sec) == IF sec.size = 0 THEN <<>>
                  ELSE IF Layered(secs) THEN Layout(sec) ELSE ParentChild(sec)
      pieces[n \in 0 .. Len(secs)] ==
        IF n = 0 THEN <<>> ELSE pieces[n - 1] \o cut(secs[n])
  IN  IF secs = <<>> THEN Split(Total(items)) ELSE pieces[Len(secs)]

\* _build_chunks: a small document is one chunk; short chunks are dropped.
PiecesOf(d, secs) ==
  IF Class(d) = "small"
  THEN IF Total(Items[d]) = 0 THEN <<>> ELSE <<Piece("leaf", Total(Items[d]))>>
  ELSE LET pieces == Chunked(secs, Items[d])
       IN  Picked(pieces, {i \in DOMAIN pieces : pieces[i].size >= MinChars})

Chunk(d, pieces, n, i) == [doc |-> d, piece |-> i, type |-> pieces[i].type, copy |-> n]
ChunksOf(d, pieces, n) == [i \in DOMAIN pieces |-> Chunk(d, pieces, n, i)]

Leaves(chunks) == {c \in ToSet(chunks) : c.type = "leaf"}

\* What a document may be read as.
Readings == [d \in Doc |-> {SectionsOf(Items[d]), AsText(Items[d])}]
Pieces == [d \in Doc |-> [secs \in Readings[d] |-> PiecesOf(d, secs)]]

-----------------------------------------------------------------------------
(* QueryEngine *)

\* Mutant of Cut: the plan's limit is not applied.
CutNothing(n) == [list \in Seq(ChunkIds) |-> list]

\* list[:n]
Cut(n) ==
  [list \in Seq(ChunkIds) |-> SubSeq(list, 1, IF Len(list) < n THEN Len(list) ELSE n)]

\* In hundredths.
Difficulty(q) == CASE Ask[q].analytic -> 80
                   [] Ask[q].terms >= 6 /\ ~Ask[q].analytic -> 60
                   [] OTHER -> 25

\* The channels beside the text that a query is worth.
Wanted(q) ==
  {c \in Channels : \/ c = "vector" /\ Difficulty(q) >= 30
                    \/ c = "graph" /\ (Difficulty(q) >= 70 \/ Ask[q].related)}

ByWords(q) == Sorted([c \in ChunkIds |-> Relevance[q][c.doc]])

\* The rows at the positions I, the best first, the newest first among equals.
Ranked(q, I) == ByWords(q)[Picked(rows, I)]

\* search_chunks reads the newest rows of the workspace, whatever the query.
TextHits(q) ==
  LET matching == {i \in DOMAIN rows : i <= Window /\ Relevance[q][rows[i].doc] > 0}
  IN  Cut(TextLimit)[Ranked(q, matching)]

\* Similarity is taken to order the points as the words do.
VectorHits(q) == Ranked(q, {i \in DOMAIN rows : rows[i] \in vectors})

\* search_facts: a relation stands for the chunk that supports it.
FactHits(q) ==
  LET match == {f \in Fact : /\ facts[f] # None
                             /\ \E d \in Doc : FactOf[d] = f /\ Relevance[q][d] > 0}
  IN  SetToSeq({facts[f] : f \in match})

\* fuse_results, the weights 1/(60+rank) of the ranks in units of 1/100000.
Fused(lists) ==
  LET share(l, c) == IF Contains(l, c)
                     THEN 100000 \div (60 + CHOOSE k \in DOMAIN l : l[k] = c) ELSE 0
      weight == [c \in ChunkIds |->
                   share(lists[1], c) + share(lists[2], c) + share(lists[3], c)]
  IN  Cut(2 * TopK)[Sorted(weight)[Distinct[lists[1] \o lists[2] \o lists[3]]]]

\* cross_encoder_rerank and enforce_budget: the words decide, then the fusion.
Kept(q, fused) == Cut(TopK)[ByWords(q)[fused]]

-----------------------------------------------------------------------------
Init ==
  /\ rows = <<>> /\ vectors = {} /\ facts = [f \in Fact |-> None]
  /\ copies = [d \in Doc |-> 0]
  /\ parsed = [d \in Doc |-> None]
  /\ cache = [q \in Query |-> None]
  /\ mem = [t \in Task |-> Pending(t)] /\ saved = mem
  /\ know = [t \in Task |-> None]
  /\ knowSaved \in [Task -> {None}] \union {mem}
  /\ at = [t \in Task |-> "start"]
  /\ todo = [t \in Task |-> <<>>] /\ batch = [t \in Task |-> <<>>]
  /\ failed = [t \in Task |-> {}] /\ channels = [t \in Task |-> {}]
  /\ found = [t \in Task |-> <<>>] /\ hits = [t \in Task |-> <<>>]
  /\ cached = [t \in Task |-> FALSE] /\ round = [t \in Task |-> 1]
  /\ crashes = 0 /\ faults = 0

Trouble == crashes + faults < MaxTroubles

Fault == Trouble /\ faults' = faults + 1

GoTo(t, place) == at' = [at EXCEPT ![t] = place]

-----------------------------------------------------------------------------
(* kag_retriever_node: the documents *)

Unparsed(t, states) ==
  Picked(DocsOf[t], {i \in DOMAIN DocsOf[t] : states[DocsOf[t][i]] # "parsed"})

\* Mutant of Enter: the knowledge section says what is still to ingest.
EnterByKnowledge(t) ==
  /\ at[t] = "start"
  /\ mem' = [mem EXCEPT ![t] = IF @ = None THEN saved[t] ELSE @]
  /\ know' = [know EXCEPT ![t] = CASE @ # None -> @
                                  [] @ = None /\ knowSaved[t] # None -> knowSaved[t]
                                  [] OTHER -> mem'[t]]
  /\ todo' = [todo EXCEPT ![t] = Unparsed(t, know'[t])]
  /\ failed' = [failed EXCEPT ![t] = {}]
  /\ GoTo(t, "next")
  /\ UNCHANGED <<stores, parsed, cache, saved, knowSaved, batch, channels, found,
                 hits, cached, round, crashes, faults>>

\* The flow has the execution section, restored if need be; the knowledge
\* section is restored, or made from the execution section's documents.
Enter(t) ==
  /\ at[t] = "start"
  /\ mem' = [mem EXCEPT ![t] = IF @ = None THEN saved[t] ELSE @]
  /\ know' = [know EXCEPT ![t] =
       CASE @ # None -> @
         [] @ = None /\ knowSaved[t] # None -> knowSaved[t]
         [] OTHER -> mem'[t]]
  /\ todo' = [todo EXCEPT ![t] = Unparsed(t, mem'[t])]
  /\ failed' = [failed EXCEPT ![t] = {}]
  /\ GoTo(t, "next")
  /\ UNCHANGED <<stores, parsed, cache, saved, knowSaved, batch, channels, found,
                 hits, cached, round, crashes, faults>>

Doing(t, place) == at[t] = place /\ todo[t] # <<>>

GiveUp(t) ==
  /\ failed' = [failed EXCEPT ![t] = @ \union {Head(todo[t])}]
  /\ todo' = [todo EXCEPT ![t] = Tail(@)]
  /\ GoTo(t, "next")

\* ingest_documents up to the chunks; docling may fail, and then the file is
\* read as text; a file parsed before is in the cache.
Parse(t) ==
  /\ Doing(t, "next")
  /\ LET d == Head(todo[t])
     IN  /\ Class(d) # "unknown"
         /\ \E secs \in IF parsed[d] = None THEN Readings[d] ELSE {parsed[d]} :
              /\ parsed' = [parsed EXCEPT ![d] = secs]
              /\ IF secs = AsText(Items[d]) /\ parsed[d] = None THEN Fault ELSE UNCHANGED faults
              /\ batch' = [batch EXCEPT ![t] = ChunksOf(d, Pieces[d][secs], copies[d] + 1)]
         /\ copies' = [copies EXCEPT ![d] = @ + 1]
  /\ GoTo(t, "rows")
  /\ UNCHANGED <<rows, vectors, facts, cache, sections, todo, failed, channels, found,
                 hits, cached, round, crashes>>

\* A file that cannot be read, or is none of the builder's, leaves no result.
ParseFails(t) ==
  /\ Doing(t, "next")
  /\ IF Class(Head(todo[t])) = "unknown" THEN UNCHANGED faults ELSE Fault
  /\ GiveUp(t)
  /\ UNCHANGED <<stores, parsed, cache, sections, batch, channels, found, hits,
                 cached, round, crashes>>

\* What follows save_chunks_and_embeddings, whatever it returned.
AfterSave(t) ==
  IF Class(Head(todo[t])) = "large" /\ Leaves(batch[t]) # {} THEN "graph" ELSE "mark"

rest == <<copies, parsed, cache, sections, batch, channels, found, hits, cached,
          round, crashes>>

StoreRows(t) ==
  /\ Doing(t, "rows") /\ batch[t] # <<>>
  /\ rows' = Reverse(batch[t]) \o rows
  /\ GoTo(t, IF Leaves(batch[t]) # {} THEN "vectors" ELSE AfterSave(t))
  /\ UNCHANGED <<vectors, facts, todo, failed, faults, rest>>

\* Mutant of StoreNothing: the refused save is tried again.
StoreNothingAgain(t) ==
  /\ Doing(t, "rows") /\ batch[t] = <<>>
  /\ GoTo(t, "rows")
  /\ UNCHANGED <<rows, vectors, facts, todo, failed, faults, rest>>

\* Nothing to store: refused, and nobody looks.
StoreNothing(t) ==
  /\ Doing(t, "rows") /\ batch[t] = <<>>
  /\ GoTo(t, AfterSave(t))
  /\ UNCHANGED <<rows, vectors, facts, todo, failed, faults, rest>>

\* Mutant of RowsFail: the vectors are stored all the same.
RowsFailAndGoOn(t) ==
  /\ Doing(t, "rows") /\ batch[t] # <<>> /\ Fault
  /\ GoTo(t, "vectors")
  /\ UNCHANGED <<rows, vectors, facts, todo, failed, rest>>

RowsFail(t) ==
  /\ Doing(t, "rows") /\ batch[t] # <<>> /\ Fault
  /\ GoTo(t, AfterSave(t))
  /\ UNCHANGED <<rows, vectors, facts, todo, failed, rest>>

StoreVectors(t) ==
  /\ Doing(t, "vectors")
  /\ vectors' = vectors \union Leaves(batch[t])
  /\ GoTo(t, AfterSave(t))
  /\ UNCHANGED <<rows, facts, todo, failed, faults, rest>>

VectorsFail(t) ==
  /\ Doing(t, "vectors") /\ Fault
  /\ GoTo(t, AfterSave(t))
  /\ UNCHANGED <<rows, vectors, facts, todo, failed, rest>>

\* KnowledgeFusion keeps the first chunk that says it.
Supporting(chunks) ==
  CHOOSE c \in Leaves(chunks) : \A other \in Leaves(chunks) : c.piece <= other.piece

\* merge_triples overwrites the chunk of a relation that is there already.
StoreFacts(t) ==
  /\ Doing(t, "graph")
  /\ facts' = [facts EXCEPT ![FactOf[Head(todo[t])]] = Supporting(batch[t])]
  /\ GoTo(t, "mark")
  /\ UNCHANGED <<rows, vectors, todo, failed, faults, rest>>

FactsFail(t) ==
  /\ Doing(t, "graph") /\ Fault
  /\ GoTo(t, "mark")
  /\ UNCHANGED <<rows, vectors, facts, todo, failed, rest>>

\* The extraction raises: the document has failed, its rows stay.
ExtractionRaises(t) ==
  /\ Doing(t, "graph") /\ Fault
  /\ GiveUp(t)
  /\ UNCHANGED <<rows, vectors, facts, rest>>

marking == <<stores, parsed, cache, batch, failed, channels, found, hits, cached,
             round, crashes>>

\* persist answers FALSE when it fails, and nobody looks.
Save(t) ==
  \/ saved' = [saved EXCEPT ![t] = mem[t]] /\ UNCHANGED faults
  \/ Fault /\ UNCHANGED saved

SaveKnow(t) ==
  \/ knowSaved' = [knowSaved EXCEPT ![t] = know[t]] /\ UNCHANGED faults
  \/ Fault /\ UNCHANGED knowSaved

\* Mutant of Mark: the whole batch is marked with its first document.
MarkAll(t) ==
  /\ Doing(t, "mark")
  /\ mem' = [mem EXCEPT ![t] = [d \in Documents(t) |-> "parsed"]]
  /\ know' = [know EXCEPT ![t] = mem'[t]]
  /\ saved' = [saved EXCEPT ![t] = mem'[t]]
  /\ GoTo(t, "know_mark")
  /\ UNCHANGED <<knowSaved, todo, faults, marking>>

Mark(t) ==
  /\ Doing(t, "mark")
  /\ mem' = [mem EXCEPT ![t][Head(todo[t])] = "parsed"]
  /\ know' = [know EXCEPT ![t] = mem'[t]]
  /\ \/ saved' = [saved EXCEPT ![t] = mem'[t]] /\ UNCHANGED faults
     \/ Fault /\ UNCHANGED saved
  /\ GoTo(t, "know_mark")
  /\ UNCHANGED <<knowSaved, todo, marking>>

KnowMark(t) ==
  /\ Doing(t, "know_mark") /\ SaveKnow(t)
  /\ todo' = [todo EXCEPT ![t] = Tail(@)]
  /\ GoTo(t, "next")
  /\ UNCHANGED <<mem, know, saved, marking>>

\* A document failed: the task waits for a human.
Block(t) ==
  /\ at[t] = "next" /\ todo[t] = <<>> /\ failed[t] # {}
  /\ Save(t)
  /\ GoTo(t, "blocked")
  /\ UNCHANGED <<mem, know, knowSaved, todo, marking>>

-----------------------------------------------------------------------------
(* kag_retriever_node: the retrieval *)

searching == <<stores, parsed, todo, batch, failed, round, crashes>>

\* A probe that fails counts as no index.
Indexed ==
  {c \in Channels : \/ c = "vector" /\ vectors # {}
                    \/ c = "graph" /\ \E f \in Fact : facts[f] # None}

Plan(t) ==
  /\ at[t] = "next" /\ todo[t] = <<>> /\ failed[t] = {}
  /\ \/ channels' = [channels EXCEPT ![t] = Indexed] /\ UNCHANGED faults
     \/ \E c \in Indexed : channels' = [channels EXCEPT ![t] = Indexed \ {c}] /\ Fault
  /\ LET entry == cache[QueryOf[t]]
     IN  /\ cached' = [cached EXCEPT ![t] = entry # None]
         /\ hits' = [hits EXCEPT ![t] = IF entry = None THEN <<>> ELSE entry]
         /\ GoTo(t, IF entry = None THEN "recall" ELSE "keep")
  /\ UNCHANGED <<cache, sections, found, searching>>

\* The searches answer with nothing when they fail.
RecallText(t) ==
  /\ at[t] = "recall"
  /\ \/ found' = [found EXCEPT ![t] = TextHits(QueryOf[t])] /\ UNCHANGED faults
     \/ found' = [found EXCEPT ![t] = <<>>] /\ Fault
  /\ GoTo(t, "recall_more")
  /\ UNCHANGED <<cache, sections, channels, hits, cached, searching>>

\* The other channels, the fusion, the cut and the cache.
Rank(t) ==
  /\ at[t] = "recall_more"
  /\ LET q == QueryOf[t]
         used == Wanted(q) \intersect channels[t]
         near == IF "vector" \in used THEN VectorHits(q) ELSE <<>>
         known == IF "graph" \in used THEN FactHits(q) ELSE <<>>
     IN  \E lists \in {<<found[t], near, known>>} : \E fused \in {Fused(lists)} :
         /\ hits' = [hits EXCEPT ![t] = Kept(q, fused)]
         /\ cache' = [cache EXCEPT ![q] = hits'[t]]
  /\ found' = [found EXCEPT ![t] = <<>>]
  /\ GoTo(t, "keep")
  /\ UNCHANGED <<sections, channels, cached, faults, searching>>

\* The snapshot goes to both sections, documents and all.
Keep(t) ==
  /\ at[t] = "keep" /\ Save(t)
  /\ GoTo(t, "keep_know")
  /\ UNCHANGED <<mem, know, knowSaved, todo, marking>>

KeepKnow(t) ==
  /\ at[t] = "keep_know" /\ SaveKnow(t)
  /\ GoTo(t, "answered")
  /\ UNCHANGED <<mem, know, saved, todo, marking>>

\* Small documents that were uploaded with the task and share a word with the
\* query go to the context builder as they are.
Injected(t) == {d \in Documents(t) : Class(d) = "small" /\ Relevance[QueryOf[t]][d] > 0}

Shown(t) == Injected(t) \union {c.doc : c \in ToSet(hits[t])}

\* A later round of the flow comes back to the node.
Again(t) ==
  /\ at[t] = "answered" /\ round[t] < Rounds[t]
  /\ round' = [round EXCEPT ![t] = @ + 1]
  /\ GoTo(t, "start")
  /\ UNCHANGED <<stores, parsed, cache, sections, todo, batch, failed, channels,
                 found, hits, cached, crashes, faults>>

-----------------------------------------------------------------------------
Expire(q) ==
  /\ cache[q] # None
  /\ cache' = [cache EXCEPT ![q] = None]
  /\ UNCHANGED <<stores, parsed, sections, flow, crashes, faults>>

Left == {"answered", "blocked"}

\* What is in memory is gone; a flow in the node starts the node again.
Crash ==
  /\ Trouble /\ crashes' = crashes + 1
  /\ mem' = [t \in Task |-> None] /\ know' = [t \in Task |-> None]
  /\ parsed' = [d \in Doc |-> None] /\ cache' = [q \in Query |-> None]
  /\ at' = [t \in Task |-> IF at[t] \in Left THEN at[t] ELSE "start"]
  /\ todo' = [t \in Task |-> <<>>] /\ batch' = [t \in Task |-> <<>>]
  /\ failed' = [t \in Task |-> {}] /\ channels' = [t \in Task |-> {}]
  /\ found' = [t \in Task |-> <<>>]
  /\ UNCHANGED <<stores, saved, knowSaved, hits, cached, round, faults>>

Ingest(t) ==
  \/ Enter(t) \/ Parse(t) \/ ParseFails(t)
  \/ StoreRows(t) \/ StoreNothing(t) \/ RowsFail(t)
  \/ StoreVectors(t) \/ VectorsFail(t)
  \/ StoreFacts(t) \/ FactsFail(t) \/ ExtractionRaises(t)
  \/ Mark(t) \/ KnowMark(t) \/ Block(t)

Retrieve(t) == Plan(t) \/ RecallText(t) \/ Rank(t) \/ Keep(t) \/ KeepKnow(t)

Step(t) == Ingest(t) \/ Retrieve(t)

AllLeft == (\A t \in Task : at[t] \in Left) /\ UNCHANGED vars

Next ==
  \/ \E t \in Task : Step(t) \/ Again(t)
  \/ \E q \in Query : Expire(q)
  \/ Crash
  \/ AllLeft

Spec == Init /\ [][Next]_vars

\* The threads of the pool go on; nothing else has to happen.
FairSpec == Spec /\ WF_vars((\E t \in Task : Ingest(t)) \/ (\E t \in Task : Retrieve(t)))

-----------------------------------------------------------------------------
(* Properties *)

Place == Left \union {"start", "next", "rows", "vectors", "graph", "mark", "know_mark",
  "recall", "recall_more", "keep", "keep_know"}
States(t) == [Documents(t) -> {"pending", "parsed"}]

\* Every variable has its type.
TypeOK ==
  /\ ToSet(rows) \subseteq ChunkIds /\ vectors \subseteq ChunkIds
  /\ \A f \in Fact : facts[f] = None \/ facts[f] \in ChunkIds
  /\ copies \in [Doc -> Nat]
  /\ \A t \in Task :
       /\ saved[t] \in States(t) /\ mem[t] \in States(t) \union {None}
       /\ know[t] \in States(t) \union {None}
       /\ knowSaved[t] \in States(t) \union {None}
       /\ ToSet(todo[t]) \subseteq Documents(t) /\ failed[t] \subseteq Documents(t)
       /\ ToSet(batch[t]) \subseteq ChunkIds /\ ToSet(hits[t]) \subseteq ChunkIds
       /\ Len(hits[t]) <= TopK
  /\ at \in [Task -> Place]
  /\ channels \in [Task -> SUBSET Channels]
  /\ round \in [Task -> Nat]
  /\ {crashes, faults} \subseteq 0 .. MaxTroubles

\* knowledge_repo.py calls Postgres the source of truth and Qdrant a hot cache:
\* whatever fails or dies, a point in Qdrant belongs to a row in Postgres.  The
\* chunk a relation cites is a row too, as long as no call failed: the triples
\* are stored even when the rows were not.
SourceOfTruth ==
  /\ vectors \subseteq ToSet(rows)
  /\ faults = 0 => \A f \in Fact : facts[f] # None => facts[f] \in ToSet(rows)

\* All rows of a document are among those that the text search reads.
Recent(d) == \A i \in DOMAIN rows : rows[i].doc = d => i <= Window

\* A task answers from its documents: each one that matches the query is among what
\* is shown, whoever ingested it and whatever crashes came in between, unless it is
\* not small and some of its rows are older than the newest ones which the search
\* reads, or better hits fill the plan, or a call failed.  It says nothing of an
\* answer from the retrieval cache, which may be older than the documents.
AnswerSeesDocuments ==
  \A t \in Task : at[t] = "answered" /\ ~cached[t] /\ faults = 0 =>
    \/ Len(hits[t]) = TopK
    \/ \A d \in Documents(t) :
         Relevance[QueryOf[t]][d] > 0 /\ (Class(d) = "small" \/ Recent(d))
           => d \in Shown(t)

\* What AnswerSeesDocuments needs of the documents: one that a query matches and
\* that is not small leaves a chunk, however it is read (_build_chunks drops the
\* short ones, and a document without chunks is marked as parsed like any other).
Searchable ==
  \A d \in Doc, q \in Query : Relevance[q][d] > 0 /\ Class(d) \in {"medium", "large"} =>
    \A secs \in Readings[d] : Pieces[d][secs] # <<>>

\* A document whose parsed mark reached the row is never ingested again by its
\* task, whichever section is ahead after a crash.
IngestedOnceRecorded ==
  [][\A t \in Task : at[t] = "next" /\ at'[t] = "rows" =>
       saved[t][Head(todo[t])] # "parsed"]_vars

\* Every visit of the node ends, with an answer or waiting for a human.
EventuallyLeaves == <>[](\A t \in Task : at[t] \in Left)
=============================================================================
