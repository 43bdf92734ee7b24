----------------------------- MODULE PrefixTree -----------------------------
(***************************************************************************)
(* The radix tree behind the prefix cache, in its two twin implementations *)
(* PythonPrefixCache (tinyserve/prefix/cache.py) and ts_prefix_cache       *)
(* (native/src/prefix_cache.cpp).  A node is named by its path, the tokens *)
(* of the blocks from the root down to it; its children are the nodes one  *)
(* block longer.  Every node lists its owners in order of insertion, and   *)
(* seq_nodes has the nodes of each sequence's path.                        *)
(*                                                                         *)
(* The loops of insert() and evict() take one step per node: pc says where *)
(* a call stands, todo which nodes its loop has still to visit.  Calls do  *)
(* not overlap: the batch loop makes them between two awaits.              *)
(***************************************************************************)
EXTENDS Blocks, Tables, SequencesExt

CONSTANTS
    SeqIds,   \* sequence slots
    Token,    \* vocabulary
    NoSeq,    \* NO_SEQ / TS_PREFIX_NO_SEQ
    Inputs    \* token lists passed by the callers

ASSUME TreeAssumption ==
    /\ NoSeq \notin SeqIds
    /\ Inputs \subseteq Seq(Token)

VARIABLES
    tree,        \* path -> owners; the nodes below the root
    seq_nodes,   \* _seq_nodes: sequence -> its nodes
    node_count,  \* _node_count, kept by hand
    result,      \* what the last call returned, while none is running
    pc,          \* "idle", in evict(), or in insert(): its evict() or its own loop
    seq,         \* seq_id of the running call, NoSeq if there is none
    prompt,      \* tokens of the running insert()
    todo         \* the nodes the running loop has still to visit

treevars == <<tree, seq_nodes, node_count>>
callvars == <<pc, seq, prompt, todo>>
vars == <<treevars, result, callvars>>
-----------------------------------------------------------------------------
Prefix(tokens, n) == SubSeq(tokens, 1, n)

(* The nodes of a prompt's whole blocks.                                   *)
Path(tokens) == {Prefix(tokens, n) : n \in AlignedLengths(Len(tokens))}

(* _seq_nodes.get(s)                                                       *)
NodesOf(s) == IF s \in DOMAIN seq_nodes THEN seq_nodes[s] ELSE {}

HasChildren(path) ==
    \E q \in DOMAIN tree : Len(q) = Len(path) + BlockSize /\ Prefix(q, Len(path)) = path

(* match(): walk down while the next block has a child.                    *)
Walk(tokens) ==
    {n \in AlignedLengths(Len(tokens)) :
        \A m \in AlignedLengths(n) : Prefix(tokens, m) \in DOMAIN tree}

(* Mutant: the oldest owner as donor, owners[0] for owners[-1].            *)
OldestOwnerMatch(tokens) ==
    IF Walk(tokens) = {}
    THEN [n_tokens |-> 0, seq_id |-> NoSeq]
    ELSE LET n == Max(Walk(tokens))
         IN  [n_tokens |-> n, seq_id |-> Head(tree[Prefix(tokens, n)])]

(* ... and name the last owner of the node reached.                        *)
Match(tokens) ==
    IF Walk(tokens) = {}
    THEN [n_tokens |-> 0, seq_id |-> NoSeq]
    ELSE LET n == Max(Walk(tokens))
             owners == tree[Prefix(tokens, n)]
         IN  [n_tokens |-> n,
              seq_id |-> IF owners = <<>> THEN NoSeq ELSE Last(owners)]

ClampedMatch(tokens) ==
    IF usable(Len(tokens)) <= 0
    THEN [n_tokens |-> 0, seq_id |-> NoSeq]
    ELSE [Match(tokens) EXCEPT !.n_tokens = Min({@, usable(Len(tokens))})]
-----------------------------------------------------------------------------
Init ==
    /\ tree = [p \in {} |-> <<>>]
    /\ seq_nodes = [s \in {} |-> {}]
    /\ node_count = 0
    /\ result = [call |-> "new"]
    /\ pc = "idle" /\ seq = NoSeq /\ prompt = <<>> /\ todo = {}

(* A call begins, and returns.                                             *)
Enter(where, s, tokens) ==
    /\ pc = "idle"
    /\ pc' = where /\ seq' = s /\ prompt' = tokens
    /\ result' = [call |-> "running"]

Return(value) ==
    /\ todo = {}
    /\ result' = value
    /\ pc' = "idle" /\ seq' = NoSeq /\ prompt' = <<>>
    /\ UNCHANGED todo

(* _seq_nodes.pop(s): evict() will visit what s has.                       *)
PopNodes(s) ==
    /\ todo' = NodesOf(s)
    /\ seq_nodes' = Without(seq_nodes, s)

MatchForReuse(tokens) ==
    /\ pc = "idle"
    /\ result' = [call |-> "match_for_reuse", hit |-> ClampedMatch(tokens)]
    /\ UNCHANGED <<treevars, callvars>>

(* evict() of a sequence without a claim (double free) has nothing to do.  *)
Evict(s) ==
    /\ Enter("evict", s, <<>>)
    /\ PopNodes(s)
    /\ UNCHANGED <<tree, node_count>>

(* Mutants of the loop body: root first; unlinking a node others hold;     *)
(* counting a node that stays.                                             *)
DropRootFirst(path) ==
    /\ pc \in {"evict", "replace"}
    /\ path \in todo /\ \A q \in todo : Len(q) >= Len(path)
    /\ todo' = todo \ {path}
    /\ LET owners == RemoveFirst(tree[path], seq) IN
       IF owners # <<>> \/ HasChildren(path)
       THEN tree' = [tree EXCEPT ![path] = owners] /\ UNCHANGED node_count
       ELSE tree' = Without(tree, path) /\ node_count' = node_count - 1
    /\ UNCHANGED <<seq_nodes, result, pc, seq, prompt>>

DropShared(path) ==
    /\ pc \in {"evict", "replace"}
    /\ path \in todo /\ \A q \in todo : Len(q) <= Len(path)
    /\ todo' = todo \ {path}
    /\ tree' = Without(tree, path) /\ node_count' = node_count - 1
    /\ UNCHANGED <<seq_nodes, result, pc, seq, prompt>>

DropAlwaysCounts(path) ==
    /\ pc \in {"evict", "replace"}
    /\ path \in todo /\ \A q \in todo : Len(q) <= Len(path)
    /\ todo' = todo \ {path}
    /\ LET owners == RemoveFirst(tree[path], seq) IN
       IF owners # <<>> \/ HasChildren(path)
       THEN tree' = [tree EXCEPT ![path] = owners]
       ELSE tree' = Without(tree, path)
    /\ node_count' = node_count - 1
    /\ UNCHANGED <<seq_nodes, result, pc, seq, prompt>>

(* The loop of evict(), deepest node first: drop the owner, and unlink the *)
(* node if nothing holds it any more.                                      *)
DropNode(path) ==
    /\ pc \in {"evict", "replace"}
    /\ path \in todo /\ \A q \in todo : Len(q) <= Len(path)
    /\ todo' = todo \ {path}
    /\ LET owners == RemoveFirst(tree[path], seq) IN
       IF owners # <<>> \/ HasChildren(path)
       THEN tree' = [tree EXCEPT ![path] = owners] /\ UNCHANGED node_count
       ELSE tree' = Without(tree, path) /\ node_count' = node_count - 1
    /\ UNCHANGED <<seq_nodes, result, pc, seq, prompt>>

EvictReturns ==
    /\ pc = "evict"
    /\ Return([call |-> "evict"])
    /\ UNCHANGED treevars

(* insert() of less than a block; the length test comes before evict().    *)
InsertNothing(tokens, s) ==
    /\ pc = "idle"
    /\ Len(tokens) < BlockSize
    /\ result' = [call |-> "insert", published |-> 0]
    /\ UNCHANGED <<treevars, callvars>>

(* insert() begins with self.evict(seq_id).                                *)
Insert(tokens, s) ==
    /\ Len(tokens) >= BlockSize
    /\ Enter("replace", s, tokens)
    /\ PopNodes(s)
    /\ UNCHANGED <<tree, node_count>>

StartAdding ==
    /\ pc = "replace" /\ todo = {}
    /\ pc' = "add"
    /\ todo' = Path(prompt)
    /\ UNCHANGED <<treevars, result, seq, prompt>>

(* The loop of insert(), root first: create the node if it is missing, and *)
(* append the owner.                                                       *)
AddNode(path) ==
    /\ pc = "add"
    /\ path \in todo /\ \A q \in todo : Len(path) <= Len(q)
    /\ todo' = todo \ {path}
    /\ IF path \in DOMAIN tree
       THEN tree' = [tree EXCEPT ![path] = Append(@, seq)] /\ UNCHANGED node_count
       ELSE tree' = With(tree, path, <<seq>>) /\ node_count' = node_count + 1
    /\ UNCHANGED <<seq_nodes, result, pc, seq, prompt>>

InsertReturns ==
    /\ pc = "add"
    /\ Return([call |-> "insert", published |-> WholeBlocks(Len(prompt))])
    /\ seq_nodes' = With(seq_nodes, seq, Path(prompt))
    /\ UNCHANGED <<tree, node_count>>

(* The Python cache goes on with an empty tree; a native one has no handle *)
(* any more (PrefixBackends).                                              *)
Close ==
    /\ pc = "idle"
    /\ tree' = [p \in {} |-> <<>>]
    /\ seq_nodes' = [s \in {} |-> {}]
    /\ node_count' = 0
    /\ result' = [call |-> "close"]
    /\ UNCHANGED callvars

Next ==
    \/ \E tokens \in Inputs : MatchForReuse(tokens)
    \/ \E tokens \in Inputs, s \in SeqIds : Insert(tokens, s) \/ InsertNothing(tokens, s)
    \/ \E s \in SeqIds : Evict(s)
    \/ \E path \in todo : DropNode(path) \/ AddNode(path)
    \/ EvictReturns \/ StartAdding \/ InsertReturns
    \/ Close

Spec == Init /\ [][Next]_vars
-----------------------------------------------------------------------------
(* Every node of the tree is held by a sequence, at most once, and its     *)
(* parent is in the tree too, in the middle of a loop as well: "every live *)
(* node has an owner" (comment in ts_prefix_cache_match), on which the     *)
(* donor lookup rests, and no eviction tears out a prefix that another     *)
(* sequence still shares.                                                  *)
EveryNodeOwned ==
    \A p \in DOMAIN tree :
        /\ tree[p] # <<>>
        /\ IsInjective(tree[p])
        /\ Len(p) > BlockSize => Prefix(p, Len(p) - BlockSize) \in DOMAIN tree

(* seq_nodes and the owner lists agree, for every sequence no call is      *)
(* working on: it names exactly the nodes that name it.  In the C++ twin   *)
(* this is what keeps the raw Node pointers of seq_nodes from outliving    *)
(* the nodes evict() deletes.                                              *)
NoDanglingNode ==
    \A s \in SeqIds \ {seq} : {p \in DOMAIN tree : Contains(tree[p], s)} = NodesOf(s)

(* The hand-kept counter behind node_count() (exported as the gauge        *)
(* prefix_cache_nodes) is the number of nodes in the tree, at every step.  *)
NodeCountExact == node_count = Cardinality(DOMAIN tree)

(* Refinement: a call takes effect when it begins.  A claim is the longest *)
(* path of a sequence, or what a running insert() will make it; who is     *)
(* newer follows from the order of the owner lists, for a running insert() *)
(* from who shares its first block.                                        *)
Inserting(s) == pc \in {"replace", "add"} /\ s = seq

Longest(paths) ==
    IF paths = {} THEN <<>>
    ELSE CHOOSE p \in paths : \A q \in paths : Len(q) <= Len(p)

ClaimOf(s) ==
    IF Inserting(s) THEN Prefix(prompt, WholeBlocks(Len(prompt)))
    ELSE Longest(NodesOf(s))

InOrder(owners, t, s) ==
    \E i, j \in 1..Len(owners) : i < j /\ owners[i] = t /\ owners[j] = s

Later(s, t) == \E p \in DOMAIN tree : InOrder(tree[p], t, s)

Newer(s, t) ==
    \/ Inserting(s) /\ t # s /\ Prefix(prompt, BlockSize) \in NodesOf(t)
    \/ s # seq /\ t # seq /\ Later(s, t)

Claims == [s \in SeqIds |-> ClaimOf(s)]

Order == {pair \in SeqIds \X SeqIds : Newer(pair[1], pair[2])}

Returned ==
    CASE pc = "evict" -> [call |-> "evict"]
      [] pc \in {"replace", "add"} ->
            [call |-> "insert", published |-> WholeBlocks(Len(prompt))]
      [] OTHER -> result

Index ==
    INSTANCE PrefixCache WITH claims <- Claims, newer <- Order, result <- Returned

(* The tree and its calls implement the abstract prefix cache, and every   *)
(* call returns what PrefixCache says it returns.                          *)
ImplementsIndex == Index!Spec
=============================================================================
