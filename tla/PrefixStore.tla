---------------------------- MODULE PrefixStore ----------------------------
(***************************************************************************)
(* The prefix stores of the KVS studies (kvs.py): one shared remote store  *)
(* of per-holder objects, the HBM and DRAM caches of every node, and the   *)
(* observation that splits a prompt over them.  A prompt is its blocks and *)
(* their sizes in tokens.                                                  *)
(***************************************************************************)
EXTENDS BlockCache, Bags

CONSTANTS
    Node,        \* the nodes that hold copies
    TraceBlock,  \* blocks that come from the trace
    TransferFixed, TransferToken   \* what overlap leaves of a transfer's cost

ASSUME StoreAssumption ==
    /\ Node \subseteq Int /\ IsFiniteSet(Node) /\ Node # {}
    /\ TransferFixed \in Nat /\ TransferToken \in Nat

\* Every cache of these studies is an LRU one.
NoBlocks == EmptyCache("LRU")
EmptyCaches == [n \in Node |-> NoBlocks]

\* The tokens of the blocks from+1..to.
Tokens(prompt, from, to) == SumFunctionOnSet(prompt.sizes, (from + 1)..to)

InputTokens(prompt) == Tokens(prompt, 0, Len(prompt.sizes))

\* KvtCostModel.non_overlapped_ms, in integers.
TransferWork(tokens) ==
    IF tokens = 0 THEN 0 ELSE TransferFixed + tokens * TransferToken

-----------------------------------------------------------------------------
\* The remote store.  The objects are in recency order, oldest first; a holder
\* without objects has no entry in the code and the empty set here.

EmptyStore == [objects |-> <<>>, byHolder |-> [n \in Node |-> {}],
               copies |-> EmptyBag, transfers |-> EmptyBag]

\* Variant: an object that is placed again keeps its age.
RefreshedInPlace(store, object) == store

Refreshed(store, object) ==
    [store EXCEPT !.objects = MovedToEnd(@, object)]

\* The last copy of a block takes its transfer count along.
Forgotten(store, object) ==
    LET copies == store.copies (-) SetToBag({object[2]})
    IN  [store EXCEPT
            !.objects = Without(@, object),
            !.byHolder[object[1]] = @ \ {object[2]},
            !.copies = copies,
            !.transfers = IF BagIn(object[2], copies) THEN @
                          ELSE [b \in DOMAIN @ \ {object[2]} |-> @[b]]]

Stored(store, object) ==
    [store EXCEPT !.objects = Append(@, object),
                  !.byHolder[object[1]] = @ \cup {object[2]},
                  !.copies = @ (+) SetToBag({object[2]})]

\* One block of a placement: st is the store and what this request inserted.
PlaceObject(st, object, capacity) ==
    LET objects == st.store.objects
        full    == Len(objects) >= capacity
        victims == {i \in DOMAIN objects : objects[i] \notin st.inserted}
    IN  CASE Contains(objects, object) -> [st EXCEPT !.store = Refreshed(@, object)]
          [] ~Contains(objects, object) /\ full /\ victims = {} -> st
          [] OTHER ->
               [store    |-> Stored(IF full THEN Forgotten(st.store, objects[Min(victims)])
                                    ELSE st.store, object),
                inserted |-> st.inserted \cup {object}]

StorePlaced(store, capacity, node, prompt) ==
    LET placed[i \in 0..Len(prompt.blocks)] ==
            IF i = 0 THEN [store |-> store, inserted |-> {}]
            ELSE PlaceObject(placed[i - 1], <<node, prompt.blocks[i]>>, capacity)
    IN  placed[Len(prompt.blocks)].store

\* The longest prefix that one other holder has.
ForeignHit(store, node, prompt) ==
    Max({0} \cup {HitBlocks(store.byHolder[h], prompt.blocks) : h \in Node \ {node}})

Transferred(store, prompt, blocks) ==
    [store EXCEPT !.transfers = @ (+) SetToBag({prompt.blocks[i] : i \in 1..blocks})]

-----------------------------------------------------------------------------
\* What a node finds of a prompt: its HBM, then its DRAM or its own objects in
\* the store, then what another holder has, then nothing.  dram is the node's
\* DRAM cache, an empty one outside HYBRID; the other holders answer only when
\* the lookup does.
Observed(hbm, dram, store, node, prompt, lookup) ==
    LET own    == HitBlocks(hbm.resident, prompt.blocks)
        near   == Max({own, HitBlocks(dram.resident, prompt.blocks),
                       HitBlocks(store.byHolder[node], prompt.blocks)})
        remote == IF lookup THEN Max({near, ForeignHit(store, node, prompt)}) ELSE near
    IN  [hbm          |-> Tokens(prompt, 0, own),
         dram         |-> Tokens(prompt, own, near),
         remote       |-> Tokens(prompt, near, remote),
         recompute    |-> Tokens(prompt, remote, Len(prompt.blocks)),
         remoteBlocks |-> remote - near]

-----------------------------------------------------------------------------
\* The four indices of the store, which place updates one by one, describe the
\* same objects, each once and within the capacity; transfers are only counted
\* for blocks the store still has (kvs.py 106-154).
IndexesAgree(store, capacity) ==
    /\ Len(store.objects) <= capacity
    /\ IsInjective(store.objects)
    /\ \A n \in Node : store.byHolder[n] =
           {b \in BagToSet(store.copies) : Contains(store.objects, <<n, b>>)}
    /\ \A o \in ToSet(store.objects) : BagIn(o[2], store.copies)
    /\ \A b \in BagToSet(store.copies) : store.copies[b] =
           Cardinality({n \in Node : b \in store.byHolder[n]})
    /\ BagToSet(store.transfers) \subseteq BagToSet(store.copies)
=============================================================================
