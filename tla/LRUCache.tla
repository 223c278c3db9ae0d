------------------------------ MODULE LRUCache ------------------------------
(***************************************************************************)
(* The cache of util/lru_cache.js over the list of util/lru.js, as it is   *)
(* used without expiry and without validation (the block cache of an       *)
(* agent): a value of each operation is the cache it leaves behind.        *)
(*                                                                         *)
(* Items have an identity: an item that was removed or evicted while it    *)
(* loads lives on, outside of the list, until its load ends.               *)
(***************************************************************************)
EXTENDS Integers, Sequences, SequencesExt

CONSTANTS
    CacheKeys,  \* what is cached
    Items,      \* numbers that stand for LRUItem objects
    Length,     \* item_usage(): how much the value of a key uses
    MaxUsage    \* max_usage

ASSUME CacheKeysAssumption == IsFiniteSet(CacheKeys)
ASSUME ItemsAssumption     == Items \subseteq Nat \ {0} /\ IsFiniteSet(Items)
ASSUME LengthAssumption    == Length \in [CacheKeys -> Nat]
ASSUME MaxUsageAssumption  == MaxUsage \in Nat \ {0}

NoItem  == 0
Vacant  == [id |-> "none", size |-> 0, data |-> FALSE, load |-> "none"]

EmptyCache == [map   |-> [k \in CacheKeys |-> NoItem],
               list  |-> <<>>,
               usage |-> 0,
               item  |-> [i \in Items |-> Vacant]]

Linked(c)      == ToSet(c.list)
UsageOf(c, S)  == SumFunctionOnSet([i \in Items |-> c.item[i].size], S)
VacantItems(c)   == {i \in Items : c.item[i] = Vacant}

\* an item outside of the list lives as long as its load
Collect(c) ==
    [c EXCEPT !.item = [i \in Items |-> IF i \in Linked(c) \/ c.item[i].load # "none"
                                       THEN c.item[i] ELSE Vacant]]

\* the list without the items of S
Without(list, S) ==
    LET kept[n \in 0..Len(list)] ==
            IF n = 0 THEN <<>>
            ELSE IF list[n] \in S THEN kept[n - 1] ELSE Append(kept[n - 1], list[n])
    IN  kept[Len(list)]

\* the items of S leave the list and the map
Unlink(c, S) ==
    Collect([c EXCEPT !.list = Without(c.list, S),
                      !.map  = [k \in CacheKeys |-> IF \E i \in S : c.item[i].id = k
                                                    THEN NoItem ELSE c.map[k]]])

\* _update_usage: drop items from the back while the cache uses too much
UpdateUsage(c, diff) ==
    LET Back(n) == ToSet(SubSeq(c.list, Len(c.list) - n + 1, Len(c.list)))
        Left(n) == c.usage + diff - UsageOf(c, Back(n))
        n       == CHOOSE n \in 0..Len(c.list) :
                       /\ Left(n) <= MaxUsage \/ n = Len(c.list)
                       /\ \A m \in 0..(n - 1) : Left(m) > MaxUsage
    IN  [Unlink(c, Back(n)) EXCEPT !.usage = Left(n)]

\* find_or_add_item: a hit moves to the front, a miss adds a new item there
FindOrAdd(c, k) ==
    LET hit == c.map[k]
        new == CHOOSE i \in VacantItems(c) : \A j \in VacantItems(c) : i <= j
    IN  IF hit # NoItem
        THEN [c EXCEPT !.list = <<hit>> \o Without(c.list, {hit})]
        ELSE UpdateUsage([c EXCEPT !.map[k] = new,
                                   !.list = <<new>> \o c.list,
                                   !.item[new] = [Vacant EXCEPT !.id = k, !.size = 1]], 1)

\* mutant: an item that left the list is accounted too
SetUsageAlways(c, i, size) ==
    UpdateUsage([c EXCEPT !.item[i].size = size], size - c.item[i].size)
\* set_usage: an item outside of the list is not accounted
SetUsage(c, i, size) ==
    LET sized == [c EXCEPT !.item[i].size = size]
    IN  IF i \in Linked(c) THEN UpdateUsage(sized, size - c.item[i].size) ELSE sized

\* get_with_cache: one load at a time for an item
Get(c, k) ==
    LET found == FindOrAdd(c, k)
        i     == found.map[k]
    IN  IF found.item[i].data \/ found.item[i].load # "none"
        THEN found
        ELSE [found EXCEPT !.item[i].load = "reading"]

\* _load_item, when the load answered
Loaded(c, i) ==
    Collect(SetUsage([c EXCEPT !.item[i].data = TRUE, !.item[i].load = "none"],
                     i, Length[c.item[i].id]))

\* _load_item, when the load threw: an item without a value stays in the list
LoadThrew(c, i) == Collect([c EXCEPT !.item[i].load = "none"])

\* put_in_cache
PutInCache(c, k) ==
    LET found == FindOrAdd(c, k)
        i     == found.map[k]
    IN  SetUsage([found EXCEPT !.item[i].data = TRUE], i, Length[k])

\* mutant: the value is forgotten and the item, with its load, is kept
InvalidateValue(c, K) ==
    [c EXCEPT !.item = [i \in Items |-> IF i \in Linked(c) /\ c.item[i].id \in K
                                       THEN [c.item[i] EXCEPT !.data = FALSE] ELSE c.item[i]]]
\* multi_invalidate_keys, invalidate: remove_item of each key
Invalidate(c, K) ==
    LET S == {c.map[k] : k \in K} \ {NoItem}
    IN  UpdateUsage(Unlink(c, S), -UsageOf(c, S))

\* What the assertions of LRU._sanity() promise, and that no key has an item outside
\* of the list: the usage is that of the items in the list and within the limit.
CacheAgrees(c) ==
    /\ IsInjective(c.list)
    /\ c.usage = UsageOf(c, Linked(c))
    /\ c.usage <= MaxUsage
    /\ \A i \in Linked(c) : c.map[c.item[i].id] = i
    /\ \A k \in CacheKeys : c.map[k] # NoItem => c.map[k] \in Linked(c)
=============================================================================
