-------------------------------- MODULE Map ---------------------------------
(***************************************************************************)
(* xtyMap: the tree of RbTree with a value in each node.  Insert and []    *)
(* give a node that they make the default value; the value that is meant   *)
(* is written once the tree is in order again, by Insert(Node) itself or   *)
(* by the caller through the reference that [] returns.                    *)
(***************************************************************************)
EXTENDS RbTree

CONSTANTS Values,
          Value0,  \* Value()
          NoValue, \* of a key that is not in the map
          Written, \* bound: the keys that are given another value,
          MaxValued \* in trees of at most so many nodes

ASSUME MapAssumption == /\ Value0 \in Values /\ NoValue \notin Values
                        /\ Written \subseteq Keys /\ MaxValued \in Nat

VARIABLES m_Value, \* the values of the nodes; a dead node has the default
          ref,     \* the node whose value is written next, or the sentinel
          new      \* that value

mapVars == <<vars, m_Value, ref, new>>

MapInit ==
    /\ Init
    /\ m_Value = [k \in Keys |-> Value0]
    /\ ref = Sentinel /\ new = Value0

\* Between calls.
Ready == pc = "idle" /\ ref = Sentinel

\* Bound: a tree with a value that is not the default stays below MaxValued + 1
\* nodes, a tree of default values may take every key.
Room == m_NodeCount < MaxValued
Unvalued == \A k \in Keys : m_Value[k] = Value0

\* Mutant: Value() is written to a node that is there already.
FindOrInsertFresh(k) ==
    /\ IF Search(tree, k) = k THEN UNCHANGED vars ELSE Insert(k)
    /\ m_Value' = [m_Value EXCEPT ![k] = Value0]

\* Insert(Key) and []: a node that is there keeps its value, a new one gets the
\* default.
FindOrInsert(k) ==
    IF Search(tree, k) = k THEN UNCHANGED <<vars, m_Value>>
    ELSE Insert(k) /\ m_Value' = [m_Value EXCEPT ![k] = Value0]

LookUp(k) ==
    /\ Ready /\ (Room \/ Unvalued)
    /\ FindOrInsert(k)
    /\ UNCHANGED <<ref, new>>

\* Insert(Node), Insert(Key, Value), and m[Key] = Value.
Put(k, v) ==
    /\ Ready /\ Room /\ FindOrInsert(k)
    /\ ref' = k /\ new' = v

Assign ==
    /\ pc = "idle" /\ ref # Sentinel
    /\ m_Value' = [m_Value EXCEPT ![ref] = new]
    /\ ref' = Sentinel /\ new' = Value0
    /\ UNCHANGED vars

DeleteKey(k) ==
    /\ Ready /\ Delete(k)
    /\ m_Value' = [m_Value EXCEPT ![k] = Value0]
    /\ UNCHANGED <<ref, new>>

\* Search(Key, Value): both have to match.
SearchPair(k, v) == Search(tree, k) = k /\ m_Value[k] = v

\* Delete(Key, Value) and Delete(Node).
DeletePair(k, v) == SearchPair(k, v) /\ DeleteKey(k)

MapClear ==
    /\ Ready /\ Clear
    /\ m_Value' = [k \in Keys |-> Value0]
    /\ UNCHANGED <<ref, new>>

MapFixUp == FixUp /\ UNCHANGED <<m_Value, ref, new>>

MapNext ==
    \/ MapFixUp \/ Assign \/ MapClear
    \/ \E k \in Keys : LookUp(k) \/ DeleteKey(k)
    \/ \E k \in Written, v \in Values \ {Value0} : Put(k, v) \/ DeletePair(k, v)

MapSpec == MapInit /\ [][MapNext]_mapVars

-----------------------------------------------------------------------------
(***************************************************************************)
(* Properties                                                              *)
(***************************************************************************)
MapTypeOK ==
    /\ TypeOK
    /\ m_Value \in [Keys -> Values] /\ ref \in Nodes /\ new \in Values
    /\ ref # Sentinel => ref \in Live(tree)

\* What a caller finds under each key.
Contents == [k \in Keys |-> IF tree.parent[k] = Null THEN NoValue
                            ELSE IF k = ref THEN new ELSE m_Value[k]]

\* Through all rotations and transplants, a key has the value that was written
\* last, and a look-up makes the keys that it does not find and changes no value:
\* the calls are those of a dictionary, each in one step of it.
Dict == INSTANCE Dictionary WITH dict <- Contents
ImplementsDictionary == Dict!Spec
=============================================================================
