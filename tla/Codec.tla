------------------------------- MODULE Codec -------------------------------
(***************************************************************************)
(* How a message becomes bytes and a message again: Serialize and          *)
(* DeSerialize of the five kinds of xtyMsg (src/src/xty_msg.cpp), and      *)
(* CalculateSerializedMsgLen (src/src/xty_msg.h).                          *)
(*                                                                         *)
(* Memory is a function on addresses.  An enum or a size_t is kept in the  *)
(* cell of its first byte, the cells of its other bytes are never read;    *)
(* the characters of a string take a cell each.  A cursor is what the two  *)
(* pointers of an entity and the memory they go over come to; it stops     *)
(* for good (ok is FALSE) where the code throws XTY_OUT_OF_BUFFER_RANGE.   *)
(***************************************************************************)
EXTENDS Naturals, Sequences

CONSTANTS Char,  \* what a string is made of
          Kinds, \* the values of xtyMsgType
          Short  \* of them, XTY_DULL_MSG and XTY_QUIT_MSG, which have no fields

sizeofType == 4   \* sizeof(xtyMsgType)
sizeofSize == 8   \* sizeof(size_t)

Text == Seq(Char)

\* The registrations have a name, an address and a port, data the address and the
\* name of its addressee and its content: three strings in either case.
Msg == [type : Kinds, len : Nat, fields : {<< >>} \union (Text \X Text \X Text)]

WellFormed(m) == m \in Msg /\ (m.fields = << >> <=> m.type \in Short)

Cell == Char \union Kinds \union Nat
Cursor == [mem : [Nat -> Cell], at : Nat, end : Nat, ok : BOOLEAN]

-----------------------------------------------------------------------------
\* __Serialize and __DeSerialize of a member that has a fixed size.
Fits(c, n) == c.ok /\ c.at + n <= c.end

Store(c, v, n) ==
    IF Fits(c, n)
    THEN [mem |-> [c.mem EXCEPT ![c.at] = v], at |-> c.at + n, end |-> c.end, ok |-> TRUE]
    ELSE [c EXCEPT !.ok = FALSE]

Load(c) == c.mem[c.at]

Skip(c, n) ==
    IF Fits(c, n) THEN [c EXCEPT !.at = @ + n] ELSE [c EXCEPT !.ok = FALSE]

\* memcpy and std::string::assign.
CopyText(mem, a, t) == [i \in Nat |-> IF i \in a .. a + Len(t) - 1 THEN t[i - a + 1] ELSE mem[i]]
Assign(mem, a, n) == [i \in 1 .. n |-> mem[a + i - 1]]

\* A string is its length and its characters; both have to fit before either is
\* written, while the length is read before it is known whether the characters fit.
StoreText(c, t) ==
    IF Fits(c, sizeofSize + Len(t))
    THEN [mem |-> CopyText([c.mem EXCEPT ![c.at] = Len(t)], c.at + sizeofSize, t),
          at |-> c.at + sizeofSize + Len(t), end |-> c.end, ok |-> TRUE]
    ELSE [c EXCEPT !.ok = FALSE]

SkipText(c) ==
    IF Fits(c, sizeofSize) THEN Skip(Skip(c, sizeofSize), Load(c)) ELSE [c EXCEPT !.ok = FALSE]

LoadText(c) == Assign(c.mem, c.at + sizeofSize, Load(c))

-----------------------------------------------------------------------------
Header == sizeofType + sizeofSize
TextLen(t) == sizeofSize + Len(t)

CalculateSerializedMsgLen(m) ==
    IF m.type \in Short
    THEN Header
    ELSE Header + TextLen(m.fields[1]) + TextLen(m.fields[2]) + TextLen(m.fields[3])

\* Serialize sets m_MsgLen first, whatever it was.
Measured(m) == [m EXCEPT !.len = CalculateSerializedMsgLen(m)]

StoreHeader(c, m) == Store(Store(c, m.type, sizeofType), CalculateSerializedMsgLen(m), sizeofSize)

Serialize(c, m) ==
    IF m.type \in Short
    THEN StoreHeader(c, m)
    ELSE StoreText(StoreText(StoreText(StoreHeader(c, m), m.fields[1]), m.fields[2]), m.fields[3])

\* The entity's Prepare has looked at the type, the buffer's first cell, and created
\* a message of that kind; DeSerialize fills it.
AfterType(c) == Skip(c, sizeofType)
AfterHeader(c) == Skip(AfterType(c), sizeofSize)
AfterFirst(c) == SkipText(AfterHeader(c))
AfterSecond(c) == SkipText(AfterFirst(c))

DeSerializeEnd(c) ==
    IF Load(c) \in Short THEN AfterHeader(c) ELSE SkipText(AfterSecond(c))

DeSerialize(c) ==
    [type |-> Load(c), len |-> Load(AfterType(c)),
     fields |-> IF Load(c) \in Short
                THEN << >>
                ELSE <<LoadText(AfterHeader(c)), LoadText(AfterFirst(c)), LoadText(AfterSecond(c))>>]

\* The loop's and the session's send threads compare the two lengths and give the
\* message up when they differ ("msg serialization failed").
SerializeDataLen(c, m) == Serialize(c, m).at - c.at

\* The entity's cursor on n bytes that begin at address a.
Prepare(mem, a, n) == [mem |-> mem, at |-> a, end |-> a + n, ok |-> TRUE]
=============================================================================
