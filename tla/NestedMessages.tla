--------------------------- MODULE NestedMessages ---------------------------
(***************************************************************************)
(* What nested pbf_writers promise: as if every open (sub)message had a     *)
(* buffer of its own, and closing a submessage appended it to its parent    *)
(* as one length-delimited field, the way the tutorial builds a submessage  *)
(* without them.  No positions, no reserved bytes, no moving of bytes.      *)
(***************************************************************************)
EXTENDS WireFormat, SequencesExt

CONSTANTS
    Writer,     \* the slots writer objects live in
    NULL,
    Tags        \* field numbers callers use

VARIABLES
    text,       \* the user's string, while no message is being written to it
    msg         \* msg[w] is the message w writes, NULL when w is not attached

vars == <<text, msg>>

\* key is the key the submessage will be stored under, empty for the outermost
\* message and for a submessage whose header its parent already holds.
Message(parent, key, body) == [parent |-> parent, key |-> key, body |-> body]

IsParent(p) == \E c \in Writer : msg[c] # NULL /\ msg[c].parent = p
Active(w) == msg[w] # NULL /\ ~IsParent(w)

Init ==
    /\ text = <<>>
    /\ msg = [w \in Writer |-> NULL]

\* A writer takes over the string: what it holds is the start of the message.
Attach(w) ==
    /\ \A v \in Writer : msg[v] = NULL
    /\ msg' = [msg EXCEPT ![w] = Message(NULL, <<>>, text)]
    /\ text' = <<>>

\* The outermost writer ends: its message is what the string holds.
Detach(w) ==
    /\ Active(w) /\ msg[w].parent = NULL
    /\ text' = msg[w].body
    /\ msg' = [msg EXCEPT ![w] = NULL]

\* Fields are only ever appended, and only to the innermost message.
Extend(w) ==
    /\ Active(w)
    /\ msg'[w] # NULL /\ IsPrefix(msg[w].body, msg'[w].body)
    /\ msg' = [msg EXCEPT ![w].body = msg'[w].body]
    /\ UNCHANGED text

Open(p, c, tag) ==
    /\ Active(p) /\ msg[c] = NULL
    /\ msg' = [msg EXCEPT
                 ![c] = Message(p, Key(tag, LengthDelimitedType), <<>>)]
    /\ UNCHANGED text

\* The length is announced: the parent holds the header before the body.
OpenSized(p, c, tag) ==
    /\ Active(p) /\ msg[c] = NULL
    /\ msg'[p] # NULL
    /\ IsPrefix(msg[p].body \o Key(tag, LengthDelimitedType), msg'[p].body)
    /\ msg' = [msg EXCEPT ![p].body = msg'[p].body,
                          ![c] = Message(p, <<>>, <<>>)]
    /\ UNCHANGED text

\* What closing m adds to its parent.  A submessage without any field vanishes.
Contribution(m) ==
    IF m.key = <<>> THEN m.body
    ELSE IF m.body = <<>> THEN <<>>
    ELSE m.key \o Varint[Len(m.body)] \o m.body

Commit(c) ==
    /\ Active(c) /\ msg[c].parent # NULL
    /\ msg' = [msg EXCEPT ![msg[c].parent].body = @ \o Contribution(msg[c]),
                          ![c] = NULL]
    /\ UNCHANGED text

\* "as if it was never created and no fields were added"
Rollback(c) ==
    /\ Active(c) /\ msg[c].parent # NULL /\ msg[c].key # <<>>
    /\ msg' = [msg EXCEPT ![c] = NULL]
    /\ UNCHANGED text

Move(from, to) ==
    /\ Active(from) /\ msg[to] = NULL
    /\ msg' = [msg EXCEPT ![to] = msg[from], ![from] = NULL]
    /\ UNCHANGED text

Next ==
    \/ \E w \in Writer :
        Attach(w) \/ Detach(w) \/ Extend(w) \/ Commit(w) \/ Rollback(w)
    \/ \E p, c \in Writer, tag \in Tags : Open(p, c, tag) \/ OpenSized(p, c, tag)
    \/ \E from, to \in Writer : Move(from, to)

Spec == Init /\ [][Next]_vars
=============================================================================
