-------------------------- MODULE SessionDirectory --------------------------
(***************************************************************************)
(* What the signaling server promises its clients about sessions: a socket *)
(* asks for one peer of one room, is admitted to exactly that peer or      *)
(* refused, and admission takes the peer over from its previous holder in  *)
(* one step, closing that socket.  Threads, queues, workers and rooms do   *)
(* not appear; Signaling implements this specification.                    *)
(***************************************************************************)
CONSTANTS Sockets, Rooms, Peers, NoSocket, NoRoom, NoPeer

VARIABLES
    phase,  \* socket -> where it is in its life
    wanted, \* socket -> the room and peer it asks for or holds
    holder  \* room -> peer -> the socket that holds it

vars == <<phase, wanted, holder>>

Nothing == [room |-> NoRoom, peer |-> NoPeer]

Init ==
    /\ phase = [ws \in Sockets |-> "idle"]
    /\ wanted = [ws \in Sockets |-> Nothing]
    /\ holder = [r \in Rooms |-> [p \in Peers |-> NoSocket]]

Ask(ws, r, p) ==
    /\ phase[ws] = "idle"
    /\ phase' = [phase EXCEPT ![ws] = "joining"]
    /\ wanted' = [wanted EXCEPT ![ws] = [room |-> r, peer |-> p]]
    /\ UNCHANGED holder

Refuse(ws) ==
    /\ phase[ws] = "joining"
    /\ phase' = [phase EXCEPT ![ws] = "idle"]
    /\ wanted' = [wanted EXCEPT ![ws] = Nothing]
    /\ UNCHANGED holder

Admit(ws) ==
    LET r == wanted[ws].room
        p == wanted[ws].peer
        old == holder[r][p]
    IN  /\ phase[ws] = "joining"
        /\ phase' = [s \in Sockets |-> CASE s = ws -> "joined"
                                         [] s = old -> "closed"
                                         [] OTHER -> phase[s]]
        /\ wanted' = [s \in Sockets |-> IF s = old THEN Nothing ELSE wanted[s]]
        /\ holder' = [holder EXCEPT ![r][p] = ws]

Disconnect(ws) ==
    /\ phase[ws] # "closed"
    /\ phase' = [phase EXCEPT ![ws] = "closed"]
    /\ wanted' = [wanted EXCEPT ![ws] = Nothing]
    /\ holder' = [r \in Rooms |-> [p \in Peers |->
                    IF holder[r][p] = ws THEN NoSocket ELSE holder[r][p]]]

Next ==
    \E ws \in Sockets :
        \/ \E r \in Rooms, p \in Peers : Ask(ws, r, p)
        \/ Refuse(ws)
        \/ Admit(ws)
        \/ Disconnect(ws)

Spec == Init /\ [][Next]_vars
=============================================================================
