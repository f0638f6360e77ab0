-------------------------- MODULE ProbeMain_proofs --------------------------
(* Proofs about the C probe's main: who owns which descriptor, what becomes*)
(* of every event, and what of its text a report keeps, for all buffer     *)
(* sizes, text lengths and limits.  The lemmas on serialize_batch's loop   *)
(* are Loops_proofs'.                                                      *)
EXTENDS ProbeMain, Loops_proofs, FiniteSetTheorems

-----------------------------------------------------------------------------
(* Descriptors                                                             *)

(* The process never holds more than three descriptors besides stdio, so   *)
(* the lowest free number is below 6 when one is opened.                   *)
LEMMA NewFdFree ==
    ASSUME NEW tab, DOMAIN tab \subseteq 3 .. 5,
           \E f \in 3 .. 5 : f \notin DOMAIN tab
    PROVE  NewFd(tab) \in 3 .. 5 /\ NewFd(tab) \notin DOMAIN tab
<1> DEFINE D == DOMAIN tab
           Good(f) == f \notin D /\ \A g \in 3 .. f - 1 : g \in D
<1>1. IsFiniteSet(D) /\ Cardinality(D) \in Nat
  <2>1. D \in SUBSET Nat /\ \A d \in D : d <= 5
    OBVIOUS
  <2>2. IsFiniteSet(D)
    BY <2>1, FS_BoundedSetOfNaturals
  <2> QED BY <2>2, FS_CardinalityType
<1>2. ASSUME NEW S \in SUBSET D
      PROVE  Cardinality(S) <= Cardinality(D)
  BY <1>1, FS_Subset
<1>3. 3 \in D => Cardinality(D) >= 1
  <2>1. Cardinality({3}) = 1
    BY FS_Singleton, Zenon
  <2> QED BY <1>1, <1>2, <2>1
<1>4. 3 \in D /\ 4 \in D => Cardinality(D) >= 2
  <2> SUFFICES ASSUME 3 \in D, 4 \in D PROVE Cardinality(D) >= 2
    OBVIOUS
  <2>1. Cardinality({3}) = 1 /\ IsFiniteSet({3})
    BY FS_Singleton, Zenon
  <2>2. Cardinality({3} \cup {4}) = 2
    BY <2>1, FS_AddElement
  <2>3. {3} \cup {4} \in SUBSET D
    OBVIOUS
  <2>4. Cardinality({3} \cup {4}) <= Cardinality(D)
    BY <1>2, <2>3
  <2> QED BY <1>1, <2>2, <2>4
<1>5. \E f \in 3 .. 3 + Cardinality(D) : Good(f)
  <2>1. CASE 3 \notin D
    <3>1. Good(3) /\ 3 \in 3 .. 3 + Cardinality(D)
      BY <1>1, <2>1
    <3> QED BY <3>1
  <2>2. CASE 3 \in D /\ 4 \notin D
    <3>1. Good(4) /\ 4 \in 3 .. 3 + Cardinality(D)
      BY <1>1, <1>3, <2>2
    <3> QED BY <3>1
  <2>3. CASE 3 \in D /\ 4 \in D
    <3>1. 5 \notin D
      BY <2>3
    <3>2. Good(5) /\ 5 \in 3 .. 3 + Cardinality(D)
      BY <1>1, <1>4, <2>3, <3>1
    <3> QED BY <3>2
  <2> QED BY <2>1, <2>2, <2>3
<1>6. NewFd(tab) \in 3 .. 3 + Cardinality(D) /\ Good(NewFd(tab))
  BY <1>5 DEF NewFd
<1>7. NewFd(tab) <= 5
  <2> SUFFICES ASSUME NewFd(tab) > 5 PROVE FALSE
    BY <1>1, <1>6
  <2>1. 3 .. 5 \subseteq 3 .. NewFd(tab) - 1
    BY <1>1, <1>6
  <2> QED BY <1>6, <2>1
<1> QED BY <1>1, <1>6, <1>7

\* Opening adds the new number and leaves the others as they were.
LEMMA OpenFd ==
    ASSUME NEW tab, NEW what, NewFd(tab) \notin DOMAIN tab
    PROVE  /\ DOMAIN Open(tab, what) = DOMAIN tab \cup {NewFd(tab)}
           /\ Open(tab, what)[NewFd(tab)] = what
           /\ \A f \in DOMAIN tab : Open(tab, what)[f] = tab[f]
BY DEF Open

\* Closing removes one number and leaves the others as they were.
LEMMA CloseFd ==
    ASSUME NEW tab, NEW fd
    PROVE  /\ DOMAIN Close(tab, fd) = DOMAIN tab \ {fd}
           /\ \A f \in DOMAIN tab \ {fd} : Close(tab, fd)[f] = tab[f]
BY DEF Close

Early == {"args", "create", "load", "exit"}

(* DescriptorsOwned says nothing of the start-up and of the exit out of    *)
(* it; there main holds the client's connection and nothing else.          *)
DescInv ==
    /\ use_bpf \in BOOLEAN /\ NoForeignClose
    /\ DOMAIN open \subseteq 3 .. 5
    /\ status \in [socket_fd : Int, bpf_prog_fd : Int]
    /\ pc \in {"args", "create"} => tcp.sock_fd = NoFd
    /\ pc \in Early =>
          /\ ~use_bpf
          /\ DOMAIN open = {tcp.sock_fd} \ {NoFd}
          /\ tcp.sock_fd # NoFd => open[tcp.sock_fd] = "tcp"
    /\ pc = "done" => DOMAIN open = {}
    /\ DescriptorsOwned

(* tcp_client_try_connect opens one descriptor and owns it, or none.       *)
LEMMA ConnectOwns ==
    ASSUME NEW tab, DOMAIN tab \subseteq 3 .. 5,
           \E f \in 3 .. 5 : f \notin DOMAIN tab,
           Connect(tab)
    PROVE  /\ DOMAIN open' \subseteq 3 .. 5
           /\ tcp'.sock_fd = NoFd \/ tcp'.sock_fd \in 3 .. 5 \ DOMAIN tab
           /\ DOMAIN open' = DOMAIN tab \cup ({tcp'.sock_fd} \ {NoFd})
           /\ tcp'.sock_fd # NoFd => open'[tcp'.sock_fd] = "tcp"
           /\ \A f \in DOMAIN tab : open'[f] = tab[f]
<1>1. NewFd(tab) \in 3 .. 5 /\ NewFd(tab) \notin DOMAIN tab
  BY NewFdFree
<1>2. CASE /\ tcp' = [sock_fd |-> NewFd(tab), is_connected |-> TRUE]
           /\ open' = Open(tab, "tcp")
  <2>1. tcp'.sock_fd = NewFd(tab)
    BY <1>2
  <2>2. /\ DOMAIN open' = DOMAIN tab \cup {NewFd(tab)}
        /\ open'[NewFd(tab)] = "tcp"
        /\ \A f \in DOMAIN tab : open'[f] = tab[f]
    <3>1. /\ DOMAIN Open(tab, "tcp") = DOMAIN tab \cup {NewFd(tab)}
          /\ Open(tab, "tcp")[NewFd(tab)] = "tcp"
          /\ \A f \in DOMAIN tab : Open(tab, "tcp")[f] = tab[f]
      BY <1>1, OpenFd, ZenonT(30)
    <3> QED BY <1>2, <3>1
  <2>3. tcp'.sock_fd # NoFd
    BY <1>1, <2>1 DEF NoFd
  <2> QED BY <1>1, <2>1, <2>2, <2>3
<1>3. CASE /\ tcp' = [sock_fd |-> NoFd, is_connected |-> FALSE]
           /\ open' = tab
  <2>1. tcp'.sock_fd = NoFd
    BY <1>3
  <2> QED BY <1>3, <2>1
<1> QED BY <1>2, <1>3 DEF Connect

Running == {"round", "drain", "poll", "report", "link", "recheck", "send", "sleep"}

\* A step of the loop that touches no descriptor.
LEMMA QuietStep ==
    ASSUME DescInv, UNCHANGED <<use_bpf, status, open, foreign>>,
           tcp'.sock_fd = tcp.sock_fd,
           pc \in Running, pc' \in Running \cup {"undefined"}
    PROVE  DescInv'
<1>1. pc \notin Early \cup {"exit", "done"} /\ pc' \notin Early \cup {"exit", "done"}
  BY DEF Early, Running
<1>2. DescriptorsOwned'
  BY <1>1 DEF DescInv, DescriptorsOwned, Early
<1> QED BY <1>1, <1>2 DEF DescInv, Early, NoForeignClose

(* tcp_client_reconnect closes the client's own socket only, and what it   *)
(* opens is the client's.                                                  *)
LEMMA ReconnectOwns ==
    ASSUME DescInv, tcp_client_reconnect, UNCHANGED <<use_bpf, status>>,
           pc \in Running, pc' \in Running
    PROVE  DescInv'
<1> DEFINE mine == tcp.sock_fd
           rest == IF use_bpf THEN {status.socket_fd, status.bpf_prog_fd} ELSE {}
           tab  == Close(open, mine)
<1>0. pc \notin Early \cup {"exit", "done"} /\ pc' \notin Early \cup {"exit", "done"}
  BY DEF Early, Running
<1>1. CASE /\ tcp' = [tcp EXCEPT !.is_connected = FALSE]
           /\ UNCHANGED <<open, foreign>>
  <2>1. tcp'.sock_fd = tcp.sock_fd
    BY <1>1
  <2> QED BY <1>1, <2>1, QuietStep
<1>2. CASE /\ foreign' = (foreign \/ Foreign(open, mine, "tcp"))
           /\ Connect(tab)
  <2>1. /\ DOMAIN open \subseteq 3 .. 5
        /\ DOMAIN open = ({mine} \cup rest) \ {NoFd}
        /\ mine # NoFd => open[mine] = "tcp"
        /\ use_bpf => /\ status.socket_fd \in DOMAIN open
                      /\ status.bpf_prog_fd \in DOMAIN open
                      /\ open[status.socket_fd] = "packet"
                      /\ open[status.bpf_prog_fd] = "prog"
    BY <1>0 DEF DescInv, DescriptorsOwned, Early
  <2>2. NoFd \notin DOMAIN open
    BY <2>1 DEF NoFd
  <2>3. ~foreign'
    BY <1>2, <2>1, <2>2, Zenon DEF Foreign, DescInv, NoForeignClose
  <2>4. mine \in DOMAIN open \/ mine = NoFd
    BY <2>1
  <2>5. mine \in DOMAIN open \/ \E f \in 3 .. 5 : f \notin DOMAIN open
    <3>1. CASE mine \in DOMAIN open
      BY <3>1
    <3>2. CASE mine = NoFd
      <4>1. \A f \in DOMAIN open : f = status.socket_fd \/ f = status.bpf_prog_fd
        BY <2>1, <3>2
      <4> QED BY <4>1
    <3> QED BY <2>4, <3>1, <3>2
  <2>6. DOMAIN tab = DOMAIN open \ {mine} /\ \A f \in DOMAIN tab : tab[f] = open[f]
    BY CloseFd, Zenon
  <2>7. DOMAIN tab \subseteq 3 .. 5 /\ \E f \in 3 .. 5 : f \notin DOMAIN tab
    BY <2>1, <2>5, <2>6
  <2>8. DOMAIN tab = rest
    <3>1. use_bpf => mine # status.socket_fd /\ mine # status.bpf_prog_fd
      BY <2>1, <2>2
    <3> QED BY <2>1, <2>2, <2>6, <3>1
  <2> HIDE DEF tab
  <2>9. /\ DOMAIN open' \subseteq 3 .. 5
        /\ tcp'.sock_fd = NoFd \/ tcp'.sock_fd \in 3 .. 5 \ DOMAIN tab
        /\ DOMAIN open' = DOMAIN tab \cup ({tcp'.sock_fd} \ {NoFd})
        /\ tcp'.sock_fd # NoFd => open'[tcp'.sock_fd] = "tcp"
        /\ \A f \in DOMAIN tab : open'[f] = tab[f]
    BY <1>2, <2>7, ConnectOwns, Zenon
  <2>10. DescriptorsOwned'
    <3>1. DOMAIN open' = ({tcp'.sock_fd} \cup rest) \ {NoFd}
      BY <2>2, <2>6, <2>8, <2>9
    <3>2. ASSUME use_bpf
          PROVE  /\ status.socket_fd \in DOMAIN tab /\ status.bpf_prog_fd \in DOMAIN tab
                 /\ tab[status.socket_fd] = "packet" /\ tab[status.bpf_prog_fd] = "prog"
      BY <2>1, <2>6, <2>8, <3>2
    <3> QED BY <2>9, <3>1, <3>2 DEF DescriptorsOwned
  <2> QED BY <1>0, <2>3, <2>9, <2>10 DEF DescInv, Early, NoForeignClose
<1> QED BY <1>1, <1>2 DEF tcp_client_reconnect

(* Whatever system call bpf_loader_init fails at, it leaves the table with *)
(* the client's socket, or with that and the two descriptors in status.    *)
LEMMA LoadOwns ==
    ASSUME DescInv, Load
    PROVE  DescInv'
<1>0. pc = "load" /\ pc' = "round" /\ UNCHANGED <<tcp, foreign>>
  BY DEF Load
<1> PICK step \in {"prog_load", "socket", "attach", "done"} : bpf_loader_init(step)
  BY DEF Load
<1> DEFINE mine   == tcp.sock_fd
           prog   == NewFd(open)
           loaded == Open(open, "prog")
           sock   == NewFd(loaded)
           bound  == Open(loaded, "packet")
<1>1. /\ DOMAIN open \subseteq 3 .. 5 /\ DOMAIN open = {mine} \ {NoFd}
      /\ mine # NoFd => open[mine] = "tcp"
  BY <1>0 DEF DescInv, Early
<1>2. prog \in 3 .. 5 /\ prog \notin DOMAIN open
  <2>1. \E f \in 3 .. 5 : f \notin DOMAIN open
    BY <1>1
  <2> QED BY <1>1, <2>1, NewFdFree
<1>3. /\ DOMAIN loaded = DOMAIN open \cup {prog} /\ loaded[prog] = "prog"
      /\ \A f \in DOMAIN open : loaded[f] = open[f]
  BY <1>2, OpenFd
<1> HIDE DEF loaded
<1>4. sock \in 3 .. 5 /\ sock \notin DOMAIN loaded
  <2>1. DOMAIN loaded \subseteq 3 .. 5
    BY <1>1, <1>2, <1>3
  <2>2. \A f \in DOMAIN loaded : f = mine \/ f = prog
    BY <1>1, <1>3
  <2>3. \E f \in 3 .. 5 : f \notin DOMAIN loaded
    BY <2>2
  <2> QED BY <2>1, <2>3, NewFdFree
<1>5. /\ DOMAIN bound = DOMAIN loaded \cup {sock} /\ bound[sock] = "packet"
      /\ \A f \in DOMAIN loaded : bound[f] = loaded[f]
  BY <1>4, OpenFd
<1> HIDE DEF bound, sock, prog
<1>6. prog # NoFd /\ sock # NoFd /\ prog # sock
  BY <1>2, <1>3, <1>4 DEF NoFd
<1>7. /\ use_bpf' = (step = "done")
      /\ status' = [socket_fd   |-> IF step = "done" THEN sock ELSE NoFd,
                    bpf_prog_fd |-> IF step = "prog_load" THEN NoFd ELSE prog]
      /\ open' = CASE step = "prog_load" -> open
                   [] step = "socket"    -> Close(loaded, prog)
                   [] step = "attach"    -> Close(Close(bound, sock), prog)
                   [] step = "done"      -> bound
  BY DEF bpf_loader_init, prog, loaded, sock, bound
<1>8. status' \in [socket_fd : Int, bpf_prog_fd : Int]
  BY <1>2, <1>4, <1>7 DEF NoFd
<1>9. ASSUME step # "done"
      PROVE  DOMAIN open' = DOMAIN open /\ \A f \in DOMAIN open : open'[f] = open[f]
  <2>1. CASE step = "prog_load"
    BY <1>7, <2>1
  <2>2. CASE step = "socket"
    <3>1. open' = Close(loaded, prog)
      BY <1>7, <2>2
    <3>2. /\ DOMAIN Close(loaded, prog) = DOMAIN loaded \ {prog}
          /\ \A f \in DOMAIN loaded \ {prog} : Close(loaded, prog)[f] = loaded[f]
      BY CloseFd, Zenon
    <3> QED BY <1>2, <1>3, <3>1, <3>2
  <2>3. CASE step = "attach"
    <3> DEFINE half == Close(bound, sock)
    <3>1. open' = Close(half, prog)
      BY <1>7, <2>3
    <3>2. /\ DOMAIN half = DOMAIN bound \ {sock}
          /\ \A f \in DOMAIN bound \ {sock} : half[f] = bound[f]
      BY CloseFd, Zenon
    <3> HIDE DEF half
    <3>3. /\ DOMAIN Close(half, prog) = DOMAIN half \ {prog}
          /\ \A f \in DOMAIN half \ {prog} : Close(half, prog)[f] = half[f]
      BY CloseFd, Zenon
    <3> QED BY <1>2, <1>3, <1>4, <1>5, <3>1, <3>2, <3>3
  <2> QED BY <1>9, <2>1, <2>2, <2>3
<1>10. CASE step # "done"
  <2>1. ~use_bpf' /\ use_bpf' \in BOOLEAN
    BY <1>7, <1>10, Zenon
  <2>2. DescriptorsOwned'
    BY <1>0, <1>1, <1>9, <1>10, <2>1 DEF DescriptorsOwned
  <2> QED BY <1>0, <1>1, <1>8, <1>9, <1>10, <2>1, <2>2 DEF DescInv, Early, NoForeignClose
<1>11. CASE step = "done"
  <2>1. /\ use_bpf' = TRUE /\ open' = bound
        /\ status'.socket_fd = sock /\ status'.bpf_prog_fd = prog
    BY <1>7, <1>11, Zenon
  <2>2. DOMAIN open' = ({mine} \cup {sock, prog}) \ {NoFd}
    BY <1>1, <1>3, <1>5, <1>6, <2>1
  <2>3. /\ mine # NoFd => open'[mine] = "tcp"
        /\ open'[sock] = "packet" /\ open'[prog] = "prog"
    BY <1>1, <1>3, <1>5, <2>1
  <2>4. DescriptorsOwned'
    BY <1>0, <1>6, <2>1, <2>2, <2>3, SMTT(30) DEF DescriptorsOwned
  <2>5. DOMAIN open' \subseteq 3 .. 5
    BY <1>1, <1>2, <1>3, <1>4, <1>5, <2>1, SMTT(30)
  <2> QED BY <1>0, <1>8, <2>1, <2>4, <2>5 DEF DescInv, Early, NoForeignClose
<1> QED BY <1>10, <1>11

\* The first connection is the client's, on every way out of the start-up.
LEMMA CreateOwns ==
    ASSUME DescInv, Create
    PROVE  DescInv'
<1>0. /\ pc = "create" /\ UNCHANGED <<use_bpf, status, foreign>>
      /\ pc' \in {"load", "exit"}
  BY DEF Create
<1>1. ~use_bpf /\ DOMAIN open = {} /\ tcp.sock_fd = NoFd
  BY <1>0, Zenon DEF DescInv, Early
<1>2. CASE pc' = "exit" /\ UNCHANGED <<tcp, open>>
  BY <1>0, <1>2 DEF DescInv, Early, NoForeignClose, DescriptorsOwned
<1>3. CASE Connect(open)
  <2>1. DOMAIN open \subseteq 3 .. 5 /\ \E f \in 3 .. 5 : f \notin DOMAIN open
    BY <1>1
  <2>2. /\ DOMAIN open' \subseteq 3 .. 5
        /\ DOMAIN open' = DOMAIN open \cup ({tcp'.sock_fd} \ {NoFd})
        /\ tcp'.sock_fd # NoFd => open'[tcp'.sock_fd] = "tcp"
    BY <1>3, <2>1, ConnectOwns
  <2>3. DOMAIN open' = {tcp'.sock_fd} \ {NoFd}
    BY <1>1, <2>2
  <2>4. DescriptorsOwned'
    BY <1>0 DEF DescriptorsOwned
  <2> QED BY <1>0, <1>1, <2>2, <2>3, <2>4 DEF DescInv, Early, NoForeignClose
<1> QED BY <1>2, <1>3 DEF Create

(* bpf_loader_cleanup and tcp_client_cleanup close what is theirs, and     *)
(* nothing stays open.                                                     *)
LEMMA ShutdownOwns ==
    ASSUME DescInv, Shutdown
    PROVE  DescInv'
<1> DEFINE mine     == tcp.sock_fd
           sock     == status.socket_fd
           prog     == status.bpf_prog_fd
           unbound  == Close(open, sock)
           unloaded == Close(unbound, prog)
           left     == IF use_bpf THEN unloaded ELSE open
<1>0. pc = "round" /\ pc' = "done" /\ UNCHANGED use_bpf
  BY DEF Shutdown
<1>1. /\ open' = Close(left, mine)
      /\ foreign' = (\/ foreign
                     \/ use_bpf /\ Foreign(open, sock, "packet")
                     \/ use_bpf /\ Foreign(unbound, prog, "prog")
                     \/ Foreign(left, mine, "tcp"))
      /\ status' = (IF use_bpf THEN NoStatus ELSE status)
      /\ tcp' = [sock_fd |-> NoFd, is_connected |-> FALSE]
  BY DEF Shutdown, CleansUp, bpf_loader_cleanup
<1>2. /\ DOMAIN open \subseteq 3 .. 5 /\ use_bpf \in BOOLEAN
      /\ DOMAIN open = ({mine} \cup (IF use_bpf THEN {sock, prog} ELSE {})) \ {NoFd}
      /\ mine # NoFd => open[mine] = "tcp"
      /\ use_bpf => /\ sock \in DOMAIN open /\ prog \in DOMAIN open
                    /\ open[sock] = "packet" /\ open[prog] = "prog"
  BY <1>0 DEF DescInv, DescriptorsOwned
<1>3. /\ DOMAIN unbound = DOMAIN open \ {sock}
      /\ \A f \in DOMAIN unbound : unbound[f] = open[f]
  BY CloseFd, Zenon
<1> HIDE DEF unbound
<1>4. /\ DOMAIN unloaded = DOMAIN unbound \ {prog}
      /\ \A f \in DOMAIN unloaded : unloaded[f] = unbound[f]
  BY CloseFd, Zenon
<1> HIDE DEF unloaded
<1>5. NoFd \notin DOMAIN open
  BY <1>2 DEF NoFd
<1>6. DOMAIN left \subseteq {mine} \ {NoFd} /\ \A f \in DOMAIN left : left[f] = open[f]
  BY <1>2, <1>3, <1>4
<1>7. DOMAIN open' = {}
  <2>1. DOMAIN Close(left, mine) = DOMAIN left \ {mine}
    BY CloseFd, Zenon
  <2> QED BY <1>1, <1>6, <2>1
<1>8. ~foreign'
  <2>1. use_bpf => ~Foreign(open, sock, "packet")
    BY <1>2 DEF Foreign
  <2>2. use_bpf => ~Foreign(unbound, prog, "prog")
    BY <1>2, <1>3 DEF Foreign
  <2>3. ~Foreign(left, mine, "tcp")
    BY <1>2, <1>5, <1>6 DEF Foreign
  <2> QED BY <1>1, <2>1, <2>2, <2>3 DEF DescInv, NoForeignClose
<1>9. tcp'.sock_fd = NoFd
  BY <1>1
<1>10. status' \in [socket_fd : Int, bpf_prog_fd : Int]
  BY <1>1 DEF DescInv, NoStatus, NoFd
<1>11. DescriptorsOwned'
  <2>1. use_bpf => status'.socket_fd = NoFd /\ status'.bpf_prog_fd = NoFd
    BY <1>1 DEF NoStatus
  <2> QED BY <1>0, <1>2, <1>7, <1>9, <2>1, SMTT(30) DEF DescriptorsOwned
<1> QED BY <1>0, <1>2, <1>7, <1>8, <1>10, <1>11, SMTT(30) DEF DescInv, Early, NoForeignClose

\* Every step of main, and the signal, keep the descriptors owned.
LEMMA NextDescInv == DescInv /\ [Next]_vars => DescInv'
<1> SUFFICES ASSUME DescInv, [Next]_vars PROVE DescInv'
  OBVIOUS
<1>1. CASE Args
  BY <1>1 DEF Args, DescInv, Early, NoForeignClose, DescriptorsOwned
<1>2. CASE Create
  BY <1>2, CreateOwns
<1>3. CASE Load
  BY <1>3, LoadOwns
<1>4. CASE Begin \/ DrainPacket \/ DrainDone \/ Poll \/ Report \/ Sleep
           \/ SendAll \/ SendFails
  <2>1. /\ UNCHANGED <<use_bpf, status, tcp, open, foreign>>
        /\ pc \in Running /\ pc' \in Running \cup {"undefined"}
    BY <1>4 DEF Begin, DrainPacket, DrainDone, Poll, Report, Sleep, SendAll,
                SendFails, Running
  <2> QED BY <2>1, QuietStep, SMTT(30)
<1>5. CASE Link
  <2>1. pc \in Running /\ pc' \in Running /\ UNCHANGED <<use_bpf, status>>
    BY <1>5 DEF Link, Running
  <2>2. CASE UNCHANGED <<tcp, open, foreign>>
    BY <2>1, <2>2, QuietStep
  <2> QED BY <1>5, <2>1, <2>2, ReconnectOwns DEF Link
<1>6. CASE Recheck
  <2>1. pc \in Running /\ pc' \in Running /\ UNCHANGED <<use_bpf, status, open, foreign>>
    BY <1>6 DEF Recheck, Running
  <2>2. tcp' = tcp \/ tcp' = [tcp EXCEPT !.is_connected = FALSE]
    BY <1>6 DEF Recheck
  <2>3. tcp'.sock_fd = tcp.sock_fd
    <3>1. CASE tcp' = tcp
      BY <3>1
    <3>2. CASE tcp' = [tcp EXCEPT !.is_connected = FALSE]
      BY <3>2
    <3> QED BY <2>2, <3>1, <3>2
  <2> QED BY <2>1, <2>3, QuietStep
<1>7. CASE SendLost
  <2>1. pc \in Running /\ pc' \in Running /\ UNCHANGED <<use_bpf, status>>
    BY <1>7 DEF SendLost, Running
  <2> QED BY <1>7, <2>1, ReconnectOwns DEF SendLost
<1>8. CASE Shutdown
  BY <1>8, ShutdownOwns
<1>9. CASE sig_handler \/ UNCHANGED vars
  <2>1. UNCHANGED <<pc, use_bpf, status, tcp, open, foreign>>
    BY <1>9 DEF sig_handler, vars
  <2> QED BY <2>1 DEF DescInv, NoForeignClose, DescriptorsOwned
<1> QED BY <1>1, <1>2, <1>3, <1>4, <1>5, <1>6, <1>7, <1>8, <1>9, SMTT(30) DEF Next, Main

\* The invariant holds throughout the life of the process.
THEOREM DescriptorInvariant == Spec => []DescInv
<1>1. Init => DescInv
  <2> SUFFICES ASSUME Init PROVE DescInv
    OBVIOUS
  <2>1. /\ DOMAIN open = {} /\ tcp.sock_fd = NoFd /\ pc = "args" /\ ~foreign
        /\ use_bpf = FALSE
    BY DEF Init
  <2>2. status \in [socket_fd : Int, bpf_prog_fd : Int]
    BY DEF Init, NoStatus, NoFd
  <2> QED BY <2>1, <2>2, Zenon DEF DescInv, Early, NoForeignClose, DescriptorsOwned
<1> QED BY <1>1, NextDescInv, PTL DEF Spec

(* No close hits a descriptor of another owner, although a failed          *)
(* bpf_loader_init leaves a number in bpf_status that the client's next    *)
(* socket may get.                                                         *)
THEOREM ClosesOwn == Spec => []NoForeignClose
<1>1. DescInv => NoForeignClose
  BY DEF DescInv
<1> QED BY <1>1, DescriptorInvariant, PTL

(* From the loop on, what is open is what the parts will close; after the  *)
(* shutdown nothing is.                                                    *)
THEOREM OpenAreOwned == Spec => []DescriptorsOwned
<1>1. DescInv => DescriptorsOwned
  BY DEF DescInv
<1> QED BY <1>1, DescriptorInvariant, PTL

-----------------------------------------------------------------------------
(* The fate of an event                                                    *)

Waiting == Ids(tracker) \cup Ids(batch)

(* Every event made is in exactly one of the places that the Courier knows *)
(* and main, which works on one of the two arrays at a time, leaves the    *)
(* other one empty.                                                        *)
FateInv ==
    /\ offered \in 0 .. Limit
    /\ tracker \in Seq(Event) /\ Len(tracker) <= MaxEvents
    /\ batch \in Seq(Event)
    /\ delivered \cup discarded \cup Waiting = 1 .. offered
    /\ pc \notin {"drain", "poll", "report"} => tracker = <<>>
    /\ pc \notin {"link", "recheck", "send", "undefined"} => batch = <<>>

\* An empty array holds no event.
LEMMA NoIds == Ids(<<>>) = {}
BY DEF Ids

\* The events of two arrays one after the other.
LEMMA IdsOfBoth ==
    ASSUME NEW s \in Seq(Event), NEW t \in Seq(Event)
    PROVE  Ids(s \o t) = Ids(s) \cup Ids(t)
<1>1. Len(s) \in Nat /\ Len(t) \in Nat /\ Len(s \o t) = Len(s) + Len(t)
  OBVIOUS
<1>2. ASSUME NEW i \in 1 .. Len(s) PROVE (s \o t)[i] = s[i] /\ i \in 1 .. Len(s \o t)
  BY <1>1
<1>3. ASSUME NEW i \in 1 .. Len(t)
      PROVE  (s \o t)[Len(s) + i] = t[i] /\ Len(s) + i \in 1 .. Len(s \o t)
  BY <1>1
<1>4. ASSUME NEW x \in Ids(s \o t) PROVE x \in Ids(s) \cup Ids(t)
  <2>1. PICK i \in 1 .. Len(s \o t) : x = (s \o t)[i].id
    BY DEF Ids
  <2>2. CASE i \in 1 .. Len(s)
    BY <1>2, <2>1, <2>2 DEF Ids
  <2>3. CASE i \notin 1 .. Len(s)
    <3>1. i - Len(s) \in 1 .. Len(t) /\ i = Len(s) + (i - Len(s))
      BY <1>1, <2>1, <2>3
    <3>2. (s \o t)[i] = t[i - Len(s)]
      BY <1>3, <3>1
    <3> QED BY <2>1, <3>1, <3>2 DEF Ids
  <2> QED BY <2>2, <2>3
<1>5. ASSUME NEW x \in Ids(s) PROVE x \in Ids(s \o t)
  <2>1. PICK i \in 1 .. Len(s) : x = s[i].id
    BY DEF Ids
  <2> QED BY <1>2, <2>1 DEF Ids
<1>6. ASSUME NEW x \in Ids(t) PROVE x \in Ids(s \o t)
  <2>1. PICK i \in 1 .. Len(t) : x = t[i].id
    BY DEF Ids
  <2>2. (s \o t)[Len(s) + i].id = x /\ Len(s) + i \in 1 .. Len(s \o t)
    BY <1>3, <2>1
  <2> QED BY <2>2 DEF Ids
<1> QED BY <1>4, <1>5, <1>6

(* add_event numbers the new events on, keeps a prefix of them that fits   *)
(* and gives up the others.                                                *)
LEMMA AddEvents ==
    ASSUME FateInv, NEW lens \in Seq(Lens), add_event(lens)
    PROVE  /\ offered' \in offered .. Limit /\ delivered' = delivered
           /\ tracker' \in Seq(Event) /\ Len(tracker') <= MaxEvents
           /\ \E kept \in Nat :
                 /\ offered + kept <= offered'
                 /\ Ids(tracker') = Ids(tracker) \cup (offered + 1 .. offered + kept)
                 /\ discarded' = discarded \cup (offered + kept + 1 .. offered')
<1> DEFINE n    == Len(lens)
           room == MaxEvents - Len(tracker)
           kept == IF n <= room THEN n ELSE room
           new  == [i \in 1 .. kept |-> [id |-> offered + i, len |-> lens[i]]]
<1>1. /\ n \in Nat /\ Len(tracker) \in Nat /\ room \in Nat
      /\ offered \in Nat /\ Limit \in Nat /\ offered <= Limit
  BY ProbeMainAssumption DEF FateInv
<1>2. /\ offered + n <= Limit /\ offered' = offered + n
      /\ tracker' = tracker \o new
      /\ discarded' = discarded \cup (offered + kept + 1 .. offered + n)
      /\ delivered' = delivered
  BY DEF add_event
<1>3. kept \in Nat /\ kept <= n /\ kept <= room
  BY <1>1
<1> HIDE DEF kept
<1>4. new \in Seq(Event) /\ Len(new) = kept
  <2>1. ASSUME NEW i \in 1 .. kept
        PROVE  [id |-> offered + i, len |-> lens[i]] \in Event
    <3>1. offered + i \in 1 .. Limit
      BY <1>1, <1>2, <1>3
    <3>2. lens[i] \in Lens
      BY <1>1, <1>3
    <3> QED BY <3>1, <3>2 DEF Event
  <2>2. new \in [1 .. kept -> Event]
    BY <2>1
  <2> HIDE DEF new
  <2> QED BY <1>3, <2>2
<1>5. Ids(new) = offered + 1 .. offered + kept
  <2>1. \A i \in 1 .. kept : new[i].id = offered + i
    OBVIOUS
  <2>2. Ids(new) = {offered + i : i \in 1 .. kept}
    BY <1>4, <2>1, Zenon DEF Ids
  <2>3. ASSUME NEW x \in offered + 1 .. offered + kept
        PROVE  x - offered \in 1 .. kept /\ x = offered + (x - offered)
    BY <1>1, <1>3
  <2>4. \A x \in offered + 1 .. offered + kept : \E i \in 1 .. kept : x = offered + i
    BY <2>3
  <2>5. \A i \in 1 .. kept : offered + i \in offered + 1 .. offered + kept
    BY <1>1, <1>3
  <2> HIDE DEF new
  <2> QED BY <2>2, <2>4, <2>5
<1> HIDE DEF new
<1>6. tracker \in Seq(Event) /\ Len(tracker) <= MaxEvents
  BY DEF FateInv
<1>7. tracker' \in Seq(Event) /\ Len(tracker') = Len(tracker) + kept
  <2>1. /\ tracker \o new \in Seq(Event)
        /\ Len(tracker \o new) = Len(tracker) + Len(new)
    BY <1>4, <1>6
  <2> QED BY <1>2, <1>4, <2>1
<1>8. Ids(tracker') = Ids(tracker) \cup (offered + 1 .. offered + kept)
  <2>1. Ids(tracker \o new) = Ids(tracker) \cup Ids(new)
    BY <1>4, <1>6, IdsOfBoth
  <2> QED BY <1>2, <1>5, <2>1
<1>9. Len(tracker') <= MaxEvents
  BY <1>1, <1>3, <1>7, ProbeMainAssumption, SMTT(30)
<1>10. offered + kept <= offered'
  BY <1>1, <1>2, <1>3
<1>11. offered' \in offered .. Limit
  BY <1>1, <1>2
<1> QED BY <1>2, <1>3, <1>7, <1>8, <1>9, <1>10, <1>11, SMTT(30)

(* A step of main keeps the invariant and is a step of the Courier or      *)
(* none.                                                                   *)
StepOK == FateInv' /\ [CourierSpec!Next]_(CourierSpec!vars)

\* A step that makes and moves no event.
LEMMA StillStep ==
    ASSUME FateInv, UNCHANGED <<tracker, batch, fates>>,
           pc' \notin {"drain", "poll", "report"} => tracker = <<>>,
           pc' \notin {"link", "recheck", "send", "undefined"} => batch = <<>>
    PROVE  StepOK
<1>1. UNCHANGED Waiting
  BY DEF Waiting, Ids
<1>2. FateInv'
  BY <1>1 DEF FateInv, fates
<1>3. UNCHANGED CourierSpec!vars
  BY <1>1 DEF CourierSpec!vars, fates, Waiting
<1> QED BY <1>2, <1>3 DEF StepOK

\* Packets and sockets offer events.
LEMMA OfferStep ==
    ASSUME FateInv, NEW lens \in Seq(Lens), add_event(lens), UNCHANGED batch,
           batch = <<>>, pc' \in {"drain", "poll", "report"}
    PROVE  StepOK
<1>0. /\ offered' \in offered .. Limit /\ delivered' = delivered
      /\ tracker' \in Seq(Event) /\ Len(tracker') <= MaxEvents
  BY AddEvents
<1> PICK kept \in Nat :
       /\ offered + kept <= offered'
       /\ Ids(tracker') = Ids(tracker) \cup (offered + 1 .. offered + kept)
       /\ discarded' = discarded \cup (offered + kept + 1 .. offered')
  BY AddEvents
<1>1. /\ offered \in Nat /\ Limit \in Nat /\ offered' \in Nat
      /\ delivered \cup discarded \cup Waiting = 1 .. offered
  BY <1>0, ProbeMainAssumption DEF FateInv
<1>2. /\ Waiting = Ids(tracker)
      /\ Waiting' = Waiting \cup (offered + 1 .. offered + kept)
  BY NoIds DEF Waiting
<1>3. Waiting \subseteq 1 .. offered
  BY <1>1
<1>4. /\ 1 .. offered' = (1 .. offered) \cup (offered + 1 .. offered + kept)
                            \cup (offered + kept + 1 .. offered')
      /\ (offered + 1 .. offered') \ Waiting' = offered + kept + 1 .. offered'
      /\ Waiting' \subseteq Waiting \cup (offered + 1 .. offered')
  BY <1>1, <1>2, <1>3, SMTT(30)
<1>5. (delivered \cup discarded \cup Waiting)' = 1 .. offered'
  BY <1>0, <1>1, <1>2, <1>4, SMTT(30)
<1>6. FateInv'
  <2>1. offered' \in 0 .. Limit
    BY <1>0, <1>1
  <2> QED BY <1>0, <1>5, <2>1 DEF FateInv
<1>7. CASE offered' = offered
  <2>1. kept = 0
    BY <1>1, <1>7
  <2>2. offered + 1 .. offered + kept = {} /\ offered + kept + 1 .. offered' = {}
    BY <1>1, <1>7, <2>1
  <2>3. UNCHANGED <<offered, Waiting, delivered, discarded>>
    BY <1>0, <1>2, <1>7, <2>2, SMTT(30)
  <2> QED BY <1>6, <2>3 DEF StepOK, CourierSpec!vars, Waiting
<1>8. CASE offered' # offered
  <2>1. offered' \in offered + 1 .. Limit
    BY <1>0, <1>1, <1>8, SMTT(30)
  <2>2. CourierSpec!Offer
    BY <1>0, <1>2, <1>4, <2>1 DEF CourierSpec!Offer, Waiting
  <2> QED BY <1>6, <2>2 DEF StepOK, CourierSpec!Next
<1> QED BY <1>7, <1>8

\* A report that is given up leaves as a whole.
LEMMA DropStep ==
    ASSUME FateInv, Dropped, UNCHANGED tracker,
           pc \in {"recheck", "send"}, pc' = "sleep"
    PROVE  StepOK
<1>1. /\ discarded' = discarded \cup Ids(batch) /\ batch' = <<>>
      /\ UNCHANGED <<offered, delivered>> /\ tracker = <<>> /\ tracker' = <<>>
  BY DEF Dropped, FateInv
<1>2. Waiting = Ids(batch) /\ Waiting' = {}
  BY <1>1, NoIds DEF Waiting
<1>3. CourierSpec!Discard
  BY <1>1, <1>2 DEF CourierSpec!Discard, Waiting
<1>4. (delivered \cup discarded \cup Waiting)' = 1 .. offered'
  BY <1>1, <1>2 DEF FateInv
<1>5. batch' \in Seq(Event)
  BY <1>1
<1>6. FateInv'
  BY <1>1, <1>4, <1>5 DEF FateInv
<1> QED BY <1>3, <1>6 DEF StepOK, CourierSpec!Next

\* So does one that is written to the relay.
LEMMA SendStep ==
    ASSUME FateInv, SendAll
    PROVE  StepOK
<1>1. /\ delivered' = delivered \cup Ids(batch) /\ batch' = <<>>
      /\ UNCHANGED <<offered, discarded>> /\ tracker = <<>> /\ tracker' = <<>>
      /\ pc' = "sleep"
  BY DEF SendAll, FateInv
<1>2. Waiting = Ids(batch) /\ Waiting' = {}
  BY <1>1, NoIds DEF Waiting
<1>3. CourierSpec!Deliver
  BY <1>1, <1>2 DEF CourierSpec!Deliver, Waiting
<1>4. (delivered \cup discarded \cup Waiting)' = 1 .. offered'
  BY <1>1, <1>2 DEF FateInv
<1>5. batch' \in Seq(Event)
  BY <1>1
<1>6. FateInv'
  BY <1>1, <1>4, <1>5 DEF FateInv
<1> QED BY <1>3, <1>6 DEF StepOK, CourierSpec!Next

\* Every step of main, and the signal, keep count of the events.
LEMMA NextFate == FateInv /\ [Next]_vars => StepOK
<1> SUFFICES ASSUME FateInv, [Next]_vars PROVE StepOK
  OBVIOUS
<1>1. CASE Args \/ Create \/ Load \/ Begin \/ DrainDone \/ Link \/ Sleep
           \/ Shutdown \/ sig_handler \/ UNCHANGED vars
  <2>1. UNCHANGED <<tracker, batch, fates>>
    BY <1>1, ZenonT(30) DEF Args, Create, Load, Begin, DrainDone, Link, Sleep, Shutdown,
                sig_handler, vars
  <2>2. pc' \notin {"drain", "poll", "report"} => tracker = <<>>
    BY <1>1, ZenonT(30) DEF Args, Create, Load, Begin, DrainDone, Link, Sleep, Shutdown,
                sig_handler, vars, FateInv
  <2>3. pc' \notin {"link", "recheck", "send", "undefined"} => batch = <<>>
    BY <1>1, Zenon DEF Args, Create, Load, Begin, DrainDone, Link, Sleep, Shutdown,
                sig_handler, vars, FateInv
  <2> QED BY <2>1, <2>2, <2>3, StillStep, SMTT(30)
<1>2. CASE DrainPacket
  <2>1. pc' = "drain" /\ UNCHANGED batch /\ batch = <<>>
    BY <1>2 DEF DrainPacket, FateInv
  <2>2. CASE add_event(<<>>)
    <3>1. <<>> \in Seq(Lens)
      OBVIOUS
    <3> QED BY <2>1, <2>2, <3>1, OfferStep, Zenon
  <2>3. ASSUME NEW l \in Lens, add_event(<<l>>) PROVE StepOK
    <3>1. <<l>> \in Seq(Lens)
      OBVIOUS
    <3> QED BY <2>1, <2>3, <3>1, OfferStep, Zenon
  <2> QED BY <1>2, <2>2, <2>3, Zenon DEF DrainPacket
<1>3. CASE Poll
  <2>1. pc' = "report" /\ UNCHANGED batch /\ batch = <<>>
    BY <1>3 DEF Poll, FateInv
  <2>2. \E entries : \E n \in 0 .. entries : \E lens \in [1 .. n -> Lens] : add_event(lens)
    BY <1>3 DEF Poll
  <2>3. PICK n \in Nat : \E lens \in [1 .. n -> Lens] : add_event(lens)
    BY <2>2
  <2>4. PICK lens \in [1 .. n -> Lens] : add_event(lens)
    BY <2>3
  <2>5. lens \in Seq(Lens)
    OBVIOUS
  <2> QED BY <2>1, <2>4, <2>5, OfferStep
<1>4. CASE Report
  <2>1. batch = <<>> /\ UNCHANGED fates
    BY <1>4 DEF Report, FateInv
  <2>2. CASE tracker = <<>> /\ pc' = "sleep" /\ UNCHANGED <<text, batch, tracker>>
    BY <2>1, <2>2, StillStep
  <2>3. CASE /\ pc' \in {"link", "undefined"}
             /\ batch' = tracker /\ tracker' = <<>>
    <3>1. UNCHANGED Waiting
      BY <2>1, <2>3, NoIds DEF Waiting
    <3>2. tracker' \in Seq(Event) /\ Len(tracker') <= MaxEvents /\ batch' \in Seq(Event)
      BY <2>3, ProbeMainAssumption DEF FateInv
    <3>3. (delivered \cup discarded \cup Waiting)' = 1 .. offered'
      BY <2>1, <3>1 DEF FateInv, fates
    <3>4. FateInv'
      BY <2>1, <2>3, <3>2, <3>3, SMTT(30) DEF FateInv, fates
    <3>5. UNCHANGED CourierSpec!vars
      BY <2>1, <3>1 DEF CourierSpec!vars, fates, Waiting
    <3> QED BY <3>4, <3>5 DEF StepOK
  <2> QED BY <1>4, <2>2, <2>3, SMTT(30) DEF Report, flow_tracker_flush
<1>5. CASE Recheck
  <2>1. CASE pc' = "send" /\ UNCHANGED <<tcp, batch, text, fates>>
    <3>1. UNCHANGED tracker /\ tracker = <<>>
      BY <1>5 DEF Recheck, FateInv
    <3> QED BY <2>1, <3>1, StillStep
  <2>2. CASE pc' = "sleep" /\ Dropped
    <3>1. UNCHANGED tracker /\ pc = "recheck"
      BY <1>5 DEF Recheck
    <3> QED BY <2>2, <3>1, DropStep
  <2> QED BY <1>5, <2>1, <2>2 DEF Recheck
<1>6. CASE SendAll
  BY <1>6, SendStep
<1>7. CASE SendFails \/ SendLost
  <2>1. Dropped /\ UNCHANGED tracker /\ pc = "send" /\ pc' = "sleep"
    BY <1>7 DEF SendFails, SendLost
  <2> QED BY <2>1, DropStep
<1> QED BY <1>1, <1>2, <1>3, <1>4, <1>5, <1>6, <1>7, SMTT(30) DEF Next, Main

\* The invariant on events holds in every state of the process.
THEOREM FateInvariant == Spec => []FateInv
<1>1. Init => FateInv
  <2> SUFFICES ASSUME Init PROVE FateInv
    OBVIOUS
  <2>1. /\ tracker = <<>> /\ batch = <<>> /\ delivered = {} /\ discarded = {}
        /\ offered = 0
    BY DEF Init
  <2>2. Waiting = {}
    BY <2>1, NoIds DEF Waiting
  <2>3. tracker \in Seq(Event) /\ batch \in Seq(Event) /\ Len(tracker) = 0
    BY <2>1
  <2>4. 1 .. offered = {}
    BY <2>1
  <2> QED BY <2>1, <2>2, <2>3, <2>4, ProbeMainAssumption, SMTT(30) DEF FateInv
<1>2. FateInv /\ [Next]_vars => FateInv'
  BY NextFate DEF StepOK
<1> QED BY <1>1, <1>2, PTL DEF Spec

(* When main begins a pass or has returned, every event that was made has  *)
(* been sent or given up.                                                  *)
THEOREM PassSettlesAll == Spec => []NothingLeftBehind
<1>1. FateInv => NothingLeftBehind
  BY NoIds DEF FateInv, NothingLeftBehind, Waiting
<1> QED BY <1>1, FateInvariant, PTL

(* main hands every event over at most once, and the events of one report  *)
(* together: whatever the link and the buffers do, it implements Courier.  *)
THEOREM MainIsCourier == Spec => ImplementsCourier
<1>1. Init => CourierSpec!Init
  <2> SUFFICES ASSUME Init PROVE CourierSpec!Init
    OBVIOUS
  <2>1. tracker = <<>> /\ batch = <<>>
    BY DEF Init
  <2>2. Ids(tracker) \cup Ids(batch) = {}
    BY <2>1, NoIds
  <2> QED BY <2>2 DEF Init, CourierSpec!Init
<1>2. FateInv /\ [Next]_vars => [CourierSpec!Next]_(CourierSpec!vars)
  BY NextFate DEF StepOK
<1> QED BY <1>1, <1>2, FateInvariant, PTL DEF Spec, ImplementsCourier, CourierSpec!Spec

-----------------------------------------------------------------------------
(* The text of a report                                                    *)

\* The lengths serialize_batch is given, and what they are.
Lengths(seq) == [i \in DOMAIN seq |-> seq[i].len]

\* An event has a text, so each length is at least 1.
LEMMA LengthsTyped ==
    ASSUME NEW seq \in Seq(Event)
    PROVE  /\ Lengths(seq) \in Seq(Nat \ {0}) /\ Lengths(seq) \in Seq(Nat)
           /\ Len(Lengths(seq)) = Len(seq)
<1> DEFINE n == Len(seq)
<1>1. n \in Nat /\ DOMAIN seq = 1 .. n
  OBVIOUS
<1>2. ASSUME NEW i \in 1 .. n PROVE seq[i].len \in Nat \ {0}
  <2>1. seq[i] \in Event
    BY <1>1
  <2>2. seq[i].len \in Lens
    BY <2>1 DEF Event
  <2> QED BY <2>2, ProbeMainAssumption, Zenon
<1>3. Lengths(seq) \in [1 .. n -> Nat \ {0}]
  BY <1>1, <1>2 DEF Lengths
<1>4. Lengths(seq) \in Seq(Nat \ {0}) /\ Len(Lengths(seq)) = n
  BY <1>1, <1>3
<1> QED BY <1>4

\* The length of the metric's text, or 0.
LEMMA MetricsTyped == Metrics \subseteq Nat
BY MetricAssumption DEF Metrics

(* From the report to the send, json_buf holds what serialize_batch made   *)
(* of the events in main's array.                                          *)
TextInv ==
    pc \in {"link", "recheck", "send"} =>
       \E metric \in Nat : text = serialize_batch(Lengths(batch), metric, OutSize)

\* Every step keeps the text and the array together.
LEMMA NextText == TextInv /\ [Next]_vars => TextInv'
<1> SUFFICES ASSUME TextInv, [Next]_vars PROVE TextInv'
  OBVIOUS
<1>1. CASE Report
  <2>1. CASE pc' \notin {"link", "recheck", "send"}
    BY <2>1 DEF TextInv
  <2>2. CASE pc' \in {"link", "recheck", "send"}
    <3>1. PICK metric \in Metrics :
             /\ text' = serialize_batch(Lengths(tracker), metric, OutSize)
             /\ batch' = tracker
      BY <1>1, <2>2 DEF Report, Lengths
    <3>2. metric \in Nat
      BY MetricsTyped
    <3>3. text' = serialize_batch(Lengths(batch'), metric, OutSize)
      BY <3>1
    <3> QED BY <3>2, <3>3 DEF TextInv
  <2> QED BY <2>1, <2>2
<1>2. CASE UNCHANGED <<batch, text>> /\ (pc' \in {"link", "recheck", "send"}
                                           => pc \in {"link", "recheck", "send"})
  BY <1>2 DEF TextInv
<1>3. CASE pc' = "sleep"
  BY <1>3, SMTT(30) DEF TextInv
<1>4. Report \/ pc' = "sleep" \/
         (UNCHANGED <<batch, text>> /\ (pc' \in {"link", "recheck", "send"}
                                           => pc \in {"link", "recheck", "send"}))
  BY Zenon DEF Next, Main, Args, Create, Load, Begin, DrainPacket, DrainDone, Poll,
         Link, Recheck, SendAll, SendFails, SendLost, Sleep, Shutdown,
         sig_handler, vars
<1> QED BY <1>1, <1>2, <1>3, <1>4

\* It holds from the start.
THEOREM TextInvariant == Spec => []TextInv
<1>1. Init => TextInv
  BY DEF Init, TextInv
<1> QED BY <1>1, NextText, PTL DEF Spec

(* A batch that fits json_buf is serialised without loss, for every size   *)
(* of the buffer and any number and length of the events.                  *)
THEOREM FitsIsExact == Spec => FitsThenExact
<1> DEFINE Exact ==
       pc = "report" /\ pc' \in {"link", "undefined"} =>
          LET lens == [i \in DOMAIN tracker |-> tracker[i].len] IN
          \E metric \in Metrics :
             LET full == FullLength(lens, metric) IN
             text' = IF full >= OutSize
                     THEN serialize_batch(lens, metric, OutSize)
                     ELSE [len |-> full, top |-> full, n |-> Len(tracker),
                           metric |-> metric # 0, cut |-> FALSE]
<1>1. FateInv /\ [Next]_vars => [Exact]_vars
  <2> SUFFICES ASSUME FateInv, Next, pc = "report", pc' \in {"link", "undefined"}
               PROVE  Exact
    OBVIOUS
  <2>1. Report
    BY DEF Next, Main, Args, Create, Load, Begin, DrainPacket, DrainDone, Poll,
           Link, Recheck, SendAll, SendFails, SendLost, Sleep, Shutdown,
           sig_handler
  <2>2. PICK metric \in Metrics :
           text' = serialize_batch(Lengths(tracker), metric, OutSize)
    BY <2>1 DEF Report, Lengths
  <2> DEFINE full == FullLength(Lengths(tracker), metric)
             exact == [len |-> full, top |-> full, n |-> Len(tracker),
                       metric |-> metric # 0, cut |-> FALSE]
  <2>3. /\ Lengths(tracker) \in Seq(Nat \ {0}) /\ Lengths(tracker) \in Seq(Nat)
        /\ Len(Lengths(tracker)) = Len(tracker)
        /\ metric \in Nat /\ OutSize \in Nat
    BY LengthsTyped, MetricsTyped, ProbeMainAssumption DEF FateInv
  <2>4. full \in Nat
    <3>1. Len(tracker) \in Nat /\ Len(tracker) \in 0 .. Len(tracker)
      BY DEF FateInv
    <3>2. Sums(Lengths(tracker))[Len(tracker)] \in Nat
      BY <2>3, <3>1, SumsRun
    <3>3. ASSUME NEW sum \in Nat, NEW k \in Nat PROVE Joined(sum, k, metric) \in Nat
      BY <2>3 DEF Joined
    <3>4. full = Joined(Sums(Lengths(tracker))[Len(tracker)], Len(tracker), metric)
      BY <2>3, FullOf, SMTT(30)
    <3> QED BY <3>1, <3>2, <3>3, <3>4, Zenon
  <2>5. text' = IF full >= OutSize
                THEN serialize_batch(Lengths(tracker), metric, OutSize)
                ELSE exact
    <3>1. CASE full >= OutSize
      BY <2>2, <3>1, SMTT(30)
    <3>2. CASE ~(full >= OutSize)
      <4>1. full < OutSize
        BY <2>3, <2>4, <3>2, SMTT(30)
      <4>2. serialize_batch(Lengths(tracker), metric, OutSize) = exact
        BY <2>3, <4>1, FitsExact
      <4> QED BY <2>2, <3>2, <4>2
    <3> QED BY <3>1, <3>2, Zenon
  <2> QED BY <2>5, Zenon DEF Lengths
<1> QED BY <1>1, FateInvariant, PTL DEF Spec, FitsThenExact

(* The relay never gets a report that was cut or shortened: such a text    *)
(* fills json_buf and is longer than http_buf has room for.                *)
THEOREM DeliveredWhole == Spec => WholeDelivered
<1>1. FateInv /\ TextInv /\ [Next]_vars =>
         [delivered' # delivered => text.n = Len(batch) /\ ~text.cut]_vars
  <2> SUFFICES ASSUME FateInv, TextInv, Next, delivered' # delivered
               PROVE  text.n = Len(batch) /\ ~text.cut
    BY SMTT(30)
  <2>1. pc = "send" /\ text.len <= SendRoom
    BY Zenon DEF Next, Main, Args, Create, Load, Begin, DrainPacket, DrainDone, Poll,
           Report, Link, Recheck, Dropped, SendAll, SendFails, SendLost, Sleep,
           Shutdown, sig_handler, FitsRequest, add_event, fates
  <2>2. PICK metric \in Nat : text = serialize_batch(Lengths(batch), metric, OutSize)
    BY <2>1 DEF TextInv
  <2>3. /\ Lengths(batch) \in Seq(Nat) /\ Len(Lengths(batch)) = Len(batch)
        /\ OutSize \in Nat
    BY LengthsTyped, ProbeMainAssumption DEF FateInv
  <2>4. /\ text.len \in Nat
        /\ text.n # Len(batch) \/ text.cut => text.len >= OutSize - 1
    BY <2>2, <2>3, ShortIsLong
  <2> QED BY <2>1, <2>3, <2>4, ProbeMainAssumption, SMTT(30)
<1> QED BY <1>1, FateInvariant, TextInvariant, PTL DEF Spec, WholeDelivered

-----------------------------------------------------------------------------
(* Types                                                                   *)

\* A file of /proc/net takes no more of the array than it is given.
LEMMA ParsedFile ==
    ASSUME NEW n \in Nat, NEW max \in Nat
    PROVE  parse_proc_net_file([i \in 1 .. n |-> SocketLine], max) \in 0 .. max
<1> DEFINE lines == [i \in 1 .. n |-> SocketLine]
           good  == {i \in DOMAIN lines : Scan(Format, lines[i]) >= 5}
<1>1. good \in SUBSET (1 .. n)
  OBVIOUS
<1>2. IsFiniteSet(1 .. n)
  BY FS_Interval
<1>3. IsFiniteSet(good)
  BY <1>1, <1>2, FS_Subset
<1>4. Cardinality(good) \in Nat
  BY <1>3, FS_CardinalityType
<1>5. parse_proc_net_file(lines, max) =
         IF Cardinality(good) <= max THEN Cardinality(good) ELSE max
  BY DEF parse_proc_net_file
<1> HIDE DEF good, lines
<1>6. parse_proc_net_file(lines, max) \in 0 .. max
  BY <1>4, <1>5
<1> QED BY <1>6 DEF lines

(* main's four reads together use no more than half of the array: a        *)
(* protocol family never gets more than its quarter.                       *)
LEMMA ReadTyped ==
    ASSUME NEW shown \in [Files -> Nat], NEW quarter \in Nat
    PROVE  ReadAll(shown, quarter) \in 0 .. 2 * quarter
<1> DEFINE Read(file, max) ==
              parse_proc_net_file([i \in 1 .. shown[file] |-> SocketLine], max)
           tcp4 == Read("tcp", quarter)
           udp4 == Read("udp", quarter - tcp4)
           tcp6 == Read("tcp6", quarter)
           udp6 == Read("udp6", quarter - tcp6)
<1>1. \A file \in Files : shown[file] \in Nat
  OBVIOUS
<1>2. "tcp" \in Files /\ "udp" \in Files /\ "tcp6" \in Files /\ "udp6" \in Files
  BY DEF Files
<1>3. ASSUME NEW file \in Files, NEW max \in Nat PROVE Read(file, max) \in 0 .. max
  BY <1>1, ParsedFile
<1>4. ReadAll(shown, quarter) = tcp4 + udp4 + tcp6 + udp6
  BY DEF ReadAll
<1> HIDE DEF Read
<1>5. tcp4 \in 0 .. quarter /\ tcp6 \in 0 .. quarter
  BY <1>2, <1>3
<1> HIDE DEF tcp4, tcp6
<1>6. quarter - tcp4 \in Nat /\ quarter - tcp6 \in Nat
  BY <1>5
<1>7. udp4 \in 0 .. quarter - tcp4 /\ udp6 \in 0 .. quarter - tcp6
  BY <1>2, <1>3, <1>6
<1> HIDE DEF udp4, udp6
<1> QED BY <1>4, <1>5, <1>7

OwnTyped ==
    /\ tcp.sock_fd \in Int
    /\ \A f \in DOMAIN open : open[f] \in {"tcp", "prog", "packet"}

\* What main owns has a number and a kind.
LEMMA DescTyped == DescInv /\ pc \in Pcs => OwnTyped
<1> SUFFICES ASSUME DescInv, pc \in Pcs PROVE OwnTyped
  OBVIOUS
<1> USE DEF OwnTyped
<1> DEFINE mine == tcp.sock_fd
           rest == IF use_bpf THEN {status.socket_fd, status.bpf_prog_fd} ELSE {}
<1>1. CASE pc \in Early
  <2>1. DOMAIN open = {mine} \ {NoFd} /\ (mine # NoFd => open[mine] = "tcp")
    BY <1>1 DEF DescInv
  <2>2. mine \in 3 .. 5 \/ mine = NoFd
    BY <2>1 DEF DescInv
  <2> QED BY <2>1, <2>2 DEF NoFd
<1>2. CASE pc \notin Early
  <2>1. /\ DOMAIN open = ({mine} \cup rest) \ {NoFd}
        /\ mine # NoFd => open[mine] = "tcp"
    BY <1>2 DEF DescInv, DescriptorsOwned, Early
  <2>2. mine \in 3 .. 5 \/ mine = NoFd
    BY <2>1 DEF DescInv
  <2>3. CASE pc = "done"
    BY <2>2, <2>3 DEF DescInv, NoFd
  <2>4. CASE pc # "done"
    <3>1. use_bpf => /\ open[status.socket_fd] = "packet"
                     /\ open[status.bpf_prog_fd] = "prog"
      BY <1>2, <2>4, SMTT(30) DEF DescInv, DescriptorsOwned, Early
    <3> QED BY <2>1, <2>2, <3>1, SMTT(30) DEF NoFd
  <2> QED BY <2>3, <2>4
<1> QED BY <1>1, <1>2

(* What the two invariants leave open of the types.                        *)
ShapeInv ==
    /\ pc \in Pcs /\ g_stop \in BOOLEAN /\ foreign \in BOOLEAN
    /\ tcp \in [sock_fd : Int, is_connected : BOOLEAN]
    /\ round \in 0 .. RoundLimit
    /\ polled \in [shown : BOOLEAN, entries : 0 .. 2 * Quarter]
    /\ since \in 0 .. Period

\* A connection that is made, or not, has the client's type.
LEMMA ConnectTyped ==
    ASSUME NEW tab, Connect(tab), tcp'.sock_fd \in Int
    PROVE  tcp' \in [sock_fd : Int, is_connected : BOOLEAN]
<1>1. CASE tcp' = [sock_fd |-> NewFd(tab), is_connected |-> TRUE]
  <2>1. NewFd(tab) \in Int
    BY <1>1
  <2> QED BY <1>1, <2>1
<1>2. CASE tcp' = [sock_fd |-> NoFd, is_connected |-> FALSE]
  BY <1>2 DEF NoFd
<1> QED BY <1>1, <1>2 DEF Connect

\* So has the client after tcp_client_reconnect.
LEMMA ReconnectTyped ==
    ASSUME ShapeInv, tcp_client_reconnect, tcp'.sock_fd \in Int
    PROVE  tcp' \in [sock_fd : Int, is_connected : BOOLEAN] /\ foreign' \in BOOLEAN
<1>1. CASE tcp' = [tcp EXCEPT !.is_connected = FALSE] /\ UNCHANGED foreign
  BY <1>1, Zenon DEF ShapeInv
<1>2. CASE /\ foreign' = (foreign \/ Foreign(open, tcp.sock_fd, "tcp"))
           /\ Connect(Close(open, tcp.sock_fd))
  BY <1>2, ConnectTyped
<1> QED BY <1>1, <1>2 DEF tcp_client_reconnect

\* Every step of main, and the signal, keep the types.
LEMMA NextShape ==
    ASSUME DescInv, DescInv', ShapeInv, [Next]_vars
    PROVE  ShapeInv'
<1>0. /\ Period \in Nat /\ RoundLimit \in Nat /\ Quarter \in Nat /\ MaxShown \in Nat
  BY ProbeMainAssumption, SMTT(30)
<1>1. pc' \in Pcs
  BY ZenonT(30) DEF Next, Main, Args, Create, Load, Begin, DrainPacket, DrainDone, Poll,
         Report, Link, Recheck, SendAll, SendFails, SendLost, Sleep, Shutdown,
         sig_handler, vars, Pcs, ShapeInv
<1>2. tcp'.sock_fd \in Int
  <2>1. (DescInv /\ pc \in Pcs => OwnTyped)'
    BY DescTyped, PTL
  <2> QED BY <1>1, <2>1 DEF OwnTyped
<1>3. CASE Args \/ Load \/ Begin \/ DrainDone \/ SendAll \/ SendFails
           \/ sig_handler \/ UNCHANGED vars
  <2>1. /\ UNCHANGED <<tcp, foreign, polled, since>> /\ round' \in {round, 0}
        /\ g_stop' \in BOOLEAN
    BY <1>3, ZenonT(30) DEF Args, Load, Begin, DrainDone, SendAll, SendFails, sig_handler,
                vars, pass, ShapeInv
  <2> QED BY <1>0, <1>1, <2>1 DEF ShapeInv
<1>4. CASE Create
  <2>1. UNCHANGED <<g_stop, foreign, round, polled, since>>
    BY <1>4 DEF Create, pass
  <2>2. tcp' \in [sock_fd : Int, is_connected : BOOLEAN]
    BY <1>2, <1>4, ConnectTyped, Zenon DEF Create, ShapeInv
  <2> QED BY <1>1, <2>1, <2>2 DEF ShapeInv
<1>5. CASE DrainPacket
  <2>1. UNCHANGED <<g_stop, foreign, tcp, polled, since>> /\ round < RoundLimit
        /\ round' = round + 1
    BY <1>5 DEF DrainPacket
  <2>2. round' \in 0 .. RoundLimit
    BY <1>0, <2>1, SMTT(30) DEF ShapeInv
  <2> QED BY <1>1, <2>1, <2>2 DEF ShapeInv
<1>6. CASE Poll
  <2>1. UNCHANGED <<g_stop, foreign, tcp, round, since>>
    BY <1>6 DEF Poll
  <2>2. PICK shown \in [Files -> 0 .. MaxShown] :
           polled' = [shown |-> \E f \in Files : shown[f] > 0,
                      entries |-> ReadAll(shown, Quarter)]
    BY <1>6, Zenon DEF Poll
  <2>3. shown \in [Files -> Nat]
    BY <1>0
  <2>4. ReadAll(shown, Quarter) \in 0 .. 2 * Quarter
    BY <1>0, <2>3, ReadTyped
  <2>5. polled' \in [shown : BOOLEAN, entries : 0 .. 2 * Quarter]
    BY <2>2, <2>4
  <2> QED BY <1>1, <2>1, <2>5, SMTT(30) DEF ShapeInv
<1>7. CASE Report
  <2>1. UNCHANGED <<g_stop, foreign, tcp, round>> /\ polled' = NoPoll
        /\ since' = IF since = Period THEN 0 ELSE since
    BY <1>7 DEF Report
  <2>2. since' \in 0 .. Period
    BY <1>0, <2>1 DEF ShapeInv
  <2>3. polled' \in [shown : BOOLEAN, entries : 0 .. 2 * Quarter]
    BY <1>0, <2>1 DEF NoPoll
  <2> QED BY <1>1, <2>1, <2>2, <2>3, SMTT(30) DEF ShapeInv
<1>8. CASE Link \/ SendLost
  <2>1. UNCHANGED <<g_stop, round, polled, since>>
    BY <1>8 DEF Link, SendLost, pass
  <2>2. UNCHANGED <<tcp, foreign>> \/ tcp_client_reconnect
    BY <1>8 DEF Link, SendLost
  <2> QED BY <1>1, <1>2, <2>1, <2>2, ReconnectTyped, SMTT(30) DEF ShapeInv
<1>9. CASE Recheck
  <2>1. UNCHANGED <<g_stop, round, polled, since, foreign>>
    BY <1>9 DEF Recheck, pass
  <2>2. tcp' = tcp \/ tcp' = [tcp EXCEPT !.is_connected = FALSE]
    BY <1>9 DEF Recheck
  <2> QED BY <1>1, <2>1, <2>2, Zenon DEF ShapeInv
<1>10. CASE Sleep
  <2>1. UNCHANGED <<g_stop, round, polled, foreign, tcp>>
        /\ since' \in (IF since = Period THEN since ELSE since + 1) .. Period
    BY <1>10 DEF Sleep, pass
  <2>2. since' \in 0 .. Period
    BY <1>0, <2>1, SMTT(30) DEF ShapeInv
  <2> QED BY <1>1, <2>1, <2>2 DEF ShapeInv
<1>11. CASE Shutdown
  <2>1. UNCHANGED <<g_stop, round, polled, since>>
        /\ tcp' = [sock_fd |-> NoFd, is_connected |-> FALSE]
    BY <1>11, SMTT(30) DEF Shutdown, pass
  <2>2. foreign' \in BOOLEAN
    BY <1>11 DEF Shutdown
  <2> QED BY <1>1, <2>1, <2>2, SMTT(30) DEF ShapeInv, NoFd
<1> QED BY <1>3, <1>4, <1>5, <1>6, <1>7, <1>8, <1>9, <1>10, <1>11 DEF Next, Main

(* Every variable keeps its type and its bound: main never holds more than *)
(* three descriptors, reads more entries than half the array, or has more  *)
(* events than the tracker has room for.                                   *)
THEOREM MainTypes == Spec => []TypeOK
<1>1. Init => ShapeInv
  <2> SUFFICES ASSUME Init PROVE ShapeInv
    OBVIOUS
  <2>1. tcp \in [sock_fd : Int, is_connected : BOOLEAN]
    BY DEF Init, NoFd
  <2>2. polled \in [shown : BOOLEAN, entries : 0 .. 2 * Quarter]
    BY ProbeMainAssumption DEF Init, NoPoll
  <2>3. pc \in Pcs /\ g_stop \in BOOLEAN /\ foreign \in BOOLEAN
    BY Zenon DEF Init, Pcs
  <2>4. round \in 0 .. RoundLimit /\ since \in 0 .. Period
    BY ProbeMainAssumption DEF Init
  <2> QED BY <2>1, <2>2, <2>3, <2>4, SMTT(30) DEF ShapeInv
<1>2. DescInv /\ DescInv' /\ ShapeInv /\ [Next]_vars => ShapeInv'
  BY NextShape
<1>3. DescInv /\ FateInv /\ ShapeInv => TypeOK
  <2> SUFFICES ASSUME DescInv, FateInv, ShapeInv PROVE TypeOK
    OBVIOUS
  <2>1. /\ \A f \in DOMAIN open : open[f] \in {"tcp", "prog", "packet"}
        /\ DOMAIN open \subseteq 3 .. 5 /\ use_bpf \in BOOLEAN
        /\ status \in [socket_fd : Int, bpf_prog_fd : Int]
    BY DescTyped DEF OwnTyped, ShapeInv, DescInv
  <2>2. delivered \subseteq 1 .. Limit /\ discarded \subseteq 1 .. Limit
    <3>1. 1 .. offered \subseteq 1 .. Limit
      BY ProbeMainAssumption DEF FateInv
    <3>2. delivered \subseteq 1 .. offered /\ discarded \subseteq 1 .. offered
      BY DEF FateInv
    <3> QED BY <3>1, <3>2
  <2>3. /\ tracker \in Seq(Event) /\ Len(tracker) <= MaxEvents
        /\ batch \in Seq(Event) /\ offered \in 0 .. Limit
    BY DEF FateInv
  <2> QED BY <2>1, <2>2, <2>3 DEF TypeOK, ShapeInv
<1> QED BY <1>1, <1>2, <1>3, DescriptorInvariant, FateInvariant, PTL DEF Spec
=============================================================================
