----------------------------- MODULE EpollEvent -----------------------------
(***************************************************************************)
(* EpollEvent is the object through which an agent talks to the epoll set: *)
(* it remembers the descriptor it was given (m_iFd) and the events it      *)
(* believes are registered (m_iEpollEvent), and asks the kernel to change  *)
(* the set with epoll_ctl.                                                 *)
(*                                                                         *)
(* The methods are operators on what they read, a record s:               *)
(*   s.fd    m_iFd;                                                        *)
(*   s.mask  m_iEpollEvent;                                                *)
(*   s.entry what the kernel's epoll set holds for that descriptor;        *)
(*   s.room  whether the kernel would accept one more entry;               *)
(* and return a Reply: SUCCESSFUL or FAILED, and the mask and the entry    *)
(* they leave.                                                             *)
(* EPOLLERR and EPOLLHUP are reported whether asked for or not, so masks   *)
(* are subsets of {"IN", "OUT"}.                                           *)
(***************************************************************************)
CONSTANTS NoFd,    \* the descriptor -1
          NoPtr    \* the null EpollEvent pointer

Events == {"IN", "OUT"}

\* The kernel's epoll set has no entry for a descriptor.
NoEntry == [ptr |-> NoPtr, events |-> {}]

\* epoll_ctl: ADD wants an absent entry (else EEXIST) and room for it (else
\* ENOSPC, ENOMEM); MOD and DEL want a present one (else ENOENT, EBADF).
Granted(s, op) ==
    IF op = "ADD" THEN s.entry = NoEntry /\ s.room ELSE s.entry # NoEntry

Reply(ok, mask, entry) == [ok |-> ok, mask |-> mask, entry |-> entry]
Nothing(s, ok) == Reply(ok, s.mask, s.entry)

\* Epoll::doEvent, and the assignment to m_iEpollEvent that each caller makes
\* when it succeeds.
doEvent(s, self, op, events, mask) ==
    IF ~Granted(s, op) THEN Nothing(s, FALSE)
    ELSE IF op = "DEL" THEN Reply(TRUE, mask, NoEntry)
    ELSE Reply(TRUE, mask, [ptr |-> self, events |-> events])

\* Faulty: the wrong flag is looked at.
openWEventNot(s, self) ==
    LET mask == s.mask \cup {"OUT"}
    IN  IF s.fd = NoFd \/ "IN" \in s.mask
        THEN Nothing(s, TRUE)
        ELSE doEvent(s, self, "MOD", mask, mask)

openWEvent(s, self) ==
    LET mask == s.mask \cup {"OUT"}
    IN  IF s.fd = NoFd \/ "OUT" \in s.mask
        THEN Nothing(s, TRUE)
        ELSE doEvent(s, self, "MOD", mask, mask)

closeWEvent(s, self) ==
    LET mask == s.mask \ {"OUT"}
    IN  IF s.fd = NoFd \/ "OUT" \notin s.mask
        THEN Nothing(s, TRUE)
        ELSE doEvent(s, self, "MOD", mask, mask)

registerREvent(s, self) ==
    LET mask == s.mask \cup {"IN"}
    IN  IF s.fd = NoFd THEN Nothing(s, FALSE)
        ELSE IF "IN" \in s.mask THEN Nothing(s, TRUE)
        ELSE doEvent(s, self, "ADD", mask, mask)

registerWEvent(s, self) ==
    LET mask == s.mask \cup {"OUT"}
    IN  IF s.fd = NoFd THEN Nothing(s, FALSE)
        ELSE IF "OUT" \in s.mask THEN Nothing(s, TRUE)
        ELSE doEvent(s, self, "ADD", mask, mask)

registerRWEvent(s, self) ==
    IF s.fd = NoFd THEN Nothing(s, TRUE)
    ELSE IF "IN" \in s.mask THEN registerWEvent(s, self)
    ELSE IF "OUT" \in s.mask THEN registerREvent(s, self)
    ELSE doEvent(s, self, "ADD", Events, s.mask \cup Events)

unregisterREvent(s, self) ==
    IF s.fd = NoFd THEN Nothing(s, FALSE)
    ELSE IF "IN" \notin s.mask THEN Nothing(s, TRUE)
    ELSE doEvent(s, self, "DEL", {}, s.mask \ {"IN"})

unregisterWEvent(s, self) ==
    IF s.fd = NoFd THEN Nothing(s, FALSE)
    ELSE IF "OUT" \notin s.mask THEN Nothing(s, TRUE)
    ELSE doEvent(s, self, "DEL", {}, s.mask \ {"OUT"})

unregisterRWEvent(s, self) ==
    IF s.fd = NoFd THEN Nothing(s, TRUE)
    ELSE IF "IN" \notin s.mask THEN unregisterWEvent(s, self)
    ELSE IF "OUT" \notin s.mask THEN unregisterREvent(s, self)
    ELSE doEvent(s, self, "DEL", {}, {})
=============================================================================
