---------------------------- MODULE MCIngestion ----------------------------
(***************************************************************************)
(* Small instances of Ingestion: the payloads a router of one or two users *)
(* sends, as sets to be handed to Events and Snapshots.                    *)
(***************************************************************************)
EXTENDS SerialInvariant, TLC

CONSTANTS vpn, lab, old,      \* sources; "old" is disabled
          ann, bob,           \* users
          ppp, l2tp,          \* services
          r1, r2,             \* RouterOS session identifiers
          a1, a2,             \* texts
          b1, b2,             \* boots
          e1, e2, e3, e4      \* event identifiers

MCSourceServices == [s \in Source |-> IF s = vpn THEN {ppp} ELSE {}]

Attrs(addr, iface) == [addr |-> addr, caller |-> None, iface |-> iface]

Evt(id, type, user, iface, at) ==
    [id |-> id, type |-> type, source |-> vpn, who |-> <<user, ppp>>,
     attrs |-> Attrs(None, iface), occurred |-> at]

Itm(rsid, user, addr, uptime) ==
    [rsid |-> rsid, who |-> <<user, ppp>>, attrs |-> Attrs(addr, None), uptime |-> uptime]

Snp(source, at, boot, items) ==
    [source |-> source, observed |-> at, boot |-> boot, items |-> items]

-----------------------------------------------------------------------------
(* Two requests at a time, over one user's session.  The CONNECT (at 2) and *)
(* the late DISCONNECT of an earlier session (at 1) may be duplicated and   *)
(* swapped; the snapshot at 1 is older than the CONNECT, the one at 2 lists *)
(* the session and the one at 3 is the next boot's, so that one session is  *)
(* refreshed, missed, disconnected and rebooted in every order.             *)

RaceEvents == {Evt(e1, "CONNECT", ann, a1, 2), Evt(e2, "DISCONNECT", ann, None, 1)}

RaceSnapshots == {Snp(vpn, 1, b1, {}),
                  Snp(vpn, 2, b1, {Itm(r1, ann, None, 1)}),
                  Snp(vpn, 3, b2, {})}

RaceSymmetry == Permutations(SessionId) \cup Permutations(Worker)

-----------------------------------------------------------------------------
(* One request at a time, in any order: two sources and two boots, two      *)
(* users, one of whom may be connected twice.                               *)

SerialEvents == {Evt(e1, "CONNECT", ann, None, 2),
                 Evt(e2, "CONNECT", ann, a1, 1),
                 Evt(e2, "CONNECT", bob, a1, 1),
                 Evt(e3, "DISCONNECT", ann, a1, 3),
                 [Evt(e4, "CONNECT", ann, None, 1) EXCEPT !.who = <<ann, l2tp>>]}

AnnTwice == {Itm(r1, ann, a1, 2), Itm(r2, ann, a2, None)}

SerialSnapshots ==
    {Snp(vpn, at, b1, items) : at \in {1, 3}, items \in SUBSET AnnTwice}
    \cup {Snp(vpn, 2, b2, AnnTwice), Snp(vpn, 3, b2, {}), Snp(vpn, 1, None, AnnTwice)}
    \cup {Snp(lab, 2, boot, {Itm(r1, bob, Empty, 1)}) : boot \in {None, b1, b2}}
    \cup {Snp(old, 1, b1, {})}

SerialSymmetry == Permutations(SessionId)

-----------------------------------------------------------------------------
(* The payloads of the runs that end in a counterexample.                  *)

\* One snapshot, resent while the first copy is being handled.
ResentSnapshot == {Snp(vpn, 2, b1, {Itm(r1, ann, a1, None)})}

\* One event identifier with two contents.
ReusedId == {Evt(e1, "CONNECT", ann, None, 1), Evt(e1, "CONNECT", bob, None, 1)}

\* A user connected twice, whose items give no address.
UnaddressedTwins == {Snp(vpn, 2, b1, {Itm(r1, ann, None, None), Itm(r2, ann, None, None)})}
AnnConnects == {Evt(e1, "CONNECT", ann, None, 1)}

\* A disconnect on one thread, the snapshot that misses the session on another.
ConnectDisconnect == {Evt(e1, "CONNECT", ann, a1, 1), Evt(e2, "DISCONNECT", ann, a1, 2)}
EmptySnapshot == {Snp(vpn, 3, b1, {})}

\* A session reported by both kinds of message, the snapshot before its end.
AnnComesAndGoes == {Evt(e1, "CONNECT", ann, None, 1), Evt(e2, "DISCONNECT", ann, None, 3)}
AnnSeen == {Snp(vpn, 2, None, {Itm(r1, ann, None, 1)})}

\* Snapshots of two sources around a reboot.
BootSnapshots == {Snp(vpn, 1, b1, {}), Snp(vpn, 2, b1, {}), Snp(lab, 3, b2, {}),
                  Snp(lab, 2, b1, {})}

Nobody == {}
=============================================================================
