------------------------------ MODULE KcpWidth ------------------------------
(***************************************************************************)
(* The width of the segment numbers of Kcp.  ikcp.c keeps a number in 32   *)
(* bits and compares two of them by the sign of their 32-bit difference    *)
(* (_itimediff), where module Kcp has unbounded numbers.  The two agree as *)
(* long as what is compared is closer than Half = 2^31: this module states *)
(* that the windows keep it so.                                            *)
(***************************************************************************)
EXTENDS Kcp

CONSTANT Half  \* 2^31 in ikcp.c: half of the numbers there are

ASSUME WidthAssumption == Half \in Nat /\ SndWnd + RcvWnd <= Half

\* What a 32-bit field keeps of a number.
Number(n) == n % (2 * Half)

\* _itimediff of two numbers as they are kept.
Diff(later, earlier) ==
    LET d == Number(later - earlier)
    IN  IF d < Half THEN d ELSE d - 2 * Half

\* The kept numbers tell how far x is from y.
Agree(x, y) == Diff(Number(x), Number(y)) = x - y

\* Not overtaken by half of the numbers while the datagram was under way.
Recent(m) ==
    LET e == m.to
    IN  /\ sndNxt[e] - Half <= m.una
        /\ m.cmd = "ack"  => sndNxt[e] - Half <= m.sn
        /\ m.cmd = "push" => rcvNxt[e] + RcvWnd - Half <= m.sn

\* What ikcp_input compares the numbers of a datagram with: snd_una before and
\* after ikcp_parse_una, the segments of snd_buf and snd_nxt; and rcv_nxt, the
\* segments of rcv_buf and rcv_nxt + rcv_wnd.
InputDecides(m) ==
    LET e == m.to
    IN  /\ \A n \in sndUna[e]..sndNxt[e] :
               Agree(m.una, n) /\ (m.cmd = "ack" => Agree(m.sn, n))
        /\ m.cmd = "push" =>
               \A n \in rcvNxt[e]..(rcvNxt[e] + RcvWnd) : Agree(m.sn, n)

\* What ikcp_flush compares snd_nxt with: snd_una + cwnd.
FlushDecides(e) ==
    \A n \in sndUna[e]..(sndUna[e] + SndWnd) : Agree(sndNxt[e], n)

\* However far the numbers have gone, and with every wrap behind them, each
\* comparison of ikcp_flush, and each one of ikcp_input on a datagram that was
\* not overtaken by half of the numbers, decides as it would on unbounded ones.
WidthSuffices ==
    /\ \A e \in Ends : FlushDecides(e)
    /\ \A m \in net : Recent(m) => InputDecides(m)

=============================================================================
