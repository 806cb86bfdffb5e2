----------------------------- MODULE Balance211 -----------------------------
(***************************************************************************)
(* The division of n consecutive items among a team of threads             *)
(* (common/zendnn_thread.hpp) and the walk over a two-dimensional range of *)
(* items (common/utils.hpp).  Every kernel divides its work with these.    *)
(***************************************************************************)
EXTENDS Integers

div_up(a, b) == (a + b - 1) \div b

\* n = T1 * n1 + (team - T1) * (n1 - 1): the first T1 threads get n1 items.
BigPiece(n, team) == div_up(n, team)
BigPieces(n, team) == n - (BigPiece(n, team) - 1) * team

NotDivided(n, team) == team <= 1 \/ n = 0

balance211_start(n, team, tid) ==
    LET n1 == BigPiece(n, team)
        T1 == BigPieces(n, team)
    IN  CASE NotDivided(n, team) -> 0
          [] ~NotDivided(n, team) /\ tid <= T1 -> tid * n1
          [] OTHER -> T1 * n1 + (tid - T1) * (n1 - 1)

\* MUTANT of balance211_size: one thread too many gets a big piece.
balance211_size_one_more(n, team, tid) ==
    CASE NotDivided(n, team) -> n
      [] ~NotDivided(n, team) /\ tid <= BigPieces(n, team) -> BigPiece(n, team)
      [] OTHER -> BigPiece(n, team) - 1

\* MUTANT of balance211_size: the remainder of the division is forgotten.
balance211_size_rounded_down(n, team, tid) ==
    IF NotDivided(n, team) THEN n ELSE n \div team

balance211_size(n, team, tid) ==
    CASE NotDivided(n, team) -> n
      [] ~NotDivided(n, team) /\ tid < BigPieces(n, team) -> BigPiece(n, team)
      [] OTHER -> BigPiece(n, team) - 1

balance211_end(n, team, tid) ==
    balance211_start(n, team, tid) + balance211_size(n, team, tid)

\* The items of thread tid.
Piece(n, team, tid) ==
    balance211_start(n, team, tid)..(balance211_end(n, team, tid) - 1)

-----------------------------------------------------------------------------

\* The indices <<d0, d1>> of item `start' of a D0 by D1 range.
nd_iterator_init(start, D0, D1) == <<(start \div D1) % D0, start % D1>>

nd_iterator_step(d, D0, D1) ==
    IF d[2] + 1 < D1 THEN <<d[1], d[2] + 1>>
    ELSE <<IF d[1] + 1 = D0 THEN 0 ELSE d[1] + 1, 0>>
=============================================================================
