---------------------------- MODULE MCDcfManager ----------------------------
(***************************************************************************)
(* The channel access of one radio with two states: the first a DCF queue, *)
(* as for beacons, the second an EDCA queue with a longer AIFS.            *)
(***************************************************************************)
EXTENDS DcfManager

MCAifsn == [s \in 1 .. 2 |-> s]

\* What the future of a state depends on, relative to now.  An end that has
\* passed counts only through GetAccessGrantStart, and the start of a backoff
\* only through GetBackoffStartFor; a backoff that started longer ago than the
\* largest one lasts is over.
Left(t) == IF t >= now THEN t - now ELSE -1
DueIn(t) == IF t = Off THEN Off ELSE t - now
LongAgo == -((CwMax + 2) * Slot)

MCView ==
  << [s \in States |-> << dcf[s].slots, dcf[s].cw, dcf[s].requested, dcf[s].token,
                          MostRecent(LongAgo, GetBackoffStartFor(s, dcf, med) - now) >>],
     MostRecent(LongAgo - Sifs - 2 * Slot, GetAccessGrantStart(med) - now), med.rxing,
     IF med.rxing THEN << now - med.rxStart, med.rxDur >> ELSE <<>>,
     Left(med.txEnd), Left(med.busyEnd), Left(med.navEnd), Left(med.ackEnd),
     Left(med.ctsEnd), Left(med.switchEnd),
     DueIn(timer), DueIn(exch.due), exch.owner, exch.awaits, DueIn(reply),
     sleeping, waking, bounds >>
=============================================================================
