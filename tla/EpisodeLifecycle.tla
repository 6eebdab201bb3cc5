-------------------------- MODULE EpisodeLifecycle --------------------------
(***************************************************************************)
(* What the violations table promises its readers: an episode opens, keeps  *)
(* the best it has seen while it is open, and is never touched again once   *)
(* it has closed (src/db/schema.ts, src/coherence/violations-store.ts).     *)
(***************************************************************************)
EXTENDS Naturals

CONSTANTS Key, Id, MaxProfit

VARIABLES
  open,  \* the open episode of each constraint, or none
  done   \* the episodes that have closed

NoEpisode == [id |-> 0, ever |-> FALSE, peak |-> 0]
Episode == [id : Id, ever : BOOLEAN, peak : 0..MaxProfit]

Init == open = [k \in Key |-> NoEpisode] /\ done = {}

Open(k) ==
  /\ open[k] = NoEpisode
  /\ \E e \in Episode :
       /\ \A d \in done : d.id # e.id
       /\ \A j \in Key : open[j].id # e.id
       /\ open' = [open EXCEPT ![k] = e]
  /\ UNCHANGED done

\* Confirmed once is confirmed for good, and a peak only rises.
Observe(k) ==
  /\ open[k] # NoEpisode
  /\ \E e \in Episode :
       /\ e.id = open[k].id /\ e.peak >= open[k].peak
       /\ open[k].ever => e.ever
       /\ open' = [open EXCEPT ![k] = e]
  /\ UNCHANGED done

Close(k) ==
  /\ open[k] # NoEpisode
  /\ open' = [open EXCEPT ![k] = NoEpisode]
  /\ done' = done \cup {open[k]}

Next == \E k \in Key : Open(k) \/ Observe(k) \/ Close(k)

Spec == Init /\ [][Next]_<<open, done>>

=============================================================================
