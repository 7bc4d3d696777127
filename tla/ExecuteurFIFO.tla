---------------------------- MODULE ExecuteurFIFO ----------------------------
(***************************************************************************)
(* What a pool of worker threads promises to those who give it tasks: each *)
(* task is taken once, in the order of the submissions, by one thread, and *)
(* is over afterwards; stopping the pool drops every task nobody has taken *)
(* yet, and only those.                                                    *)
(***************************************************************************)
EXTENDS Naturals, Sequences, FiniteSets

CONSTANTS Taches, NbThread

VARIABLES attente, encours, terminees

absVars == <<attente, encours, terminees>>

EnAttente == {attente[i] : i \in DOMAIN attente}

Init ==
    /\ attente = <<>>
    /\ encours = {}
    /\ terminees = {}

Soumettre(t) ==
    /\ t \notin EnAttente \cup encours \cup terminees
    /\ attente' = Append(attente, t)
    /\ UNCHANGED <<encours, terminees>>

Demarrer ==
    /\ attente # <<>>
    /\ Cardinality(encours) < NbThread
    /\ encours' = encours \cup {Head(attente)}
    /\ attente' = Tail(attente)
    /\ UNCHANGED terminees

Terminer(t) ==
    /\ t \in encours
    /\ encours' = encours \ {t}
    /\ terminees' = terminees \cup {t}
    /\ UNCHANGED attente

Abandonner ==
    /\ attente # <<>>
    /\ attente' = <<>>
    /\ terminees' = terminees \cup EnAttente
    /\ UNCHANGED encours

Next ==
    \/ \E t \in Taches : Soumettre(t) \/ Terminer(t)
    \/ Demarrer
    \/ Abandonner

Spec == Init /\ [][Next]_absVars
=============================================================================
