---------------------------- MODULE MCIncrementale ----------------------------
(* A small calendar: 2 dates an hour, 4 a day, 6 a week, 8 a month; days   *)
(* and weeks do not begin at date 0.                                       *)
EXTENDS SauvegardeIncrementale

MCDuree == [heure |-> 2, jour |-> 4, semaine |-> 6, mois |-> 8]

MCPeriode ==
    [heure |-> [d \in Dates |-> d \div 2],
     jour |-> [d \in Dates |-> (d + 2) \div 4],
     semaine |-> [d \in Dates |-> (d + 3) \div 6],
     mois |-> [d \in Dates |-> d \div 8]]

MCNumero ==
    [heure |-> [d \in Dates |-> (d \div 2) % 2],
     jour |-> [d \in Dates |-> ((d + 2) \div 4) % 3],
     semaine |-> [d \in Dates |-> ((d + 3) \div 6) % 3],
     mois |-> [d \in Dates |-> (d \div 8) % 2]]

MCRang == [d \in Dates |-> d]
=============================================================================
