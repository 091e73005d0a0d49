--------------------------- MODULE MCHomelabWatch ---------------------------
(* Instances of HomelabWatch for TLC. *)
EXTENDS HomelabWatch, TLC

CONSTANTS foundry, edge, pihole, cert

\* The proportions of the code: a report goes stale after two or three pushes, a
\* probe is always refreshed in time.
MCLimit == [s \in Sources |-> IF s \in Pushers THEN 2 ELSE 1]

MCBlind == [q \in Probes |-> IF q = pihole THEN "bad" ELSE "warn"]

MCBestEffort == Probes \cap {pihole}

=============================================================================
