---------------------------- MODULE MCTelemetry ----------------------------
(* An instance of Telemetry for TLC: the values on both sides of each threshold. *)
EXTENDS Telemetry

CONSTANT none

MCReadings ==
    [kind : {"load"}, load : {149, 150, 299, 300}, cores : {0, 1, 2}]
    \cup [kind : {"memory"}, used : {40, 41, 45, 46, 81, 82, 91, 92}, total : {0, 50, 100}]
    \cup [kind : {"swap"}, used : {24, 25, 49, 50, 79, 80}, total : {0, 50, 100}]
    \cup [kind : {"temp"}, temp : {0, 67, 68, 79, 80}]
    \cup [kind : {"disk"}, pct : {79, 80, 89, 90}]
    \cup [kind : {"units"}, failed : {0, 1}, reboot : BOOLEAN]
    \cup [kind : {"service"}, state : States]
    \cup [kind : {"backup"}, age : {0, 5, 6, 11, 12, 24}, count : {-1, 0, 2}, max : {0, 6, 12}]
    \cup [kind : {"net"}, carrier : BOOLEAN, errs : {0, 1}, flaps : {0, 1}, speed : {0, 100, 999, 1000}]
    \cup [kind : {"drive"}, present : BOOLEAN, health : Healths, realloc : {0, 1},
          pending : {0, 1}, uncorr : {0, 1}, temp : {0, 54, 55, 60}]
    \cup [kind : {"port"}, tx : {0, 1}, rx : {0, 1}]
    \cup [kind : {"dns"}, ok : BOOLEAN]
    \cup [kind : {"route"}, ok : {-1, 0, 1, 2}, err : {-1, 0, 1, 2}]
    \cup [kind : {"errors"}, fives : {0, 1, 4, 5}, reqs : {0, 50, 100}]
    \cup [kind : {"cert"}, days : {4, 5, 6, 14, 15}]
=============================================================================
