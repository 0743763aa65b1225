---------------------------- MODULE DeviceSwitch ----------------------------
(***************************************************************************)
(* What Start and Stop of a device promise its user, whichever kind of     *)
(* device it is (Device::switchOn and switchOff, as DeviceWidget uses      *)
(* them): no master is served by a device that is off or still being       *)
(* started, a start may be refused, and when a stop has returned nothing   *)
(* that was being served is still underway.  A device that is being        *)
(* stopped may go on to serve until then.                                  *)
(***************************************************************************)
CONSTANT Devices

VARIABLES
    switch,    \* of each device: "off", "starting", "on" or "stopping"
    serving    \* the devices in the middle of serving a master

svars == <<switch, serving>>

SInit == switch = [d \in Devices |-> "off"] /\ serving = {}

Turn(d, from, to) ==
    /\ switch[d] \in from
    /\ switch' = [switch EXCEPT ![d] = to]
    /\ UNCHANGED serving

Start(d)   == Turn(d, {"off"}, "starting")
Started(d) == Turn(d, {"off", "starting"}, "on")
Refused(d) == Turn(d, {"starting"}, "off")
Stop(d)    == Turn(d, {"on"}, "stopping")
Stopped(d) == d \notin serving /\ Turn(d, {"on", "stopping"}, "off")

Serve(d) ==
    /\ switch[d] \in {"on", "stopping"} /\ d \notin serving
    /\ serving' = serving \cup {d}
    /\ UNCHANGED switch

Served(d) ==
    /\ d \in serving
    /\ serving' = serving \ {d}
    /\ UNCHANGED switch

SNext ==
    \E d \in Devices :
        \/ Start(d) \/ Started(d) \/ Refused(d) \/ Stop(d) \/ Stopped(d)
        \/ Serve(d) \/ Served(d)

SSpec == SInit /\ [][SNext]_svars

=============================================================================
