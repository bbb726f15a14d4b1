------------------------------ MODULE MCMainMenu ------------------------------
EXTENDS MainMenu

Item(n, on) == [name |-> n, on |-> on]

\* Two networks in range, two saved ones out of range, a VPN and a wired profile.
Base ==
    [running |-> TRUE, net |-> TRUE, wifi |-> TRUE, wired |-> TRUE,
     netToggling |-> FALSE, wifiToggling |-> FALSE, wiredToggling |-> FALSE,
     hasWired |-> FALSE, plugged |-> FALSE, activeWired |-> NoName,
     wiredActivating |-> FALSE, wiredSaved |-> <<>>,
     hasWifi |-> TRUE, canCreate |-> TRUE, active |-> NoName,
     available |-> <<Item("A", FALSE), Item("B", FALSE)>>,
     more |-> <<"C", "D">>, vpn |-> <<Item("V", FALSE)>>]

Swapped == [Base EXCEPT !.available = <<Item("B", FALSE), Item("A", FALSE)>>]
Connecting == [Base EXCEPT !.available = <<Item("A", TRUE), Item("B", FALSE)>>]
Connected == [Base EXCEPT !.active = "A", !.available = <<Item("B", FALSE)>>]
\* A second adapter connects while the first is connected.
Second == [Base EXCEPT !.active = "A", !.available = <<Item("B", TRUE), Item("E", FALSE)>>]
InRange == [Base EXCEPT !.available = <<Item("A", FALSE), Item("B", FALSE), Item("C", FALSE)>>,
                        !.more = <<"D">>]
VpnGone == [Base EXCEPT !.vpn = <<>>]
RadioOff == [Base EXCEPT !.wifi = FALSE, !.available = <<>>, !.more = <<"C", "D">>]
Docked == [Base EXCEPT !.hasWired = TRUE, !.plugged = TRUE, !.activeWired = "W",
                       !.wiredSaved = <<Item("W", TRUE), Item("X", FALSE)>>]
Stopped == [Base EXCEPT !.running = FALSE, !.net = FALSE, !.wifi = FALSE, !.hasWifi = FALSE,
                        !.available = <<>>, !.more = <<>>, !.vpn = <<>>]

MCSnapshots ==
    {Base, Swapped, Connecting, Connected, Second, InRange, RadioOff, VpnGone, Docked, Stopped}
===============================================================================
