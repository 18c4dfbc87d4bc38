------------------------------- MODULE MCBus --------------------------------
EXTENDS Bus

Machine(size, rom, build) == [size |-> size, rom |-> rom, build |-> build]

\* The Mac Plus on the host with 1 to 4 MB, the demo there, and the demo on
\* the ESP32 with 128 KB.
MCMachines == {Machine(n * Megabyte, TRUE, "host") : n \in 1 .. 4}
                \cup {Machine(Megabyte, FALSE, "host"), Machine(4, FALSE, "esp32")}

MCMac == Machine(Megabyte, TRUE, "host")

\* The machine the GUI starts: 4 MB.
MCGuiMac == Machine(4 * Megabyte, TRUE, "host")
MCGui == {MCGuiMac}

\* Bytes of three bits; one register of the clock, which the address of a cell
\* of the parameter RAM hides.
MCValues == {<<FALSE, FALSE, FALSE>>, <<FALSE, TRUE, FALSE>>, <<TRUE, FALSE, TRUE>>}
MCClockBytes == [reg \in {[k \in 2 .. 3 |-> k = 3]} |-> <<TRUE, FALSE, FALSE>>]
=============================================================================
