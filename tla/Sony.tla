-------------------------------- MODULE Sony --------------------------------
(***************************************************************************)
(* The replacement for the ROM's floppy driver (core/sony.c).  The stub in *)
(* the patched ROM calls the host through the extension port: open, prime  *)
(* (read and write), control and status; the run loop injects a            *)
(* disk-inserted exception whose callback calls back to mount the drive.   *)
(* The driver variables are in guest memory.  A disk is a function from    *)
(* its units to their contents, with SectorUnits units to a sector.        *)
(***************************************************************************)
EXTENDS Integers, Sequences

CONSTANTS
    Size,           \* drive -> units of the disk inserted in it, 0 for none
    SectorUnits,    \* 512
    MaxStart,       \* largest position and length of a request
    MaxCount

Drives == DOMAIN Size

ASSUME SonyAssumption ==
    /\ Drives \subseteq Nat /\ \A d \in Drives : Size[d] \in Nat
    /\ SectorUnits \in Nat \ {0} /\ MaxStart \in Nat /\ MaxCount \in Nat

Inserted == {d \in Drives : Size[d] > 0}
Units(d) == 0 .. (Size[d] - 1)

VARIABLES
    wprot,      \* drives whose disk is write-protected
    mounted,    \* drives mounted, or scheduled to be
    open,       \* how far the driver is opened
    inPlace,    \* drive -> kDiskInPlace: 0, 1 (inserted) or 2 (accessed)
    dvWprot,    \* drive -> kWriteProt, as a Boolean
    calls,      \* mount callbacks injected and not yet carried out, the last on top
    disk,       \* drive -> contents
    last        \* the last prime, for the properties

sonyVars == <<wprot, mounted, open, inPlace, dvWprot, calls, disk, last>>

NoPrime == [result |-> "none", drive |-> 0, start |-> 0, count |-> 0, act |-> 0]

SonyInit ==
    /\ wprot \in SUBSET Inserted
    /\ mounted = {} /\ open = "closed" /\ calls = <<>>
    /\ inPlace = [d \in Drives |-> 0] /\ dvWprot = [d \in Drives |-> FALSE]
    /\ disk = [d \in Drives |-> [u \in Units(d) |-> 0]]
    /\ last = NoPrime

-----------------------------------------------------------------------------
\* Opening: sony_open_a refuses once the callback is known.

OpenA == open = "closed" /\ open' = "a"
         /\ UNCHANGED <<wprot, mounted, inPlace, dvWprot, calls, disk, last>>

OpenB ==
    /\ open = "a" /\ open' = "b"
    /\ inPlace' = [d \in Drives |-> 0]
    /\ UNCHANGED <<wprot, mounted, dvWprot, calls, disk, last>>

OpenC == open = "b" /\ open' = "c"
         /\ UNCHANGED <<wprot, mounted, inPlace, dvWprot, calls, disk, last>>

-----------------------------------------------------------------------------
\* Mounting.

\* Mutant of Unmounted: only drive 0 is looked at.
Unmounted_DriveZero == {0} \cap (Inserted \ mounted)

Unmounted == Inserted \ mounted

\* Mutant of SonyService: the drive is not marked mounted.
SonyService_NotScheduled ==
    /\ open = "c" /\ Unmounted # {} /\ Len(calls) < 2
    /\ \E d \in Unmounted :
           /\ \A e \in Unmounted : d <= e
           /\ calls' = Append(calls, [drive |-> d, wp |-> d \in wprot])
    /\ UNCHANGED <<wprot, mounted, open, inPlace, dvWprot, disk, last>>

\* sony_service: the first drive that is inserted and not mounted.
SonyService ==
    /\ open = "c" /\ Unmounted # {}
    /\ \E d \in Unmounted :
           /\ \A e \in Unmounted : d <= e
           /\ mounted' = mounted \cup {d}
           /\ calls' = Append(calls, [drive |-> d, wp |-> d \in wprot])
    /\ UNCHANGED <<wprot, open, inPlace, dvWprot, disk, last>>

\* The callback on top of the stack calls sony_mount, and returns.
SonyMount ==
    /\ calls # <<>>
    /\ LET c == calls[Len(calls)] IN
       IF inPlace[c.drive] # 0 THEN UNCHANGED <<inPlace, dvWprot, mounted>>
       ELSE /\ inPlace' = [inPlace EXCEPT ![c.drive] = 1]
            /\ dvWprot' = [dvWprot EXCEPT ![c.drive] = c.wp]
            /\ mounted' = mounted \cup {c.drive}
    /\ calls' = SubSeq(calls, 1, Len(calls) - 1)
    /\ UNCHANGED <<wprot, open, disk, last>>

\* sony_control, eject: the disk stays inserted.
Eject(d) ==
    /\ open = "c" /\ inPlace[d] # 0
    /\ inPlace' = [inPlace EXCEPT ![d] = 0]
    /\ dvWprot' = [dvWprot EXCEPT ![d] = FALSE]
    /\ mounted' = mounted \ {d}
    /\ UNCHANGED <<wprot, open, calls, disk, last>>

-----------------------------------------------------------------------------
\* sony_prime and drive_transfer.

Aligned(n) == n % SectorUnits = 0

\* The units that fit, and whether that is all of them.
Fitting(d, start, count) == LET rest == Size[d] - start IN IF rest >= count THEN count ELSE rest

PastEnd(d, start) == start > Size[d]

\* Mutant of TransferResult: a short transfer reports no error.
TransferResult_ShortIsGood(isWrite, d, start, count) ==
    IF isWrite /\ d \in wprot THEN "wPrErr" ELSE IF PastEnd(d, start) THEN "eofErr" ELSE "noErr"

TransferResult(isWrite, d, start, count) ==
    IF d \notin Inserted THEN "nsDrvErr"
    ELSE IF isWrite /\ d \in wprot THEN "wPrErr"
    ELSE IF PastEnd(d, start) \/ Fitting(d, start, count) < count THEN "eofErr" ELSE "noErr"

PrimeResult(isWrite, d, start, count) ==
    IF inPlace[d] = 0 THEN "offLinErr"
    ELSE IF ~Aligned(start) \/ ~Aligned(count) THEN "paramErr"
    ELSE IF isWrite /\ dvWprot[d] THEN "wPrErr"
    ELSE TransferResult(isWrite, d, start, count)

Prime(d) ==
    \E isWrite \in BOOLEAN, start \in 0 .. MaxStart, count \in 0 .. MaxCount, v \in 0 .. 1 :
        LET result == PrimeResult(isWrite, d, start, count)
            act == IF result = "noErr" \/ (result = "eofErr" /\ ~PastEnd(d, start))
                   THEN Fitting(d, start, count) ELSE 0
        IN  /\ open = "c"
            /\ inPlace' = [inPlace EXCEPT ![d] = IF @ = 1 THEN 2 ELSE @]
            /\ disk' = IF ~isWrite THEN disk
                        ELSE [disk EXCEPT ![d] =
                                 [u \in DOMAIN @ \cup start .. (start + act - 1) |->
                                     IF u \in start .. (start + act - 1) THEN v ELSE @[u]]]
            /\ last' = [result |-> result, drive |-> d, start |-> start, count |-> count, act |-> act]
            /\ UNCHANGED <<wprot, mounted, open, dvWprot, calls>>

SonyNext ==
    \/ OpenA \/ OpenB \/ OpenC \/ SonyService \/ SonyMount
    \/ \E d \in Drives : Eject(d) \/ Prime(d)

SonySpec == SonyInit /\ [][SonyNext]_sonyVars

\* The stub opens the driver in three calls, the run loop calls sony_service in every
\* iteration, and the injected callbacks run.
SonyFairness == WF_sonyVars(OpenA \/ OpenB \/ OpenC) /\ WF_sonyVars(SonyService) /\ WF_sonyVars(SonyMount)

SonyFairSpec == SonySpec /\ SonyFairness

-----------------------------------------------------------------------------
SonyTypeOK ==
    /\ wprot \subseteq Drives /\ mounted \subseteq Drives
    /\ open \in {"closed", "a", "b", "c"}
    /\ inPlace \in [Drives -> 0 .. 2] /\ dvWprot \in [Drives -> BOOLEAN]
    /\ \A i \in 1 .. Len(calls) : calls[i].drive \in Drives /\ calls[i].wp \in BOOLEAN
    /\ \A d \in Drives : disk[d] \in [Units(d) -> 0 .. 1]
    /\ last.act \in 0 .. MaxCount

\* A callback that was injected finds its drive as sony_service left it, whatever the
\* guest does in between: empty, scheduled once, and with the protection it carries;
\* so no mount is refused and no disk is announced twice.
MountsSucceed ==
    /\ \A i, j \in 1 .. Len(calls) : calls[i].drive = calls[j].drive => i = j
    /\ \A i \in 1 .. Len(calls) :
           LET c == calls[i] IN
           inPlace[c.drive] = 0 /\ c.drive \in mounted /\ c.wp = (c.drive \in wprot)

\* A drive that is on line has a disk, and the guest's copy of its protection is right;
\* one that is mounted and not on line has its callback under way.
OnLineMatches ==
    \A d \in Drives :
        /\ inPlace[d] # 0 => d \in Inserted \cap mounted /\ dvWprot[d] = (d \in wprot)
        /\ d \in mounted /\ inPlace[d] = 0 => \E i \in 1 .. Len(calls) : calls[i].drive = d

\* Driver, disks and the guest's drive variables agree about what is mounted
\* (sony_service, sony_mount and the eject of sony_control).
MountsSound == SonyTypeOK /\ MountsSucceed /\ OnLineMatches

\* A write changes only units of its request that exist, of a drive that is on line and
\* not protected.
WritesStayInside ==
    \A d \in Drives : disk'[d] # disk[d] =>
        /\ d \notin wprot /\ inPlace[d] # 0 /\ DOMAIN disk'[d] = Units(d)
        /\ last'.drive = d
        /\ \A u \in Units(d) : disk'[d][u] # disk[d][u] =>
               u \in last'.start .. (last'.start + last'.count - 1)

\* A request that reports no error moved all of its units, and one that meets the end
\* of the disk moved all that were left.
ActCountExact ==
    /\ last.result = "noErr" => last.act = last.count
    /\ last.result = "eofErr" /\ last.start <= Size[last.drive] =>
           last.start + last.act = Size[last.drive]
    /\ last.act > 0 => last.start + last.act <= Size[last.drive]

\* Transfers report exactly what they moved and stay inside the disk, at its end and
\* past it too (drive_transfer and sony_prime).
TransfersExact == [][WritesStayInside /\ ActCountExact']_sonyVars

\* Unless the guest keeps ejecting, every inserted disk comes on line and stays there:
\* a disk that was ejected comes back.
DisksComeOnLine ==
    \/ \A d \in Inserted : <>[](inPlace[d] # 0)
    \/ []<><<\E d \in Drives : Eject(d)>>_sonyVars
=============================================================================
