------------------------------ MODULE MC_Drivers ------------------------------
(* The drivers and services under the demonstrations, checked side by side.  *)
(* They share no state here, and only the one named by part moves, so that   *)
(* the states are the sum and not the product of theirs; what an idle one    *)
(* could begin with is fixed.                                                *)
EXTENDS AltAlarm, TimeOfDay, BusySleep, DataCache, MC_FileTable, I2cBus, EpcsFlash

VARIABLE part  \* the component this behaviour is about

(* Two lines of two words over four lines of memory: every region is flushed,*)
(* every one that begins with a line is discarded.                           *)
MCRegions == {r \in [start : Words, len : 1..(MemLines * LineWords)] :
                r.start + r.len - 1 \in Words}
MCDiscarded == {r \in MCRegions : r.start % LineWords = 0}
MCCacheBlocks == {[start |-> 2, len |-> 2]}
ASSUME BlocksAssumption == BlocksAssumed
ASSUME IntervalsAssumption == IntervalsAssumed

(* Four cells, each with its address; two sectors of two pages of two bytes  *)
(* of one bit, erased or mixed.                                              *)
MCI2cMem0 == {[a \in I2cByte |-> a]}
MCFlashMem0 == {[a \in Addr |-> Ones], [a \in Addr |-> IF a % 3 = 0 THEN Ones ELSE {}]}
MCKinds == {[long |-> FALSE, byId |-> FALSE], [long |-> TRUE, byId |-> TRUE]}

Parts == {"alarm", "time", "sleep", "cache", "file", "i2c", "flash"}

allVars == <<part, alarmVars, timeVars, sleepVars, cacheVars, fileVars, i2cVars, flashVars>>

Init ==
    /\ AlarmInit /\ TimeInit /\ SleepInit /\ CacheInit /\ FileInit /\ I2cInit /\ FlashInit
    /\ part \in Parts
    /\ part # "sleep" => sleepAsked = 0
    /\ part # "cache" => flushda
    /\ part # "flash" => /\ chip.mem = [a \in Addr |-> Ones]
                         /\ ~chip.long /\ ~chip.byId

(* A step of one component leaves the others alone.                          *)
Next ==
    \/ /\ part = "alarm" /\ AlarmNext
       /\ UNCHANGED <<part, timeVars, sleepVars, cacheVars, fileVars, i2cVars, flashVars>>
    \/ /\ part = "time" /\ TimeNext
       /\ UNCHANGED <<part, alarmVars, sleepVars, cacheVars, fileVars, i2cVars, flashVars>>
    \/ /\ part = "sleep" /\ SleepNext
       /\ UNCHANGED <<part, alarmVars, timeVars, cacheVars, fileVars, i2cVars, flashVars>>
    \/ /\ part = "cache" /\ CacheNext
       /\ UNCHANGED <<part, alarmVars, timeVars, sleepVars, fileVars, i2cVars, flashVars>>
    \/ /\ part = "file" /\ FileNext
       /\ UNCHANGED <<part, alarmVars, timeVars, sleepVars, cacheVars, i2cVars, flashVars>>
    \/ /\ part = "i2c" /\ I2cNext
       /\ UNCHANGED <<part, alarmVars, timeVars, sleepVars, cacheVars, fileVars, flashVars>>
    \/ /\ part = "flash" /\ FlashNext
       /\ UNCHANGED <<part, alarmVars, timeVars, sleepVars, cacheVars, fileVars, i2cVars>>

Spec == Init /\ [][Next]_allVars

-----------------------------------------------------------------------------
(* The variables of every component keep to their types.                     *)
DriversTypeOK == /\ AlarmTypeOK /\ TimeTypeOK /\ CacheTypeOK
                 /\ FdTypeOK /\ I2cTypeOK /\ FlashTypeOK
=============================================================================
