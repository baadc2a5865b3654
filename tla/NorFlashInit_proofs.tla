------------------------ MODULE NorFlashInit_proofs ------------------------
(***************************************************************************)
(* Proofs about NorFlashInit.  What the properties rest on is where each   *)
(* failure leaves the entry point: Progress says what has been done at     *)
(* each of its steps, Change what the address change has done so far; and  *)
(* what a header is worth is proved in FvHeader_proofs.                     *)
(***************************************************************************)
EXTENDS NorFlashInit, FvHeader_proofs, FiniteSetTheorems

Early == {"platform", "array", "notify", "instance", "volume", "announce"}
Accepted == /\ VolumePresent(header) /\ StorePresent(header)
            /\ bootMode # "BOOT_WITH_DEFAULT_SETTINGS"
Lost == failed \cap {"array", "pool", "protocols"} # {}
Physical(set) == \A p \in set : pointers[p] = "physical"
Virtual(set) == \A p \in set : pointers[p] = "virtual"
Noted == InstancePointers \ {"BlockIoProtocol.Media"}

\* What is behind the entry point at each of its steps.
Progress ==
    /\ pc \in Early => installed = {} /\ registered \subseteq {"MemoryInit"}
    /\ pc \in {"platform", "array", "notify"} => registered = {}
    /\ pc \in Early \ {"platform", "array", "notify", "instance"} => slot # "NULL"
    /\ pc \in {"announce", "event", "install with volume"} => Accepted
    /\ pc = "install with volume" => "FvbVirtual" \in registered
    /\ pc = "install without volume" /\ "NvVarStoreFormatted" \in installed
      => "event" \in failed
    /\ pc \in {"register", "loaded"} => slot = "instance" \/ Lost
    /\ slot = "NULL" => "array" \in failed
    /\ pc = "unloaded" => registered = {} \/ "register" \in failed
    /\ "NorFlashVirtual" \in registered => pc \in {"loaded", "stopped"}
    /\ pc = "loaded" => "NorFlashVirtual" \in registered
    /\ pc \notin {"platform", "array", "notify", "unloaded"} =>
          region = "runtime" \/ failed \cap {"notify", "attributes"} # {}

\* What is installed, and what that rests on.
Served ==
    /\ "NvVarStoreFormatted" \in installed => Accepted
    /\ "NvVarStoreFormatted" \in installed /\ pc \in {"register", "loaded"} =>
          "Fvb" \in installed \/ failed \cap {"event", "protocols"} # {}
    /\ "Fvb" \in installed => /\ Accepted /\ slot = "instance" /\ "FvbVirtual" \in registered
                              /\ pc \in {"register", "loaded", "unloaded", "stopped"}

\* What the address change has done.
Change ==
    /\ phase = "boot" => pending = {} /\ Physical(Pointers)
    /\ phase = "os" => Returned
    /\ pending \subseteq registered
    /\ "FvbVirtual" \in pending => Physical({"mFlashNvStorageVariableBase"})
    /\ "NorFlashVirtual" \in pending => Physical(InstancePointers)
    /\ phase = "os" /\ pc = "loaded" /\ "FvbVirtual" \in registered \ pending =>
          Virtual({"mFlashNvStorageVariableBase"})
    /\ phase = "os" /\ pc = "loaded" /\ slot = "instance" /\ "NorFlashVirtual" \notin pending =>
          Virtual(Noted)

Inv == /\ TypeOK /\ Progress /\ Served /\ Change
       /\ ConvertedOnce /\ StraysOnlyAfterFailure

-----------------------------------------------------------------------------
(* NorFlashInitialise starts from a state in which nothing is done.        *)
LEMMA InitInv == Init => Inv
  BY DEF Init, Inv, TypeOK, Steps, Calls, Progress, Early, Served, Change, Physical, Pointers,
         InstancePointers, FvbPointers, ConvertedOnce, StraysOnlyAfterFailure

(* Every step of the entry point and every later notification keeps the    *)
(* invariant.                                                              *)
LEMMA NextInv == Inv /\ [Next]_vars => Inv'
<1> SUFFICES ASSUME Inv, [Next]_vars PROVE Inv'
  OBVIOUS
<1> USE DEF environment, entry, later
<1>1. CASE PlatformInitialization
  <2>0. TypeOK /\ Progress /\ Served /\ Change /\ ConvertedOnce /\ StraysOnlyAfterFailure
    BY DEF Inv
  <2>1. TypeOK'
    BY <1>1, <2>0 DEF PlatformInitialization, Succeeds, Fails, Asserted, TypeOK, Steps, Calls
  <2>2. Progress'
    BY <1>1, <2>0 DEF PlatformInitialization, Succeeds, Fails, Asserted, TypeOK, Progress,
       Early, Accepted, Lost
  <2>3. Served'
    BY <1>1, <2>0 DEF PlatformInitialization, Succeeds, Fails, Asserted, TypeOK, Progress,
       Served, Early, Accepted
  <2>4. Change'
    BY <1>1, <2>0 DEF PlatformInitialization, Succeeds, Fails, Asserted, TypeOK, Progress,
       Change, Physical, Virtual, Noted, Returned
  <2>5. ConvertedOnce'
    BY <1>1, <2>0 DEF PlatformInitialization, Succeeds, Fails, Asserted, TypeOK, ConvertedOnce
  <2>6. StraysOnlyAfterFailure'
    BY <1>1, <2>0 DEF PlatformInitialization, Succeeds, Fails, Asserted, TypeOK,
       StraysOnlyAfterFailure
  <2> QED BY <2>1, <2>2, <2>3, <2>4, <2>5, <2>6 DEF Inv
<1>2. CASE AllocateInstances
  <2>0. TypeOK /\ Progress /\ Served /\ Change /\ ConvertedOnce /\ StraysOnlyAfterFailure
    BY DEF Inv
  <2>1. TypeOK'
    BY <1>2, <2>0 DEF AllocateInstances, Succeeds, Fails, Asserted, TypeOK, Steps, Calls
  <2>2. Progress'
    BY <1>2, <2>0 DEF AllocateInstances, Succeeds, Fails, Asserted, TypeOK, Progress, Early,
       Accepted, Lost
  <2>3. Served'
    BY <1>2, <2>0 DEF AllocateInstances, Succeeds, Fails, Asserted, TypeOK, Progress, Served,
       Early, Accepted
  <2>4. Change'
    BY <1>2, <2>0 DEF AllocateInstances, Succeeds, Fails, Asserted, TypeOK, Progress, Change,
       Physical, Virtual, Noted, Returned
  <2>5. ConvertedOnce'
    BY <1>2, <2>0 DEF AllocateInstances, Succeeds, Fails, Asserted, TypeOK, ConvertedOnce
  <2>6. StraysOnlyAfterFailure'
    BY <1>2, <2>0 DEF AllocateInstances, Succeeds, Fails, Asserted, TypeOK,
       StraysOnlyAfterFailure
  <2> QED BY <2>1, <2>2, <2>3, <2>4, <2>5, <2>6 DEF Inv
<1>3. CASE CreateNotifyEvent
  <2>0. TypeOK /\ Progress /\ Served /\ Change /\ ConvertedOnce /\ StraysOnlyAfterFailure
    BY DEF Inv
  <2>1. TypeOK'
    BY <1>3, <2>0 DEF CreateNotifyEvent, Succeeds, Fails, Asserted, FlashMemoryInitEventNotify,
       TypeOK, Steps, Calls
  <2>2. Progress'
    BY <1>3, <2>0 DEF CreateNotifyEvent, Succeeds, Fails, Asserted, FlashMemoryInitEventNotify,
       TypeOK, Progress, Early, Accepted, Lost
  <2>3. Served'
    BY <1>3, <2>0 DEF CreateNotifyEvent, Succeeds, Fails, Asserted, FlashMemoryInitEventNotify,
       TypeOK, Progress, Served, Early, Accepted
  <2>4. Change'
    BY <1>3, <2>0 DEF CreateNotifyEvent, Succeeds, Fails, Asserted, FlashMemoryInitEventNotify,
       TypeOK, Progress, Change, Physical, Virtual, Noted, Returned
  <2>5. ConvertedOnce'
    BY <1>3, <2>0 DEF CreateNotifyEvent, Succeeds, Fails, Asserted, FlashMemoryInitEventNotify,
       TypeOK, ConvertedOnce
  <2>6. StraysOnlyAfterFailure'
    BY <1>3, <2>0 DEF CreateNotifyEvent, Succeeds, Fails, Asserted, FlashMemoryInitEventNotify,
       TypeOK, StraysOnlyAfterFailure
  <2> QED BY <2>1, <2>2, <2>3, <2>4, <2>5, <2>6 DEF Inv
<1>4. CASE CreateInstance
  <2>0. TypeOK /\ Progress /\ Served /\ Change /\ ConvertedOnce /\ StraysOnlyAfterFailure
    BY DEF Inv
  <2>1. TypeOK'
    BY <1>4, <2>0 DEF CreateInstance, Succeeds, Fails, Asserted, TypeOK, Steps, Calls
  <2>2. Progress'
    BY <1>4, <2>0 DEF CreateInstance, Succeeds, Fails, Asserted, TypeOK, Progress, Early,
       Accepted, Lost
  <2>3. Served'
    BY <1>4, <2>0 DEF CreateInstance, Succeeds, Fails, Asserted, TypeOK, Progress, Served,
       Early, Accepted
  <2>4. Change'
    BY <1>4, <2>0 DEF CreateInstance, Succeeds, Fails, Asserted, TypeOK, Progress, Change,
       Physical, Virtual, Noted, Returned
  <2>5. ConvertedOnce'
    BY <1>4, <2>0 DEF CreateInstance, Succeeds, Fails, Asserted, TypeOK, ConvertedOnce
  <2>6. StraysOnlyAfterFailure'
    BY <1>4, <2>0 DEF CreateInstance, Succeeds, Fails, Asserted, TypeOK, StraysOnlyAfterFailure
  <2> QED BY <2>1, <2>2, <2>3, <2>4, <2>5, <2>6 DEF Inv
<1>5. CASE ValidateVolume
  <2>0. TypeOK /\ Progress /\ Served /\ Change /\ ConvertedOnce /\ StraysOnlyAfterFailure
    BY DEF Inv
  <2>1. TypeOK'
    BY <1>5, <2>0, ZenonT(60)
    DEF ValidateVolume, Succeeds, Fails, Asserted, ValidateFvHeader, MayAccept, TypeOK, Steps, Calls
  <2>2. Progress'
    BY <1>5, <2>0 DEF ValidateVolume, Succeeds, Fails, Asserted, ValidateFvHeader, MayAccept, TypeOK,
       Progress, Early, Accepted, Lost
  <2>3. Served'
    BY <1>5, <2>0 DEF ValidateVolume, Succeeds, Fails, Asserted, ValidateFvHeader, MayAccept, TypeOK,
       Progress, Served, Early, Accepted
  <2>4. Change'
    BY <1>5, <2>0 DEF ValidateVolume, Succeeds, Fails, Asserted, ValidateFvHeader, MayAccept, TypeOK,
       Progress, Change, Physical, Virtual, Noted, Returned
  <2>5. ConvertedOnce'
    BY <1>5, <2>0 DEF ValidateVolume, Succeeds, Fails, Asserted, ValidateFvHeader, MayAccept, TypeOK,
       ConvertedOnce
  <2>6. StraysOnlyAfterFailure'
    BY <1>5, <2>0 DEF ValidateVolume, Succeeds, Fails, Asserted, ValidateFvHeader, MayAccept, TypeOK,
       StraysOnlyAfterFailure
  <2> QED BY <2>1, <2>2, <2>3, <2>4, <2>5, <2>6 DEF Inv
<1>6. CASE AnnounceStore
  <2>0. TypeOK /\ Progress /\ Served /\ Change /\ ConvertedOnce /\ StraysOnlyAfterFailure
    BY DEF Inv
  <2>1. TypeOK'
    BY <1>6, <2>0 DEF AnnounceStore, Succeeds, Fails, Asserted, TypeOK, Steps, Calls
  <2>2. Progress'
    BY <1>6, <2>0 DEF AnnounceStore, Succeeds, Fails, Asserted, TypeOK, Progress, Early,
       Accepted, Lost
  <2>3. Served'
    BY <1>6, <2>0 DEF AnnounceStore, Succeeds, Fails, Asserted, TypeOK, Progress, Served, Early,
       Accepted
  <2>4. Change'
    BY <1>6, <2>0 DEF AnnounceStore, Succeeds, Fails, Asserted, TypeOK, Progress, Change,
       Physical, Virtual, Noted, Returned
  <2>5. ConvertedOnce'
    BY <1>6, <2>0 DEF AnnounceStore, Succeeds, Fails, Asserted, TypeOK, ConvertedOnce
  <2>6. StraysOnlyAfterFailure'
    BY <1>6, <2>0 DEF AnnounceStore, Succeeds, Fails, Asserted, TypeOK, StraysOnlyAfterFailure
  <2> QED BY <2>1, <2>2, <2>3, <2>4, <2>5, <2>6 DEF Inv
<1>7. CASE CreateFvbVirtualEvent
  <2>0. TypeOK /\ Progress /\ Served /\ Change /\ ConvertedOnce /\ StraysOnlyAfterFailure
    BY DEF Inv
  <2>1. TypeOK'
    BY <1>7, <2>0 DEF CreateFvbVirtualEvent, Succeeds, Fails, Asserted, TypeOK, Steps, Calls
  <2>2. Progress'
    BY <1>7, <2>0 DEF CreateFvbVirtualEvent, Succeeds, Fails, Asserted, TypeOK, Progress, Early,
       Accepted, Lost
  <2>3. Served'
    BY <1>7, <2>0 DEF CreateFvbVirtualEvent, Succeeds, Fails, Asserted, TypeOK, Progress,
       Served, Early, Accepted
  <2>4. Change'
    BY <1>7, <2>0 DEF CreateFvbVirtualEvent, Succeeds, Fails, Asserted, TypeOK, Progress,
       Change, Physical, Virtual, Noted, Returned
  <2>5. ConvertedOnce'
    BY <1>7, <2>0 DEF CreateFvbVirtualEvent, Succeeds, Fails, Asserted, TypeOK, ConvertedOnce
  <2>6. StraysOnlyAfterFailure'
    BY <1>7, <2>0 DEF CreateFvbVirtualEvent, Succeeds, Fails, Asserted, TypeOK,
       StraysOnlyAfterFailure
  <2> QED BY <2>1, <2>2, <2>3, <2>4, <2>5, <2>6 DEF Inv
<1>8. CASE InstallProtocols
  <2>0. TypeOK /\ Progress /\ Served /\ Change /\ ConvertedOnce /\ StraysOnlyAfterFailure
    BY DEF Inv
  <2>1. TypeOK'
    BY <1>8, <2>0 DEF InstallProtocols, Succeeds, Fails, Asserted, TypeOK, Steps, Calls
  <2>2. Progress'
    BY <1>8, <2>0 DEF InstallProtocols, Succeeds, Fails, Asserted, TypeOK, Progress, Early,
       Accepted, Lost
  <2>3. Served'
    BY <1>8, <2>0 DEF InstallProtocols, Succeeds, Fails, Asserted, TypeOK, Progress, Served,
       Early, Accepted
  <2>4. Change'
    BY <1>8, <2>0 DEF InstallProtocols, Succeeds, Fails, Asserted, TypeOK, Progress, Change,
       Physical, Virtual, Noted, Returned
  <2>5. ConvertedOnce'
    BY <1>8, <2>0 DEF InstallProtocols, Succeeds, Fails, Asserted, TypeOK, ConvertedOnce
  <2>6. StraysOnlyAfterFailure'
    BY <1>8, <2>0 DEF InstallProtocols, Succeeds, Fails, Asserted, TypeOK,
       StraysOnlyAfterFailure
  <2> QED BY <2>1, <2>2, <2>3, <2>4, <2>5, <2>6 DEF Inv
<1>9. CASE RegisterVirtualEvent
  <2>0. TypeOK /\ Progress /\ Served /\ Change /\ ConvertedOnce /\ StraysOnlyAfterFailure
    BY DEF Inv
  <2>1. TypeOK'
    BY <1>9, <2>0 DEF RegisterVirtualEvent, Succeeds, Fails, Asserted, TypeOK, Steps, Calls
  <2>2. Progress'
    BY <1>9, <2>0 DEF RegisterVirtualEvent, Succeeds, Fails, Asserted, TypeOK, Progress, Early,
       Accepted, Lost
  <2>3. Served'
    BY <1>9, <2>0 DEF RegisterVirtualEvent, Succeeds, Fails, Asserted, TypeOK, Progress, Served,
       Early, Accepted
  <2>4. Change'
    BY <1>9, <2>0 DEF RegisterVirtualEvent, Succeeds, Fails, Asserted, TypeOK, Progress, Change,
       Physical, Virtual, Noted, Returned
  <2>5. ConvertedOnce'
    BY <1>9, <2>0 DEF RegisterVirtualEvent, Succeeds, Fails, Asserted, TypeOK, ConvertedOnce
  <2>6. StraysOnlyAfterFailure'
    BY <1>9, <2>0 DEF RegisterVirtualEvent, Succeeds, Fails, Asserted, TypeOK,
       StraysOnlyAfterFailure
  <2> QED BY <2>1, <2>2, <2>3, <2>4, <2>5, <2>6 DEF Inv
<1>10. CASE CpuArchInstalled
  <2>0. TypeOK /\ Progress /\ Served /\ Change /\ ConvertedOnce /\ StraysOnlyAfterFailure
    BY DEF Inv
  <2>1. TypeOK'
    BY <1>10, <2>0 DEF CpuArchInstalled, Succeeds, Fails, Asserted, FlashMemoryInitEventNotify,
       TypeOK, Steps, Calls, Returned
  <2>2. Progress'
    BY <1>10, <2>0 DEF CpuArchInstalled, Succeeds, Fails, Asserted, FlashMemoryInitEventNotify,
       TypeOK, Progress, Early, Accepted, Lost, Returned
  <2>3. Served'
    BY <1>10, <2>0 DEF CpuArchInstalled, Succeeds, Fails, Asserted, FlashMemoryInitEventNotify,
       TypeOK, Progress, Served, Early, Accepted, Returned
  <2>4. Change'
    BY <1>10, <2>0 DEF CpuArchInstalled, Succeeds, Fails, Asserted, FlashMemoryInitEventNotify,
       TypeOK, Progress, Change, Physical, Virtual, Noted, Returned
  <2>5. ConvertedOnce'
    BY <1>10, <2>0 DEF CpuArchInstalled, Succeeds, Fails, Asserted, FlashMemoryInitEventNotify,
       TypeOK, ConvertedOnce
  <2>6. StraysOnlyAfterFailure'
    BY <1>10, <2>0 DEF CpuArchInstalled, Succeeds, Fails, Asserted, FlashMemoryInitEventNotify,
       TypeOK, StraysOnlyAfterFailure, Progress, Change, Lost, Returned
  <2> QED BY <2>1, <2>2, <2>3, <2>4, <2>5, <2>6 DEF Inv
<1>11. CASE SetVirtualAddressMap
  <2>0. TypeOK /\ Progress /\ Served /\ Change /\ ConvertedOnce /\ StraysOnlyAfterFailure
    BY DEF Inv
  <2>1. TypeOK'
    BY <1>11, <2>0 DEF SetVirtualAddressMap, TypeOK, Steps, Calls, Returned
  <2>2. Progress'
    BY <1>11, <2>0 DEF SetVirtualAddressMap, TypeOK, Progress, Early, Accepted, Lost, Returned
  <2>3. Served'
    BY <1>11, <2>0 DEF SetVirtualAddressMap, TypeOK, Progress, Served, Early, Accepted, Returned
  <2>4. Change'
    BY <1>11, <2>0 DEF SetVirtualAddressMap, TypeOK, Progress, Change, Physical, Virtual, Noted,
       Returned, Pointers, InstancePointers, FvbPointers
  <2>5. ConvertedOnce'
    BY <1>11, <2>0 DEF SetVirtualAddressMap, TypeOK, ConvertedOnce
  <2>6. StraysOnlyAfterFailure'
    BY <1>11, <2>0 DEF SetVirtualAddressMap, TypeOK, StraysOnlyAfterFailure, Progress, Change,
       Lost, Returned
  <2> QED BY <2>1, <2>2, <2>3, <2>4, <2>5, <2>6 DEF Inv
<1>12. CASE FvbVirtualNotify
  <2>0. TypeOK /\ Progress /\ Served /\ Change /\ ConvertedOnce /\ StraysOnlyAfterFailure
    BY DEF Inv
  <2>1. IF pc = "loaded"
           THEN pointers' = Converted({"mFlashNvStorageVariableBase"}) ELSE pointers' = pointers
    BY <1>12 DEF FvbVirtualNotify, Noted
  <2>2. \A p \in {"mFlashNvStorageVariableBase"} : pointers[p] = "physical"
    BY <1>12, <2>0 DEF FvbVirtualNotify, Change, Physical, Noted
  <2>3. /\ pointers' \in [Pointers -> {"physical", "virtual", "wild"}]
        /\ \A p \in Pointers \ {"mFlashNvStorageVariableBase"} : pointers'[p] = pointers[p]
        /\ IF pc = "loaded"
              THEN \A p \in {"mFlashNvStorageVariableBase"} : pointers'[p] = "virtual"
              ELSE pointers' = pointers
    <3>1. CASE ~(pc = "loaded")
      BY <2>0, <2>1, <3>1 DEF TypeOK
    <3>2. CASE pc = "loaded"
      BY <2>0, <2>1, <2>2, <3>2 DEF TypeOK, Converted, Noted, Pointers, InstancePointers,
         FvbPointers
    <3> QED BY <3>1, <3>2
  <2>4. TypeOK'
    BY <1>12, <2>0, <2>3 DEF FvbVirtualNotify, TypeOK
  <2>5. Progress'
    BY <1>12, <2>0 DEF FvbVirtualNotify, Progress, Early, Accepted, Lost
  <2>6. Served'
    BY <1>12, <2>0 DEF FvbVirtualNotify, Served, Early, Accepted
  <2>7. Change'
    <3>1. phase = "os" /\ phase' = "os" /\ Returned'
      BY <1>12, <2>0 DEF FvbVirtualNotify, TypeOK, Change, Returned
    <3>2. pending' \subseteq registered' /\ pending' \subseteq pending
      BY <1>12, <2>0 DEF FvbVirtualNotify, Change
    <3>3. "FvbVirtual" \in pending' => Physical({"mFlashNvStorageVariableBase"})'
      BY <1>12, <2>0, <2>3 DEF FvbVirtualNotify, Change, Physical, Pointers, InstancePointers,
         FvbPointers, Noted
    <3>4. "NorFlashVirtual" \in pending' => Physical(InstancePointers)'
      BY <1>12, <2>0, <2>3 DEF FvbVirtualNotify, Change, Physical, Pointers, InstancePointers,
         FvbPointers, Noted
    <3>5. pc' = "loaded" /\ "FvbVirtual" \in registered' \ pending'
            => Virtual({"mFlashNvStorageVariableBase"})'
      BY <1>12, <2>0, <2>3, <3>1 DEF FvbVirtualNotify, Change, Virtual, Pointers,
         InstancePointers, FvbPointers, Noted
    <3>6. pc' = "loaded" /\ slot' = "instance" /\ "NorFlashVirtual" \notin pending'
            => Virtual(Noted)'
      BY <1>12, <2>0, <2>3, <3>1 DEF FvbVirtualNotify, Change, Virtual, Pointers,
         InstancePointers, FvbPointers, Noted
    <3> QED BY <3>1, <3>2, <3>3, <3>4, <3>5, <3>6 DEF Change
  <2>8. ConvertedOnce'
    BY <2>0, <2>3 DEF ConvertedOnce, Noted, Pointers, InstancePointers, FvbPointers
  <2>9. StraysOnlyAfterFailure'
    BY <1>12, <2>0 DEF FvbVirtualNotify, TypeOK, StraysOnlyAfterFailure, Progress,
       Change, Lost, Returned
  <2> QED BY <2>4, <2>5, <2>6, <2>7, <2>8, <2>9 DEF Inv
<1>13. CASE NorFlashVirtualNotify
  <2>0. TypeOK /\ Progress /\ Served /\ Change /\ ConvertedOnce /\ StraysOnlyAfterFailure
    BY DEF Inv
  <2>1. IF slot = "instance" THEN pointers' = Converted(Noted) ELSE pointers' = pointers
    BY <1>13 DEF NorFlashVirtualNotify, Noted
  <2>2. \A p \in Noted : pointers[p] = "physical"
    BY <1>13, <2>0 DEF NorFlashVirtualNotify, Change, Physical, Noted
  <2>3. /\ pointers' \in [Pointers -> {"physical", "virtual", "wild"}]
        /\ \A p \in Pointers \ Noted : pointers'[p] = pointers[p]
        /\ IF slot = "instance"
              THEN \A p \in Noted : pointers'[p] = "virtual" ELSE pointers' = pointers
    <3>1. CASE ~(slot = "instance")
      BY <2>0, <2>1, <3>1 DEF TypeOK
    <3>2. CASE slot = "instance"
      BY <2>0, <2>1, <2>2, <3>2 DEF TypeOK, Converted, Noted, Pointers, InstancePointers,
         FvbPointers
    <3> QED BY <3>1, <3>2
  <2>4. TypeOK'
    BY <1>13, <2>0, <2>3 DEF NorFlashVirtualNotify, TypeOK
  <2>5. Progress'
    BY <1>13, <2>0 DEF NorFlashVirtualNotify, Progress, Early, Accepted, Lost
  <2>6. Served'
    BY <1>13, <2>0 DEF NorFlashVirtualNotify, Served, Early, Accepted
  <2>7. Change'
    <3>1. phase = "os" /\ phase' = "os" /\ Returned'
      BY <1>13, <2>0 DEF NorFlashVirtualNotify, TypeOK, Change, Returned
    <3>2. pending' \subseteq registered' /\ pending' \subseteq pending
      BY <1>13, <2>0 DEF NorFlashVirtualNotify, Change
    <3>3. "FvbVirtual" \in pending' => Physical({"mFlashNvStorageVariableBase"})'
      BY <1>13, <2>0, <2>3 DEF NorFlashVirtualNotify, Change, Physical, Pointers,
         InstancePointers, FvbPointers, Noted
    <3>4. "NorFlashVirtual" \in pending' => Physical(InstancePointers)'
      BY <1>13, <2>0, <2>3 DEF NorFlashVirtualNotify, Change, Physical, Pointers,
         InstancePointers, FvbPointers, Noted
    <3>5. pc' = "loaded" /\ "FvbVirtual" \in registered' \ pending'
            => Virtual({"mFlashNvStorageVariableBase"})'
      BY <1>13, <2>0, <2>3, <3>1 DEF NorFlashVirtualNotify, Change, Virtual, Pointers,
         InstancePointers, FvbPointers, Noted
    <3>6. pc' = "loaded" /\ slot' = "instance" /\ "NorFlashVirtual" \notin pending'
            => Virtual(Noted)'
      BY <1>13, <2>0, <2>3, <3>1 DEF NorFlashVirtualNotify, Change, Virtual, Pointers,
         InstancePointers, FvbPointers, Noted
    <3> QED BY <3>1, <3>2, <3>3, <3>4, <3>5, <3>6 DEF Change
  <2>8. ConvertedOnce'
    BY <2>0, <2>3 DEF ConvertedOnce, Noted, Pointers, InstancePointers, FvbPointers
  <2>9. StraysOnlyAfterFailure'
    BY <1>13, <2>0 DEF NorFlashVirtualNotify, TypeOK, StraysOnlyAfterFailure, Progress,
       Change, Lost, Returned
  <2> QED BY <2>4, <2>5, <2>6, <2>7, <2>8, <2>9 DEF Inv
<1>14. CASE UNCHANGED vars
  <2>0. UNCHANGED <<build, bootMode, header, pc, failed, slot, installed, registered, pointers,
                    region, cpu, phase, pending, strayed>>
    BY <1>14 DEF vars
  <2>1. TypeOK' /\ ConvertedOnce' /\ StraysOnlyAfterFailure'
    BY <2>0 DEF Inv, TypeOK, ConvertedOnce, StraysOnlyAfterFailure
  <2>2. Progress' /\ Served'
    BY <2>0, ZenonT(60) DEF Inv, Progress, Served, Accepted, Lost
  <2>3. Change'
    BY <2>0 DEF Inv, Change, Physical, Virtual, Returned
  <2> QED BY <2>1, <2>2, <2>3 DEF Inv
<1> QED BY <1>1, <1>2, <1>3, <1>4, <1>5, <1>6, <1>7, <1>8, <1>9, <1>10, <1>11, <1>12, <1>13,
   <1>14 DEF Next, NorFlashInitialise

(* The invariant holds in every state of the driver's life.                *)
THEOREM InvHolds == Spec => []Inv
  BY InitInv, NextInv, PTL DEF Spec

(* Every part of the driver's state stays within its type, and only a      *)
(* DEBUG build stops.                                                      *)
THEOREM TypesHold == Spec => []TypeOK
<1>1. Inv => TypeOK
  BY DEF Inv
<1> QED BY <1>1, InvHolds, PTL

(* A store is announced only over an accepted header in a normal boot,     *)
(* and a loaded driver serves it unless its event or protocols failed.     *)
THEOREM AnnouncedStoresAreServed == Spec => []AnnouncedIsServed
<1>1. Inv => AnnouncedIsServed
  BY DEF Inv, Progress, Served, Accepted, AnnouncedIsServed
<1> QED BY <1>1, InvHolds, PTL

(* The firmware volume is served only over an accepted header, by an       *)
(* instance the address change finds, with its event registered.           *)
THEOREM ServedVolumesAreReady == Spec => []ServedIsReady
<1>1. Inv => ServedIsReady
  BY DEF Inv, Served, Accepted, ServedIsReady
<1> QED BY <1>1, InvHolds, PTL

(* No address is converted twice.                                          *)
THEOREM AddressesConvertOnce == Spec => []ConvertedOnce
<1>1. Inv => ConvertedOnce
  BY DEF Inv
<1> QED BY <1>1, InvHolds, PTL

(* After the address change a served volume has virtual addresses and      *)
(* its device is runtime memory, unless that failed or the event that      *)
(* does it.                                                                *)
THEOREM VolumesStayUsable == Spec => []VolumeUsable
<1>1. ASSUME Inv, phase = "os", pending = {}, pc = "loaded", "Fvb" \in installed
      PROVE /\ \A p \in FvbPointers \cup {"mFlashNvStorageVariableBase"} :
                  pointers[p] = "virtual"
            /\ region = "runtime" \/ failed \cap {"notify", "attributes"} # {}
  <2>1. slot = "instance" /\ "FvbVirtual" \in registered
    BY <1>1 DEF Inv, Served
  <2>2. Virtual({"mFlashNvStorageVariableBase"}) /\ Virtual(Noted)
    BY <1>1, <2>1 DEF Inv, Change
  <2>3. region = "runtime" \/ failed \cap {"notify", "attributes"} # {}
    BY <1>1 DEF Inv, Progress
  <2> QED BY <2>2, <2>3 DEF Virtual, Noted, InstancePointers, FvbPointers
<1>2. Inv => VolumeUsable
  BY <1>1 DEF VolumeUsable
<1> QED BY <1>2, InvHolds, PTL

(* No notification runs without an instance or an image unless an          *)
(* allocation, the protocols or the last event failed.                     *)
THEOREM StrayingNeedsAFailure == Spec => []StraysOnlyAfterFailure
<1>1. Inv => StraysOnlyAfterFailure
  BY DEF Inv
<1> QED BY <1>1, InvHolds, PTL

-----------------------------------------------------------------------------
\* A normal boot from a fresh header in which nothing has failed gets this far.
FreshSoFar ==
    (failed = {} /\ bootMode # "BOOT_WITH_DEFAULT_SETTINGS" /\ header = FreshHeader) =>
        /\ pc \notin {"install without volume", "unloaded"}
        /\ pc \in {"event", "install with volume", "register", "loaded"} =>
              "NvVarStoreFormatted" \in installed
        /\ pc \in {"register", "loaded"} => "Fvb" \in installed

\* A volume that is served, or about to be, has a header that is accepted.
AcceptedFirst ==
    "Fvb" \in installed \/ pc \in {"announce", "event", "install with volume"} =>
        MayAccept(header)

HeaderInv == FreshSoFar /\ AcceptedFirst

(* No step of the driver leaves what its header lets it reach.             *)
LEMMA HeaderNext == Inv /\ HeaderInv /\ [Next]_vars => HeaderInv'
<1> SUFFICES ASSUME Inv, HeaderInv, [Next]_vars PROVE HeaderInv'
  OBVIOUS
<1> USE DEF environment, entry, later, HeaderInv, FreshSoFar, AcceptedFirst
<1>0. /\ slot = "NULL" => "array" \in failed
      /\ pc \in Early => installed = {}
  BY DEF Inv, Progress
<1>1. CASE PlatformInitialization
  BY <1>1 DEF PlatformInitialization, Succeeds, Fails
<1>2. CASE AllocateInstances
  BY <1>2 DEF AllocateInstances, Succeeds, Fails
<1>3. CASE CreateNotifyEvent
  BY <1>3 DEF CreateNotifyEvent, FlashMemoryInitEventNotify, Succeeds, Fails, Asserted
<1>4. CASE CreateInstance
  BY <1>0, <1>4 DEF CreateInstance, Succeeds, Fails
<1>5. CASE ValidateVolume
  <2>1. /\ pc = "volume" /\ UNCHANGED <<bootMode, header, installed>>
        /\ pc' \in {"install without volume", "announce", "stopped"}
    BY <1>5 DEF ValidateVolume, ValidateFvHeader, Succeeds, Fails
  <2>2. "Fvb" \notin installed
    BY <1>0, <2>1 DEF Early
  <2>3. pc' = "announce" => MayAccept(header)
    BY <1>5 DEF ValidateVolume, ValidateFvHeader, Succeeds, Fails
  <2>4. ASSUME failed' = {}, bootMode # "BOOT_WITH_DEFAULT_SETTINGS", header = FreshHeader
        PROVE  pc' # "install without volume"
    BY <1>5, <2>4, FreshAccepted DEF ValidateVolume, ValidateFvHeader, Succeeds, Fails
  <2> QED BY <2>1, <2>2, <2>3, <2>4
<1>6. CASE AnnounceStore
  BY <1>6 DEF AnnounceStore, Succeeds, Fails, Asserted
<1>7. CASE CreateFvbVirtualEvent
  BY <1>7 DEF CreateFvbVirtualEvent, Succeeds, Fails, Asserted
<1>8. CASE InstallProtocols
  BY <1>8 DEF InstallProtocols, Succeeds, Fails
<1>9. CASE RegisterVirtualEvent
  BY <1>9 DEF RegisterVirtualEvent, Succeeds, Fails, Asserted
<1>10. CASE CpuArchInstalled
  BY <1>10 DEF CpuArchInstalled, Returned, FlashMemoryInitEventNotify, Succeeds, Fails, Asserted
<1>11. CASE SetVirtualAddressMap
  BY <1>11 DEF SetVirtualAddressMap
<1>12. CASE FvbVirtualNotify
  BY <1>12 DEF FvbVirtualNotify
<1>13. CASE NorFlashVirtualNotify
  BY <1>13 DEF NorFlashVirtualNotify
<1>14. CASE UNCHANGED vars
  BY <1>14 DEF vars
<1> QED BY <1>1, <1>2, <1>3, <1>4, <1>5, <1>6, <1>7, <1>8, <1>9, <1>10, <1>11, <1>12, <1>13,
   <1>14 DEF Next, NorFlashInitialise

(* The header decides what the driver reaches, in every state of its life. *)
THEOREM HeaderInvHolds == Spec => []HeaderInv
<1>1. Init => HeaderInv
  BY DEF Init, HeaderInv, FreshSoFar, AcceptedFirst
<1> QED BY <1>1, HeaderNext, InvHolds, PTL DEF Spec

(* What InitializeFvAndVariableStoreHeaders writes ValidateFvHeader        *)
(* accepts, for every geometry and GUIDs, and a normal boot in which       *)
(* nothing fails announces the store and serves the volume.                *)
THEOREM FreshVolumesAreServed == Spec => []FreshIsServed
<1>1. HeaderInv => FreshIsServed
  BY DEF HeaderInv, FreshSoFar, FreshIsServed
<1> QED BY <1>1, HeaderInvHolds, PTL

(* A volume is never served over a fresh header of which one word has      *)
(* changed since, whichever word and whatever to, but for the store's      *)
(* state and a HeaderLength out of the bytes that were read.               *)
THEOREM DamageIsNoticed == ASSUME GuidsTell PROVE Spec => []DamageNoticed
<1>1. Inv /\ HeaderInv => DamageNoticed
  <2> SUFFICES ASSUME Inv, HeaderInv, "Fvb" \in installed, Cardinality(Damage) = 1
               PROVE  Damage \subseteq 47 .. 50 \/ LooksBeyond(header)
    BY DEF DamageNoticed
  <2>1. header \in Header /\ MayAccept(header)
    BY ImagesAssumption DEF Inv, TypeOK, HeaderInv, AcceptedFirst
  <2>2. DOMAIN header = 1 .. 50
    BY <2>1, HeaderDomain
  <2>3. IsFiniteSet(Damage)
    <3>1. IsFiniteSet(1 .. 50)
      BY FS_Interval, 1 \in Int, 50 \in Int, Zenon
    <3>2. Damage \subseteq 1 .. 50
      BY <2>2 DEF Damage
    <3> QED BY <3>1, <3>2, FS_Subset
  <2>4. PICK i : Damage = {i}
    BY <2>3, FS_Singleton
  <2>5. /\ i \in 1 .. 50 /\ header[i] # FreshHeader[i]
        /\ \A j \in 1 .. 50 : j # i => header[j] = FreshHeader[j]
    BY <2>2, <2>4 DEF Damage
  <2> HIDE DEF Damage
  <2>6. i \in 47 .. 50 \/ LooksBeyond(header)
    BY <2>1, <2>5, OneWordNoticed
  <2> QED BY <2>4, <2>6
<1> QED BY <1>1, InvHolds, HeaderInvHolds, PTL
============================================================================
