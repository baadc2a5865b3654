--------------------------- MODULE MCNorFlashInit ---------------------------
(***************************************************************************)
(* NorFlashInit with the geometry and the GUIDs of this platform.  The     *)
(* flash holds a fresh header, one with a word changed by a bit, a byte or *)
(* altogether, or one whose HeaderLength is odd, short or long with the    *)
(* checksum made right for it, so that what follows the sum is reached.    *)
(***************************************************************************)
EXTENDS NorFlashInit

MCSystemNvDataFvGuid        == <<11149, 65521, 30358, 19595, 34217, 18215, 23303, 20559>>
MCAuthenticatedVariableGuid == <<11384, 43763, 38011, 17306, 32929, 5166, 49998, 37495>>
MCVariableGuid              == <<13846, 56783, 12917, 16740, 46744, 34302, 32624, 32254>>

\* What a theorem assumes of these values.
ASSUME GuidsTell

Changed(i, w) == [FreshHeader EXCEPT ![i] = w]
Changes == {Changed(i, w) : i \in DOMAIN FreshHeader, w \in {0, 1, 65535}}
             \cup {Changed(i, (FreshHeader[i] + d) % WordSize) : i \in DOMAIN FreshHeader, d \in {1, 256}}

\* A header with another length, summed over that length.
Summed(h) == [h EXCEPT ![Checksum] =
                 (WordSize - Sum16([h EXCEPT ![Checksum] = 0], HeaderLength(h) \div 2)) % WordSize]
Lengths == {Summed(Changed(25, l)) : l \in {56, 71, 73, 74, 80, 82, 99, 100}}

\* Consistent headers that are not what InitializeFvAndVariableStoreHeaders writes.
Blocks121 == Summed(Changed(29, 121))
Plain == [i \in DOMAIN FreshHeader |->
             IF i \in 37 .. 44 THEN VariableGuid[i - 36] ELSE FreshHeader[i]]
Erased == [i \in DOMAIN FreshHeader |-> 65535]

MCImages == {FreshHeader, Blocks121, Plain, Erased} \cup Changes \cup Lengths
=============================================================================
