---------------------------- MODULE MCInventory ----------------------------
(* Instances of Inventory: a cover, the alarm system and two door devices, one *)
(* of which may be registered as intercom or as door lock.                     *)
EXTENDS Inventory

CONSTANTS cover1, alarm1, door1, door2

MCTypesOf ==
    [k \in Keys |->
        CASE k = cover1 -> {"cover"}
          [] k = alarm1 -> {"alarm"}
          [] k = door1  -> {"intercom", "door_lock"}
          [] k = door2  -> {"intercom"}]
MCDoorKeys == Keys \intersect {door1, door2}
MCPlatforms == {"cover", "button", "alarm_control_panel", "binary_sensor"}
=============================================================================
