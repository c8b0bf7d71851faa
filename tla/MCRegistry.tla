----------------------------- MODULE MCRegistry -----------------------------
EXTENDS EntityReset

NetSensor == [platform |-> "sensor", key |-> "net_select"]
NetSelect == [platform |-> "select", key |-> "net_select"]
Signal == [platform |-> "sensor", key |-> "rssi"]
Refresh == [platform |-> "button", key |-> "refresh"]
MCEntities == {NetSensor, NetSelect, Signal, Refresh}
MCKeys == {"net_select", "rssi", "refresh"}
MCDefault == [e \in MCEntities |-> TRUE]
MCOverlay == [k \in {"rssi"} |-> FALSE]
MCBudgets == {[changes |-> 2, starts |-> 2, faults |-> 1, lifetimes |-> 1, gestures |-> 0],
              [changes |-> 0, starts |-> 1, faults |-> 0, lifetimes |-> 0, gestures |-> 3]}
MCPayloads == {[found |-> {"net_select", "rssi"}, value |-> "a"],
               [found |-> {"net_select"}, value |-> "b"],
               [found |-> {}, value |-> Nil]}

Nothing == [save_snapshot |-> FALSE, restore_snapshot |-> FALSE,
            reset_to_default |-> FALSE, enable_populated |-> FALSE,
            disable_unavailable |-> FALSE, disable_unknown |-> FALSE,
            include_ever_populated |-> FALSE, preserve_user_customized |-> FALSE,
            exclude_entities |-> {}, dry_run |-> FALSE]
MCCalls == {[Nothing EXCEPT !.save_snapshot = TRUE],
            [Nothing EXCEPT !.restore_snapshot = TRUE],
            [Nothing EXCEPT !.disable_unavailable = TRUE, !.disable_unknown = TRUE],
            [Nothing EXCEPT !.reset_to_default = TRUE, !.enable_populated = TRUE,
                            !.preserve_user_customized = TRUE],
            [Nothing EXCEPT !.disable_unknown = TRUE, !.include_ever_populated = TRUE,
                            !.exclude_entities = {NetSensor}]}
=============================================================================
