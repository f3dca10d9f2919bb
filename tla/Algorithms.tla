----------------------------- MODULE Algorithms -----------------------------
(***************************************************************************)
(* The parts that share no state with each other: a behaviour follows one  *)
(* of them and leaves the others still.                                    *)
(***************************************************************************)
EXTENDS Classifier, Settings, Charts, Endpoints, DiskIo

NoText == grammar = [first |-> {}, rest |-> {}, longest |-> 0] /\ text = <<>>
NoServer == file = <<>> /\ mounts = <<>> /\ connected = <<>> /\ edits = MaxEdits /\ named = {}
NoChart == /\ now = Span /\ startedAt = Span /\ fetching = -1 /\ points = Nothing
           /\ recorded = Nothing /\ drawn = [points |-> Nothing, from |-> 0, to |-> 0, took |-> 0]
NoEndpoint == meant = <<>> /\ conn_string = <<>>
NoDisk == /\ version = 0 /\ count = <<>> /\ reading = NoReading /\ snapshot = NoSnapshot
          /\ shown = Empty("pending") /\ real = <<>> /\ seen = <<>> /\ window = <<>>

Init == \/ ClassifierInit /\ NoServer /\ NoChart /\ NoEndpoint /\ NoDisk
        \/ NoText /\ SettingsInit /\ NoChart /\ NoEndpoint /\ NoDisk
        \/ NoText /\ NoServer /\ ChartInit /\ NoEndpoint /\ NoDisk
        \/ NoText /\ NoServer /\ NoChart /\ EndpointInit /\ NoDisk
        \/ NoText /\ NoServer /\ NoChart /\ NoEndpoint /\ DiskInit

Next == \/ ClassifierNext /\ UNCHANGED <<settingsVars, chartVars, endpointVars, diskVars>>
        \/ SettingsNext /\ UNCHANGED <<classifierVars, chartVars, endpointVars, diskVars>>
        \/ ChartNext /\ UNCHANGED <<classifierVars, settingsVars, endpointVars, diskVars>>
        \/ /\ version # 0 /\ DiskNext
           /\ UNCHANGED <<classifierVars, settingsVars, chartVars, endpointVars>>

Spec == Init /\ [][Next]_<<classifierVars, settingsVars, chartVars, endpointVars, diskVars>>
=============================================================================
