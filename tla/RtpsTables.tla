----------------------------- MODULE RtpsTables -----------------------------
(***************************************************************************)
(* The static tables of tools/validate_sedp.py and the EntityClassifier    *)
(* (classify_entity_id), which reads them.                                 *)
(***************************************************************************)
EXTENDS Integers, Sequences, TLC

RTPS_SUBMSG_DATA == 21   \* 0x15

(* ENTITY_IDS.  A display name is kept as its '_'-separated words, so that *)
(* the substring tests of classify_entity_id ('SPDP' in name) can be       *)
(* evaluated: in this table a word contains SPDP, PUBLICATIONS or          *)
(* SUBSCRIPTIONS exactly when it equals it.                                *)
ENTITY_IDS ==
    192    :> <<"ENTITYID", "UNKNOWN">>                                          @@
    65730  :> <<"ENTITYID", "SPDP", "BUILTIN", "PARTICIPANT", "WRITER">>        @@
    449    :> <<"ENTITYID", "SPDP", "BUILTIN", "PARTICIPANT", "READER">>        @@
    962    :> <<"ENTITYID", "SEDP", "BUILTIN", "PUBLICATIONS", "WRITER">>       @@
    1218   :> <<"ENTITYID", "SEDP", "BUILTIN", "PUBLICATIONS", "READER">>       @@
    967    :> <<"ENTITYID", "SEDP", "BUILTIN", "SUBSCRIPTIONS", "WRITER">>      @@
    1223   :> <<"ENTITYID", "SEDP", "BUILTIN", "SUBSCRIPTIONS", "READER">>      @@
    131266 :> <<"ENTITYID", "SEDP", "BUILTIN", "TOPIC", "WRITER">>              @@
    131522 :> <<"ENTITYID", "SEDP", "BUILTIN", "TOPIC", "READER">>

NameHas(name, word) == \E i \in DOMAIN name : name[i] = word

(* classify_entity_id: the role a writer entity id is given.              *)
classify_entity_id(id) ==
    IF id \in DOMAIN ENTITY_IDS
    THEN CASE NameHas(ENTITY_IDS[id], "SPDP")          -> "SPDP"
           [] NameHas(ENTITY_IDS[id], "PUBLICATIONS")  -> "SEDP_PUB"
           [] NameHas(ENTITY_IDS[id], "SUBSCRIPTIONS") -> "SEDP_SUB"
           [] OTHER                                    -> "BUILTIN"
    ELSE "USER"

Roles == {"SPDP", "SEDP_PUB", "SEDP_SUB", "BUILTIN", "USER"}

(* The parameter ids that parse_cdr_parameter_list and                     *)
(* validate_sedp_packet test by literal value.  The decoder reads 0x001A   *)
(* as the reliability kind and 0x001D as the durability kind; PID_MAP      *)
(* gives those names to 0x0011 and 0x0007.                                 *)
PID_SENTINEL      == 1
PID_TOPIC_NAME    == 3
PID_TYPE_NAME     == 4
PID_ENDPOINT_GUID == 90
RELIABILITY_PID   == 26
DURABILITY_PID    == 29

(* PID_MAP: the name printed for a parameter id.                           *)
PID_MAP ==
    1 :> "PID_SENTINEL" @@ 2 :> "PID_USER_DATA" @@ 3 :> "PID_TOPIC_NAME" @@
    4 :> "PID_TYPE_NAME" @@ 5 :> "PID_GROUP_DATA" @@ 6 :> "PID_TOPIC_DATA" @@
    7 :> "PID_DURABILITY" @@ 11 :> "PID_DEADLINE" @@
    13 :> "PID_LATENCY_BUDGET" @@ 15 :> "PID_LIVELINESS" @@
    17 :> "PID_RELIABILITY" @@ 22 :> "PID_LIFESPAN" @@
    26 :> "PID_DESTINATION_ORDER" @@ 29 :> "PID_PRESENTATION" @@
    31 :> "PID_PARTITION" @@ 35 :> "PID_TIME_BASED_FILTER" @@
    37 :> "PID_OWNERSHIP" @@ 41 :> "PID_OWNERSHIP_STRENGTH" @@
    43 :> "PID_DESTINATION_ORDER" @@ 47 :> "PID_METATRAFFIC_UNICAST_LOCATOR" @@
    48 :> "PID_METATRAFFIC_MULTICAST_LOCATOR" @@
    49 :> "PID_DEFAULT_UNICAST_LOCATOR" @@ 50 :> "PID_DEFAULT_MULTICAST_LOCATOR" @@
    51 :> "PID_METATRAFFIC_UNICAST_IPADDRESS" @@
    52 :> "PID_METATRAFFIC_MULTICAST_IPADDRESS" @@
    53 :> "PID_DEFAULT_UNICAST_IPADDRESS" @@ 64 :> "PID_PROTOCOL_VERSION" @@
    65 :> "PID_VENDOR_ID" @@ 67 :> "PID_MULTICAST_IPADDRESS" @@
    68 :> "PID_DEFAULT_UNICAST_PORT" @@ 69 :> "PID_METATRAFFIC_UNICAST_PORT" @@
    70 :> "PID_METATRAFFIC_MULTICAST_PORT" @@ 72 :> "PID_UNICAST_LOCATOR" @@
    80 :> "PID_EXPECTS_INLINE_QOS" @@
    88 :> "PID_PARTICIPANT_MANUAL_LIVELINESS_COUNT" @@
    89 :> "PID_PARTICIPANT_BUILTIN_ENDPOINTS" @@ 90 :> "PID_ENDPOINT_GUID" @@
    91 :> "PID_PARTICIPANT_GUID" @@ 92 :> "PID_PARTICIPANT_LEASE_DURATION" @@
    93 :> "PID_CONTENT_FILTER_PROPERTY" @@ 94 :> "PID_PARTICIPANT_ENTITY_ID" @@
    96 :> "PID_GROUP_GUID" @@ 97 :> "PID_GROUP_ENTITYID" @@
    98 :> "PID_BUILTIN_ENDPOINT_SET" @@ 99 :> "PID_PROPERTY_LIST" @@
    113 :> "PID_TYPE_MAX_SIZE_SERIALIZED" @@ 114 :> "PID_ENTITY_NAME" @@
    115 :> "PID_KEY_HASH" @@ 116 :> "PID_STATUS_INFO" @@
    117 :> "PID_CONTENT_FILTER_INFO" @@ 32768 :> "PID_RELATED_SAMPLE_IDENTITY" @@
    32769 :> "PID_TOPIC_QUERY_GUID" @@ 32770 :> "PID_DATA_REPRESENTATION" @@
    32771 :> "PID_TYPE_CONSISTENCY_ENFORCEMENT" @@
    32772 :> "PID_TYPE_INFORMATION" @@ 32773 :> "PID_TYPE_OBJECT" @@
    32775 :> "PID_DATA_TAGS" @@ 32788 :> "PID_EXTENDED_BUILTIN_ENDPOINTS" @@
    32790 :> "PID_PRODUCT_VERSION" @@ 32791 :> "PID_PLUGIN_PROMISCUITY_KIND" @@
    32792 :> "PID_ENTITY_VIRTUAL_GUID" @@ 32793 :> "PID_SERVICE_INSTANCE_NAME"

(* PID_MAP.get(pid, f"UNKNOWN_0x{pid:04X}"): the fallback's hex suffix is  *)
(* the parameter's own pid, which the parameter record keeps.              *)
PidName(pid) == IF pid \in DOMAIN PID_MAP THEN PID_MAP[pid] ELSE "UNKNOWN"

(* REQUIRED_SEDP_WRITER_PIDS and REQUIRED_SEDP_READER_PIDS, in dict order. *)
REQUIRED_SEDP_WRITER_PIDS ==
    << <<90, "PID_ENDPOINT_GUID">>, <<3, "PID_TOPIC_NAME">>,
       <<4, "PID_TYPE_NAME">>, <<26, "PID_RELIABILITY">>,
       <<29, "PID_DURABILITY">> >>
REQUIRED_SEDP_READER_PIDS ==
    << <<90, "PID_ENDPOINT_GUID">>, <<3, "PID_TOPIC_NAME">>,
       <<4, "PID_TYPE_NAME">>, <<26, "PID_RELIABILITY">>,
       <<29, "PID_DURABILITY">> >>

(* durability_map.get(kind, f'UNKNOWN({kind})')                           *)
DurabilityNames == <<"VOLATILE", "TRANSIENT_LOCAL", "TRANSIENT", "PERSISTENT">>
=============================================================================
