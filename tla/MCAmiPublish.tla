---- MODULE MCAmiPublish ----
EXTENDS AmiPublish
OneRegion == <<"us-east-1">>
TwoRegions == <<"us-east-1", "eu-west-1">>
TwoJoined == <<"coordinator", "node_main">>
OneJoined == <<"coordinator">>
====
