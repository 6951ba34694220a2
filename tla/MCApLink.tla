-------------------------------- MODULE MCApLink --------------------------------
EXTENDS ApLink

MCDevice == {"A"}
MCDevices == {"A", "B"}
MCNoChannel == {}
MCZero == {0}
MCOne == {1}
MCSend == {"ESP_OK", "ESP_ERR"}
MCAdd == BOOLEAN
MCAddOk == {TRUE}
MCSendOk == {"ESP_OK"}

=============================================================================
