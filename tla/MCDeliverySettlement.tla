------------------------ MODULE MCDeliverySettlement ------------------------
EXTENDS DeliverySettlement
=============================================================================
