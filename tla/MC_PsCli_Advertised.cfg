CONSTANTS
  MediaIn <- MCMediaIn
  AssetIn <- MCAssetIn
  StatusIn <- MCStatusIn
  DirectionIn <- MCDirectionIn
  SystemIn <- MCSystemIn
  TextIn <- MCTextIn
  StrayIn <- MCStrayIn
SPECIFICATION Spec
INVARIANT
  AdvertisedInvocationsAccepted

